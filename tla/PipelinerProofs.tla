-------------------------- MODULE PipelinerProofs ---------------------------
(***************************************************************************)
(* Proofs about the pipelined loop, for every loop, every number of stages *)
(* and every number of iterations.  First, that what is copied is there to *)
(* be copied; then, on a sound schedule, that the loop does what it did    *)
(* before it was pipelined.                                                *)
(***************************************************************************)
EXTENDS Pipeliner, SequenceTheorems, FiniteSetTheorems, WellFoundedInduction, TLAPS

-----------------------------------------------------------------------------
(***************************************************************************)
(* What a copy has read was there to be read, wherever the copy is: in the *)
(* open group, in a group in flight, on its way to a barrier or landed.    *)
(***************************************************************************)
Within(c) == c.read => c.it < trip

ProgramOK ==
  /\ name \in DOMAIN Loops /\ numStages \in StageCounts /\ trip \in Nat
  /\ prog = pipelineLoop(source, numStages)

ShapeOK ==
  /\ pos = [i |-> pos.i, turn |-> pos.turn] /\ pos.turn \in Nat
  /\ copies = [open |-> copies.open, groups |-> copies.groups]
  /\ Len(copies.groups) \in Nat
  /\ copies.groups = [i \in 1..Len(copies.groups) |-> copies.groups[i]]
  /\ tma = [flying |-> tma.flying, barrier |-> tma.barrier]
  /\ slot = [x \in DOMAIN slot |-> slot[x]]

CopiesWithin ==
  /\ \A x \in DOMAIN slot : slot[x] # None => Within(slot[x])
  /\ \A c \in copies.open : Within(c)
  /\ \A i \in 1..Len(copies.groups) : \A c \in copies.groups[i] : Within(c)
  /\ \A c \in tma.flying : Within(c)

BeyondInv == ProgramOK /\ ShapeOK /\ (DynamicLoop => CopiesWithin)

-----------------------------------------------------------------------------
\* A sequence with an element more at its end, and one without its head.
LEMMA AppendIsLonger ==
  ASSUME NEW s, NEW e, Len(s) \in Nat, s = [i \in 1..Len(s) |-> s[i]]
  PROVE  /\ Len(Append(s, e)) = Len(s) + 1
         /\ Append(s, e) = [i \in 1..(Len(s) + 1) |-> IF i = Len(s) + 1 THEN e ELSE s[i]]
<1> DEFINE S == {s[i] : i \in 1..Len(s)} \cup {e}
<1>1. s \in [1..Len(s) -> S]
  OBVIOUS
<1>2. s \in Seq(S) /\ e \in S
  BY <1>1, SeqDef
<1> HIDE DEF S
<1>3. /\ Append(s, e) \in Seq(S) /\ Len(Append(s, e)) = Len(s) + 1
      /\ \A i \in 1..Len(s) : Append(s, e)[i] = s[i]
      /\ Append(s, e)[Len(s) + 1] = e
  BY <1>2, AppendProperties
<1>4. Append(s, e) \in [1..(Len(s) + 1) -> S]
  BY <1>3, LenProperties
<1>5. \A i \in 1..(Len(s) + 1) : Append(s, e)[i] = IF i = Len(s) + 1 THEN e ELSE s[i]
  BY <1>3
<1> QED
  BY <1>3, <1>4, <1>5

LEMMA TailIsShorter ==
  ASSUME NEW s, Len(s) \in Nat, s = [i \in 1..Len(s) |-> s[i]], s # <<>>
  PROVE  /\ Len(s) >= 1 /\ Head(s) = s[1]
         /\ Len(Tail(s)) = Len(s) - 1
         /\ Tail(s) = [i \in 1..(Len(s) - 1) |-> s[i + 1]]
<1> DEFINE S == {s[i] : i \in 1..Len(s)}
<1>1. s \in [1..Len(s) -> S]
  OBVIOUS
<1>2. s \in Seq(S)
  BY <1>1, SeqDef
<1> HIDE DEF S
<1>3. Len(s) >= 1
  BY <1>2, EmptySeq
<1>4. /\ Tail(s) \in Seq(S) /\ Len(Tail(s)) = Len(s) - 1 /\ Head(s) = s[1]
      /\ \A i \in 1..Len(Tail(s)) : Tail(s)[i] = s[i + 1]
  BY <1>2, HeadTailProperties
<1>5. Tail(s) \in [1..(Len(s) - 1) -> S]
  BY <1>4, LenProperties
<1> QED
  BY <1>3, <1>4, <1>5

-----------------------------------------------------------------------------
\* What an instruction that is on gives belongs to an iteration of the loop: the comparisons
\* of emitPrologue and createKernel.
LEMMA OnIsWithin ==
  ASSUME ProgramOK, ShapeOK, DynamicLoop, NEW kinds, At(kinds), NEW refs, Instr.on
  PROVE  Value(Instr, refs) < trip
<1>1. CASE part = "prologue"
  <2>1. Instr.it < trip
    BY <1>1 DEF Instr
  <2> QED
    BY <2>1 DEF Value, Wrong, ProgramOK
<1>2. CASE part # "prologue"
  <2>1. pos.turn < trip /\ pos.turn \in Nat
    BY <1>2 DEF At, ShapeOK
  <2> DEFINE o == prog.kernel[pos.i]
             behind == IF o \in Ops(body) THEN prog.max - prog.stage[o] ELSE 0
  <2>2. behind \in Int
    <3>1. CASE o \in Ops(body)
      <4>1. prog.max \in Nat /\ prog.stage[o] \in Nat
        BY <3>1, StagesAssumption DEF ProgramOK, body, source
      <4> QED
        BY <4>1, <3>1
    <3> QED
      BY <3>1
  <2>3. Instr.it = pos.turn + behind /\ (behind = 0 \/ pos.turn < trip - behind)
    BY <1>2 DEF Instr
  <2>4. Instr.it < trip
    BY <2>1, <2>2, <2>3 DEF ProgramOK
  <2> QED
    BY <2>4 DEF Value, Wrong, ProgramOK
<1> QED
  BY <1>1, <1>2

LEMMA ProgramInit ==
  ASSUME Init
  PROVE  ProgramOK
BY TripAssumption DEF Init, ProgramOK

\* The loop and its program do not change.
LEMMA ProgramStep ==
  ASSUME ProgramOK, UNCHANGED input
  PROVE  ProgramOK' /\ (DynamicLoop' <=> DynamicLoop)
BY DEF ProgramOK, input, DynamicLoop, source

LEMMA StepKeepsInput ==
  ASSUME [Next]_vars
  PROVE  UNCHANGED input
<1>1. ASSUME NEW v, Give(v) PROVE UNCHANGED input
  BY <1>1 DEF Give
<1>2. CASE Copy \/ Commit \/ Wait \/ Expect \/ TmaCopy \/ TmaWait \/ Dot \/ If \/ Compute
  BY <1>1, <1>2 DEF Copy, Commit, Wait, Expect, TmaCopy, TmaWait, Dot, If, Compute
<1>3. CASE DotWaited \/ EnterKernel \/ NextTurn \/ Leave \/ Hardware \/ Done \/ UNCHANGED vars
  BY <1>3 DEF DotWaited, EnterKernel, NextTurn, Leave, Hardware, Land, TmaLand, Retire, Done, vars
<1> QED
  BY <1>2, <1>3 DEF Next, Run

-----------------------------------------------------------------------------
\* An instruction moves the position on by one.
LEMMA GiveMoves ==
  ASSUME ShapeOK, NEW v, Give(v)
  PROVE  pos' = [i |-> pos.i + 1, turn |-> pos.turn]
BY DEF Give, ShapeOK

PositionOK == pos = [i |-> pos.i, turn |-> pos.turn] /\ pos.turn \in Nat

LEMMA PositionStep ==
  ASSUME ShapeOK, [Next]_vars
  PROVE  PositionOK'
<1>1. CASE Copy \/ Commit \/ Wait \/ Expect \/ TmaCopy \/ TmaWait \/ Dot \/ If \/ Compute
  <2>1. \E v : Give(v)
    BY <1>1 DEF Copy, Commit, Wait, Expect, TmaCopy, TmaWait, Dot, If, Compute
  <2> QED
    BY <2>1, GiveMoves DEF ShapeOK, PositionOK
<1>2. CASE DotWaited \/ EnterKernel \/ NextTurn
  BY <1>2 DEF DotWaited, EnterKernel, NextTurn, ShapeOK, PositionOK
<1>3. CASE Leave \/ Hardware \/ Done \/ UNCHANGED vars
  BY <1>3 DEF Leave, Hardware, Land, TmaLand, Retire, Done, vars, ShapeOK, PositionOK
<1> QED
  BY <1>1, <1>2, <1>3 DEF Next, Run

MemoryOK ==
  /\ copies = [open |-> copies.open, groups |-> copies.groups]
  /\ Len(copies.groups) \in Nat
  /\ copies.groups = [i \in 1..Len(copies.groups) |-> copies.groups[i]]
  /\ tma = [flying |-> tma.flying, barrier |-> tma.barrier]
  /\ slot = [x \in DOMAIN slot |-> slot[x]]

MemInv == MemoryOK /\ (DynamicLoop => CopiesWithin)

\* A copy into slot x of v, which is within the loop where the copy is on.
Fits(on, v) == DynamicLoop /\ on => v < trip

LEMMA CopyEffect ==
  ASSUME BeyondInv, Copy
  PROVE  \E x, v : \E on \in BOOLEAN :
           /\ slot' = [slot EXCEPT ![x] = [it |-> v, landed |-> FALSE, read |-> on]]
           /\ copies' = [open |-> copies.open \cup {[at |-> x, it |-> v, read |-> on]}, groups |-> copies.groups]
           /\ tma' = tma /\ UNCHANGED input /\ Fits(on, v)
<1>1. Fits(Instr.on, Value(Instr, Refs(body, Instr.op)))
  BY OnIsWithin DEF Fits, BeyondInv, Copy
<1>2. Instr.on \in BOOLEAN
  BY DEF Instr
<1>3. /\ slot' = [slot EXCEPT ![Buffer(Tag(Instr.op), Operand(Instr, Ref(Insert)))] =
                     [it |-> Value(Instr, Refs(body, Instr.op)), landed |-> FALSE, read |-> Instr.on]]
      /\ copies' = [open |-> copies.open \cup {[at |-> Buffer(Tag(Instr.op), Operand(Instr, Ref(Insert))),
                                                it |-> Value(Instr, Refs(body, Instr.op)), read |-> Instr.on]},
                    groups |-> copies.groups]
      /\ tma' = tma /\ UNCHANGED input
  BY DEF Copy, BeyondInv, ShapeOK, Give
<1> QED
  BY <1>1, <1>2, <1>3

LEMMA CopyStep ==
  ASSUME BeyondInv, Copy
  PROVE  MemInv'
<1>1. PICK x, v : \E on \in BOOLEAN :
           /\ slot' = [slot EXCEPT ![x] = [it |-> v, landed |-> FALSE, read |-> on]]
           /\ copies' = [open |-> copies.open \cup {[at |-> x, it |-> v, read |-> on]}, groups |-> copies.groups]
           /\ tma' = tma /\ UNCHANGED input /\ Fits(on, v)
  BY CopyEffect
<1>2. PICK on \in BOOLEAN :
           /\ slot' = [slot EXCEPT ![x] = [it |-> v, landed |-> FALSE, read |-> on]]
           /\ copies' = [open |-> copies.open \cup {[at |-> x, it |-> v, read |-> on]}, groups |-> copies.groups]
           /\ tma' = tma /\ UNCHANGED input /\ Fits(on, v)
  BY <1>1
<1>3. MemoryOK'
  BY <1>2 DEF BeyondInv, ShapeOK, MemoryOK
<1>4. ASSUME DynamicLoop' PROVE CopiesWithin'
  <2>1. DynamicLoop /\ trip' = trip
    BY <1>2, <1>4, ProgramStep DEF BeyondInv, input
  <2>2. on => v < trip
    BY <1>2, <2>1 DEF Fits
  <2> QED
    BY <1>2, <2>1, <2>2 DEF CopiesWithin, BeyondInv, Within
<1> QED
  BY <1>3, <1>4 DEF MemInv

LEMMA CommitStep ==
  ASSUME BeyondInv, Commit
  PROVE  MemInv'
<1>1. /\ slot' = slot /\ tma' = tma /\ UNCHANGED input
      /\ copies' = [open |-> {}, groups |-> Append(copies.groups, copies.open)]
  BY DEF Commit, Give
<1>2. /\ Len(copies.groups) \in Nat
      /\ copies.groups = [i \in 1..Len(copies.groups) |-> copies.groups[i]]
  BY DEF BeyondInv, ShapeOK
<1>3. PICK n, g : n = Len(copies.groups) /\ g = copies.groups /\ g = [i \in 1..n |-> g[i]] /\ n \in Nat
  BY <1>2
<1>4. PICK open : open = copies.open
  OBVIOUS
<1>5. /\ copies'.open = {}
      /\ Len(copies'.groups) = n + 1
      /\ copies'.groups = [i \in 1..(n + 1) |-> IF i = n + 1 THEN open ELSE g[i]]
  <2>1. copies'.groups = Append(g, open) /\ copies'.open = {}
    BY <1>1, <1>3, <1>4
  <2> QED
    BY <2>1, <1>3, AppendIsLonger
<1>6. MemoryOK'
  BY <1>1, <1>3, <1>5 DEF BeyondInv, ShapeOK, MemoryOK
<1>7. ASSUME DynamicLoop' PROVE CopiesWithin'
  <2>1. DynamicLoop /\ trip' = trip
    BY <1>1, <1>7, ProgramStep DEF BeyondInv, input
  <2>2. /\ \A c \in open : Within(c)
        /\ \A i \in 1..n : \A c \in g[i] : Within(c)
    BY <1>3, <1>4, <2>1 DEF BeyondInv, CopiesWithin
  <2>3. ASSUME NEW i \in 1..(n + 1) PROVE \A c \in copies'.groups[i] : Within(c)
    <3>1. copies'.groups[i] = IF i = n + 1 THEN open ELSE g[i]
      BY <1>5
    <3>2. i # n + 1 => i \in 1..n
      BY <1>3
    <3> QED
      BY <3>1, <3>2, <2>2
  <2> QED
    BY <1>1, <1>5, <2>1, <2>3, <1>3 DEF CopiesWithin, BeyondInv, Within
<1> QED
  BY <1>6, <1>7 DEF MemInv

\* What lands was on its way.
LEMMA LandedWithin ==
  ASSUME NEW cs, CopiesWithin, \A c \in cs : Within(c), NEW x \in DOMAIN slot, Landed(cs)[x] # None
  PROVE  Within(Landed(cs)[x]) /\ DOMAIN Landed(cs) = DOMAIN slot
<1>1. CASE \E c \in cs : c.at = x
  <2> DEFINE c == CHOOSE d \in cs : d.at = x
  <2>1. c \in cs
    BY <1>1
  <2>2. Landed(cs)[x] = [it |-> c.it, landed |-> TRUE, read |-> c.read]
    BY <1>1 DEF Landed
  <2> HIDE DEF c
  <2>3. Landed(cs)[x].it = c.it /\ Landed(cs)[x].read = c.read
    BY <2>2
  <2> QED
    BY <2>1, <2>3 DEF Within, Landed
<1>2. CASE ~\E c \in cs : c.at = x
  BY <1>2 DEF Landed, CopiesWithin
<1> QED
  BY <1>1, <1>2

LEMMA LandStep ==
  ASSUME BeyondInv, Land
  PROVE  MemInv'
<1>1. PICK n, g : n = Len(copies.groups) /\ g = copies.groups /\ g = [i \in 1..n |-> g[i]] /\ n \in Nat
  BY DEF BeyondInv, ShapeOK
<1>2. PICK h : h = Landed(Head(copies.groups))
  OBVIOUS
<1>3. /\ slot' = h /\ tma' = tma /\ UNCHANGED input
      /\ copies' = [open |-> copies.open, groups |-> Tail(g)]
  BY <1>1, <1>2 DEF Land, BeyondInv, ShapeOK
<1>4. /\ n >= 1 /\ Head(g) = g[1] /\ Len(Tail(g)) = n - 1
      /\ Tail(g) = [i \in 1..(n - 1) |-> g[i + 1]]
  BY <1>1, TailIsShorter DEF Land
<1>5. h = [x \in DOMAIN slot |-> h[x]]
  BY <1>2 DEF Landed
<1>6. MemoryOK'
  BY <1>1, <1>3, <1>4, <1>5 DEF BeyondInv, ShapeOK, MemoryOK
<1>7. ASSUME DynamicLoop' PROVE CopiesWithin'
  <2>1. DynamicLoop /\ trip' = trip
    BY <1>3, <1>7, ProgramStep DEF BeyondInv, input
  <2>2. CopiesWithin /\ \A i \in 1..n : \A c \in g[i] : Within(c)
    BY <1>1, <2>1 DEF BeyondInv, CopiesWithin
  <2>3. \A c \in Head(copies.groups) : Within(c)
    <3>1. 1 \in 1..n /\ Head(copies.groups) = g[1]
      BY <1>1, <1>4
    <3> QED
      BY <3>1, <2>2
  <2>7. \A x \in DOMAIN slot : h[x] # None => Within(h[x])
    BY <1>2, <2>2, <2>3, LandedWithin
  <2>4. ASSUME NEW i \in 1..(n - 1) PROVE \A c \in Tail(g)[i] : Within(c)
    <3>1. i + 1 \in 1..n /\ Tail(g)[i] = g[i + 1]
      BY <1>1, <1>4
    <3> QED
      BY <3>1, <2>2
  <2>5. \A c \in copies.open : Within(c)
    BY <2>2 DEF CopiesWithin
  <2>6. \A c \in tma.flying : Within(c)
    BY <2>2 DEF CopiesWithin
  <2> QED
    BY <1>3, <1>4, <1>5, <2>1, <2>7, <2>4, <2>5, <2>6 DEF CopiesWithin, Within
<1> QED
  BY <1>6, <1>7 DEF MemInv

LEMMA ExpectStep ==
  ASSUME BeyondInv, Expect
  PROVE  MemInv'
<1>1. UNCHANGED <<slot, copies, input>>
  BY DEF Expect, Give
<1>2. tma'.flying = tma.flying /\ tma' = [flying |-> tma'.flying, barrier |-> tma'.barrier]
  BY DEF Expect, BeyondInv, ShapeOK
<1>3. MemoryOK'
  BY <1>1, <1>2 DEF BeyondInv, ShapeOK, MemoryOK
<1>4. ASSUME DynamicLoop' PROVE CopiesWithin'
  BY <1>1, <1>2, <1>4, ProgramStep DEF BeyondInv, input, CopiesWithin, Within
<1> QED
  BY <1>3, <1>4 DEF MemInv

LEMMA TmaCopyEffect ==
  ASSUME BeyondInv, TmaCopy
  PROVE  /\ UNCHANGED <<input, copies>>
         /\ \/ UNCHANGED <<slot, tma>>
            \/ \E x, v, y : /\ slot' = [slot EXCEPT ![x] = [it |-> v, landed |-> FALSE, read |-> TRUE]]
                             /\ tma' = [flying |-> tma.flying \cup {[at |-> x, it |-> v, read |-> TRUE, barrier |-> y]},
                                        barrier |-> tma.barrier]
                             /\ Fits(TRUE, v)
<1>1. UNCHANGED <<input, copies>>
  BY DEF TmaCopy, Give
<1>2. CASE Instr.on
  <2>1. Fits(TRUE, Value(Instr, Refs(body, Instr.op)))
    BY <1>2, OnIsWithin DEF Fits, BeyondInv, TmaCopy
  <2>2. /\ slot' = [slot EXCEPT ![Buffer(Tag(Instr.op), Operand(Instr, Ref(Insert)))] =
                     [it |-> Value(Instr, Refs(body, Instr.op)), landed |-> FALSE, read |-> TRUE]]
        /\ tma' = [flying |-> tma.flying \cup {[at |-> Buffer(Tag(Instr.op), Operand(Instr, Ref(Insert))),
                                                it |-> Value(Instr, Refs(body, Instr.op)), read |-> TRUE,
                                                barrier |-> Buffer(GroupOf(Tag(Instr.op)), Operand(Instr, Ref(Insert)))]},
                   barrier |-> tma.barrier]
    BY <1>2 DEF TmaCopy, BeyondInv, ShapeOK
  <2> QED
    BY <1>1, <2>1, <2>2
<1>3. CASE ~Instr.on
  BY <1>1, <1>3 DEF TmaCopy
<1> QED
  BY <1>2, <1>3

LEMMA TmaCopyStep ==
  ASSUME BeyondInv, TmaCopy
  PROVE  MemInv'
<1>1. CASE UNCHANGED <<slot, tma>>
  BY <1>1, TmaCopyEffect, ProgramStep DEF MemInv, MemoryOK, BeyondInv, ShapeOK, input, CopiesWithin, Within
<1>2. ASSUME NEW x, NEW v, NEW y,
             slot' = [slot EXCEPT ![x] = [it |-> v, landed |-> FALSE, read |-> TRUE]],
             tma' = [flying |-> tma.flying \cup {[at |-> x, it |-> v, read |-> TRUE, barrier |-> y]},
                     barrier |-> tma.barrier],
             Fits(TRUE, v)
      PROVE  MemInv'
  <2>1. UNCHANGED <<input, copies>>
    BY TmaCopyEffect
  <2>2. MemoryOK'
    BY <1>2, <2>1 DEF BeyondInv, ShapeOK, MemoryOK
  <2>3. ASSUME DynamicLoop' PROVE CopiesWithin'
    <3>1. DynamicLoop /\ trip' = trip
      BY <2>1, <2>3, ProgramStep DEF BeyondInv, input
    <3>2. v < trip
      BY <1>2, <3>1 DEF Fits
    <3> QED
      BY <1>2, <2>1, <3>1, <3>2 DEF CopiesWithin, BeyondInv, Within
  <2> QED
    BY <2>2, <2>3 DEF MemInv
<1> QED
  BY <1>1, <1>2, TmaCopyEffect

LEMMA TmaLandStep ==
  ASSUME BeyondInv, TmaLand
  PROVE  MemInv'
<1>1. PICK c \in tma.flying : /\ slot' = Landed({c}) /\ UNCHANGED <<input, copies>>
                              /\ tma'.flying = tma.flying \ {c}
                              /\ tma' = [flying |-> tma'.flying, barrier |-> tma'.barrier]
  <2>1. PICK c \in tma.flying :
           /\ slot' = Landed({c})
           /\ \E b : tma' = [flying |-> tma.flying \ {c}, barrier |-> b]
           /\ UNCHANGED <<input, copies>>
    BY Zenon DEF TmaLand
  <2> QED
    BY <2>1
<1>2. PICK h : h = Landed({c})
  OBVIOUS
<1>3. h = [x \in DOMAIN slot |-> h[x]]
  BY <1>2 DEF Landed
<1>4. MemoryOK'
  BY <1>1, <1>2, <1>3 DEF BeyondInv, ShapeOK, MemoryOK
<1>5. ASSUME DynamicLoop' PROVE CopiesWithin'
  <2>1. DynamicLoop /\ trip' = trip
    BY <1>1, <1>5, ProgramStep DEF BeyondInv, input
  <2>2. CopiesWithin
    BY <2>1 DEF BeyondInv
  <2>3. \A d \in tma.flying : Within(d)
    BY <2>2 DEF CopiesWithin
  <2>4. \A x \in DOMAIN slot : h[x] # None => Within(h[x])
    BY <1>2, <2>2, <2>3, LandedWithin
  <2> QED
    BY <1>1, <1>2, <1>3, <2>1, <2>2, <2>4 DEF CopiesWithin, Within
<1> QED
  BY <1>4, <1>5 DEF MemInv

\* No other step copies, or lands what was copied.
LEMMA OtherStep ==
  ASSUME BeyondInv,
         Wait \/ TmaWait \/ Dot \/ DotWaited \/ If \/ Compute \/ EnterKernel \/ NextTurn \/ Leave
           \/ Retire \/ Done \/ UNCHANGED vars
  PROVE  MemInv'
<1>1. UNCHANGED <<input, slot, copies, tma>>
  <2>1. CASE Wait \/ TmaWait \/ Dot \/ If \/ Compute
    BY <2>1 DEF Wait, TmaWait, Dot, If, Compute, Give, memory
  <2>2. CASE DotWaited \/ EnterKernel \/ NextTurn \/ Leave \/ Retire \/ Done \/ UNCHANGED vars
    BY <2>2 DEF DotWaited, EnterKernel, NextTurn, Leave, Retire, Done, vars, memory
  <2> QED
    BY <2>1, <2>2
<1> QED
  BY <1>1, ProgramStep DEF MemInv, MemoryOK, BeyondInv, ShapeOK, input, CopiesWithin, Within

LEMMA BeyondInvStep ==
  ASSUME BeyondInv, [Next]_vars
  PROVE  BeyondInv'
<1>1. ProgramOK'
  BY StepKeepsInput, ProgramStep DEF BeyondInv
<1>2. PositionOK'
  BY PositionStep DEF BeyondInv
<1>3. MemInv'
  BY CopyStep, CommitStep, LandStep, ExpectStep, TmaCopyStep, TmaLandStep, OtherStep DEF Next, Run, Hardware
<1> QED
  BY <1>1, <1>2, <1>3 DEF BeyondInv, MemInv, MemoryOK, ShapeOK, PositionOK

LEMMA BeyondInvInit ==
  ASSUME Init
  PROVE  BeyondInv
<1>1. ProgramOK
  BY ProgramInit
<1>2. ShapeOK
  BY DEF Init, ShapeOK
<1>3. CopiesWithin
  BY DEF Init, CopiesWithin, None
<1> QED
  BY <1>1, <1>2, <1>3 DEF BeyondInv

(***************************************************************************)
(* Nothing is read from memory past the end of a loop whose bounds are     *)
(* not constants, or that does not run: the predicates of emitPrologue and *)
(* createKernel are right for every loop, schedule and number of           *)
(* iterations, and whenever the copies land.                               *)
(***************************************************************************)
THEOREM DynamicLoopsReadNothingBeyond == Spec => [](DynamicLoop => NothingBeyondTheLoop)
<1>1. BeyondInv => (DynamicLoop => NothingBeyondTheLoop)
  BY DEF BeyondInv, CopiesWithin, NothingBeyondTheLoop, Within
<1> QED
  BY <1>1, BeyondInvInit, BeyondInvStep, PTL DEF Spec

-----------------------------------------------------------------------------
(***************************************************************************)
(* Which values the kernel carries, and for how many turns, is right for   *)
(* every loop whose operations run after those they need.                  *)
(***************************************************************************)
\* The spans are those of the loop the schedule was made for.
LEMMA SpansOfTheProgram ==
  ASSUME NEW L, NEW n, NEW p, p = pipelineLoop(L, n)
  PROVE  p.spans = analyzeCrossStageValues(p)
<1>1. PICK f : f = preProcessLoopAndGetSchedule(L, n)
  OBVIOUS
<1>2. PICK P, b : p = programOf(f, P, b)
  BY <1>1 DEF pipelineLoop, expandSchedule, expandLoop
<1>3. p.spans = analyzeCrossStageValues(P) /\ p.loop = P.loop /\ p.stage = P.stage
  BY <1>2 DEF programOf
<1> QED
  BY <1>3 DEF analyzeCrossStageValues

\* What stands in for induction: a set of numbers that is bounded has a greatest one.
LEMMA GreatestNumber ==
  ASSUME NEW S \in SUBSET Int, S # {}, NEW top \in Int, \A s \in S : s <= top
  PROVE  \E g \in S : \A s \in S : s <= g
<1> DEFINE R == {ss \in Nat \X Nat : ss[1] < ss[2]}
           T == {top - s : s \in S}
<1>1. IsWellFoundedOn(R, Nat)
  BY NatLessThanWellFounded DEF OpToRel
<1>2. T \subseteq Nat /\ T # {}
  <2>1. ASSUME NEW s \in S PROVE top - s \in Nat
    <3>1. s \in Int /\ s <= top
      OBVIOUS
    <3> QED
      BY <3>1
  <2>2. PICK s \in S : TRUE
    OBVIOUS
  <2> QED
    BY <2>1, <2>2
<1> HIDE DEF R, T
<1>3. PICK n \in T : \A m \in T : ~(<<m, n>> \in R)
  BY <1>1, <1>2, WFMin, Zenon
<1>4. \A m \in T : ~(m < n)
  BY <1>2, <1>3 DEF R
<1>5. PICK g \in S : n = top - g
  BY DEF T
<1>6. ASSUME NEW s \in S PROVE s <= g
  <2>1. top - s \in T
    BY DEF T
  <2>2. ~(top - s < n)
    BY <1>4, <2>1
  <2> QED
    BY <1>5, <2>2
<1> QED
  BY <1>6

\* Every crossing value is carried up to its last use, and none further than the last stage.
LEMMA CrossingsAreCarried ==
  ASSUME OrderIsKept, prog.spans = analyzeCrossStageValues(prog)
  PROVE  ValuesAreCarried
<1> DEFINE Gap(o, r) == prog.stage[o] - prog.stage[r.def]
           Late(r) == {o \in Ops(body) : r \in AllRefs(body, o) /\ Gap(o, r) \notin {0, -r.dist}}
           Gaps(r) == {Gap(o, r) : o \in Late(r)}
           Crossing == {r \in UNION {AllRefs(body, o) : o \in Ops(body)} : r.def \in Ops(body) /\ Late(r) # {}}
<1>0. /\ prog.max \in Int
      /\ \A q \in Ops(body) : prog.stage[q] \in Nat /\ prog.stage[q] <= prog.max
  BY DEF OrderIsKept
<1>1. prog.spans = [r \in Crossing |-> CHOOSE g \in Gaps(r) : \A o \in Late(r) : Gap(o, r) <= g]
  BY DEF analyzeCrossStageValues, body
<1>2. ASSUME NEW r \in Crossing
      PROVE  /\ r.def \in Ops(body) /\ r.dist \in {0, 1}
             /\ \E o \in Late(r) : prog.spans[r] = Gap(o, r)
             /\ \A o \in Late(r) : Gap(o, r) <= prog.spans[r]
  <2>1. PICK o \in Ops(body) : r \in AllRefs(body, o)
    OBVIOUS
  <2>2. r.def \in Ops(body) /\ r.dist \in {0, 1}
    BY <2>1 DEF OrderIsKept
  <2>3. \A q \in Late(r) : Gap(q, r) \in Int /\ Gap(q, r) <= prog.max
    BY <1>0, <2>2
  <2>4. Gaps(r) \in SUBSET Int
    BY <2>3
  <2>5. Gaps(r) # {}
    OBVIOUS
  <2>6. \A s \in Gaps(r) : s <= prog.max
    BY <2>3
  <2>7. \E g \in Gaps(r) : \A s \in Gaps(r) : s <= g
    <3> HIDE DEF Gaps
    <3> QED
      BY <1>0, <2>4, <2>5, <2>6, GreatestNumber
  <2>8. \E g \in Gaps(r) : \A q \in Late(r) : Gap(q, r) <= g
    BY <2>7
  <2>9. prog.spans[r] \in Gaps(r) /\ \A q \in Late(r) : Gap(q, r) <= prog.spans[r]
    <3>1. prog.spans[r] = CHOOSE g \in Gaps(r) : \A q \in Late(r) : Gap(q, r) <= g
      BY <1>1
    <3> HIDE DEF Gaps, Late, Gap
    <3> QED
      BY <2>8, <3>1
  <2> QED
    BY <2>2, <2>9
<1>3. ASSUME NEW r \in DOMAIN prog.spans
      PROVE  r.def \in Ops(body) /\ r.dist \in {0, 1} /\ prog.spans[r] \in 0..(prog.max - prog.stage[r.def])
  <2>1. r \in Crossing
    BY <1>1
  <2>2. PICK o \in Late(r) : prog.spans[r] = Gap(o, r)
    BY <1>2, <2>1
  <2>3. /\ o \in Ops(body) /\ r \in AllRefs(body, o) /\ Gap(o, r) \notin {0, -r.dist}
        /\ r.def \in Ops(body) /\ r.dist \in {0, 1}
    BY <1>2, <2>1, <2>2
  <2>4. Precedes(r.def, r.dist, o)
    BY <2>3 DEF OrderIsKept
  <2>5. Gap(o, r) \in Nat /\ Gap(o, r) <= prog.max - prog.stage[r.def]
    <3>1. prog.stage[o] \in Nat /\ prog.stage[r.def] \in Nat /\ prog.stage[o] <= prog.max
      BY <1>0, <2>3
    <3>2. prog.stage[r.def] <= prog.stage[o] + r.dist
      BY <2>3, <2>4, <3>1 DEF Precedes, Before
    <3> QED
      BY <1>0, <2>3, <3>1, <3>2
  <2> QED
    BY <1>0, <2>2, <2>3, <2>5
<1>4. ASSUME NEW o \in Ops(body), NEW r \in AllRefs(body, o), Gap(o, r) \notin {0, -r.dist}
      PROVE  r \in DOMAIN prog.spans /\ Gap(o, r) <= prog.spans[r]
  <2>1. r.def \in Ops(body)
    BY DEF OrderIsKept
  <2>2. o \in Late(r) /\ r \in Crossing
    BY <1>4, <2>1
  <2> QED
    BY <1>1, <1>2, <2>2
<1> QED
  BY <1>3, <1>4 DEF ValuesAreCarried

LEMMA ProgramCarries ==
  ASSUME ProgramOK, OrderIsKept
  PROVE  ValuesAreCarried
<1>1. PICK p : p = pipelineLoop(source, numStages)
  OBVIOUS
<1>2. p.spans = analyzeCrossStageValues(p)
  BY <1>1, SpansOfTheProgram
<1>3. prog = p
  BY <1>1 DEF ProgramOK
<1> QED
  BY <1>2, <1>3, CrossingsAreCarried

(***************************************************************************)
(* The kernel carries every value for as long as it is used, for every     *)
(* loop whose order is kept: analyzeCrossStageValues.                      *)
(***************************************************************************)
THEOREM CrossingValuesAreCarried == Spec => [](OrderIsKept => ValuesAreCarried)
<1>1. Init => ProgramOK
  BY ProgramInit
<1>2. ProgramOK /\ [Next]_vars => ProgramOK'
  BY StepKeepsInput, ProgramStep
<1>3. ProgramOK => (OrderIsKept => ValuesAreCarried)
  BY ProgramCarries
<1> QED
  BY <1>1, <1>2, <1>3, PTL DEF Spec

\* What the proofs below ask of the program: its schedule is sound, and its values are carried.
SoundProgram == SoundSchedule /\ ValuesAreCarried

LEMMA SoundIsCarried ==
  ASSUME ProgramOK, SoundSchedule
  PROVE  SoundProgram
BY ProgramCarries DEF SoundProgram, SoundSchedule

-----------------------------------------------------------------------------
(***************************************************************************)
(* What holds of a loop on a sound schedule while it runs.  Operation o of *)
(* iteration k has its time, turn Turn(o, k) at place Place(o), and the    *)
(* position of the program is a time too: what has run is what has an      *)
(* earlier time, in the prologue and in the kernel alike.                  *)
(***************************************************************************)
\* Iterations are counted from 0; turns before the kernel's first are negative.
Iterations == Nat
Turns == Int

IsEarly == part = "prologue" /\ pos.i <= Len(prog.prologue)
\* The time of the instruction at the position; the kernel's first when the prologue is over.
NowTurn  == IF IsEarly THEN Turn(prog.prologue[pos.i].op, prog.prologue[pos.i].it)
            ELSE IF part = "prologue" THEN 0 ELSE pos.turn
NowPlace == IF IsEarly THEN Place(prog.prologue[pos.i].op)
            ELSE IF part = "prologue" THEN 1 ELSE pos.i

\* What is before the position; what has run.
Reached(t, i) == Before(t, i, NowTurn, NowPlace)
Ran(o, k) == k >= 0 /\ Reached(Turn(o, k), Place(o))

\* The memory is made of the buffers, groups, barriers and dots it was made of.
MemShape ==
  /\ slot = [x \in Buffers({Tag(l) : l \in ToSet(prog.loads)}) |-> slot[x]]
  /\ copies = [open |-> copies.open, groups |-> copies.groups]
  /\ Len(copies.groups) \in Nat /\ copies.groups = [i \in 1..Len(copies.groups) |-> copies.groups[i]]
  /\ tma = [flying |-> tma.flying, barrier |-> tma.barrier]
  /\ tma.barrier = [x \in Buffers({Tag(g[1]) : g \in ToSet(prog.groups)}) |->
                      [turns |-> tma.barrier[x].turns, owed |-> tma.barrier[x].owed]]
  /\ Len(dots) \in Nat /\ dots = [i \in 1..Len(dots) |-> dots[i]]

\* The position is in the part that runs, and the kernel's turns are those of the loop.
PosInv ==
  /\ part \in {"prologue", "kernel", "done"}
  /\ pos = [i |-> pos.i, turn |-> pos.turn] /\ pos.i \in Nat \ {0} /\ pos.turn \in Nat /\ trip \in Nat
  /\ part = "prologue" => pos.turn = 0 /\ pos.i <= Len(prog.prologue) + 1
  /\ part # "prologue" => pos.i <= Len(prog.kernel) + 1 /\ pos.turn <= trip /\ (pos.i > 1 => pos.turn < trip)
  /\ part = "done" => pos.turn = trip

\* A value is right if it is that of its iteration; past the end only counters have to be.
Right(o, k, v) == (Kind(o) = "idx" \/ k < trip) => v = k
\* The iteration that this turn of the kernel runs o for.
Latest(o) == pos.turn + prog.max - prog.stage[o]

\* The values of the prologue, and those of the kernel: this turn's, the arguments for values
\* of the last turn and those carried from turns before.
EarlyFlow ==
  part = "prologue" =>
    /\ env = [val |-> env.val]
    /\ env.val = [o \in Ops(body) |-> [k \in 0..prog.max |-> env.val[o][k]]]
    /\ \A o \in Ops(body), k \in 0..prog.max : Ran(o, k) => Right(o, k, env.val[o][k])
KernelFlow ==
  part # "prologue" =>
    /\ env = [cur |-> env.cur, arg |-> env.arg, carry |-> env.carry]
    /\ env.cur = [o \in Ops(body) |-> env.cur[o]]
    /\ \A o \in Ops(body) : /\ Place(o) < pos.i => Right(o, Latest(o), env.cur[o])
                            /\ Right(o, Latest(o) - 1, env.arg[o])
    /\ \A r \in DOMAIN prog.spans : \A j \in 1..prog.spans[r] :
          Right(r.def, Latest(r.def) - r.dist - j, env.carry[r][j])
    /\ \A o \in source.used : trip >= prog.max - prog.stage[o] /\ Latest(o) >= trip => env.arg[o] = trip - 1
    /\ part = "done" => \A o \in source.used : results[o] = env.arg[o]

\* How many groups were committed, and have landed.
Committed == CommitsBefore(NowTurn, NowPlace)
Landings == Committed - Len(copies.groups)
\* e is the copy that c has issued for iteration k, and its buffer is not needed again yet.
EntryOf(e, c, k) ==
  /\ Kind(c) = "copy" /\ Ran(c, k) /\ e.at = Buffer(Tag(c), k)
  /\ k < trip => ~Ran(c, k + prog.buffers) /\ e.it = k

\* What is in the open group, and in the group that is the n-th to land, was committed there;
\* and when a wait is passed, what it is for has landed.
GroupInv ==
  /\ Landings >= 0
  /\ \A e \in copies.open : \E c \in Ops(body), k \in Iterations : EntryOf(e, c, k) /\ (k < trip => ~Ran(CommitOf(c), k))
  /\ \A i \in 1..Len(copies.groups) : \A e \in copies.groups[i] : \E c \in Ops(body), k \in Iterations :
       EntryOf(e, c, k) /\ (k < trip /\ Ran(CommitOf(c), k) => i + Landings <= CommitNumber(c, k))
  /\ \A c \in Ops(body), k \in Iterations, t \in Turns, i \in Steps :
       Kind(c) = "copy" /\ LandsBy(c, k, t, i) /\ Reached(t, i) => CommitNumber(c, k) <= Landings

\* What c put into its buffer for k is what the buffer holds.
Current(c, k) == k < trip /\ Ran(c, k) /\ ~Ran(c, k + prog.buffers)
FullOf(x, k) == slot[x] # None /\ slot[x].it = k
CopyOnItsWay(c, k) ==
  LET x == Buffer(Tag(c), k) IN
  \/ slot[x].landed
  \/ ~Ran(CommitOf(c), k) /\ \E e \in copies.open : e.at = x
  \/ \E i \in 1..Len(copies.groups) : /\ \E e \in copies.groups[i] : e.at = x
                                      /\ Ran(CommitOf(c), k) => i + Landings <= CommitNumber(c, k)

\* A buffer holds its iteration's value, landed or in a group that is still to land.
CopySlots ==
  \A c \in Ops(body), k \in Iterations : Kind(c) = "copy" /\ Current(c, k) =>
     FullOf(Buffer(Tag(c), k), k) /\ CopyOnItsWay(c, k)

\* The same of bulk copies; one that was waited for has landed.
TmaSlots ==
  \A c \in Ops(body), k \in Iterations : Kind(c) = "tmacopy" /\ Current(c, k) =>
     LET x == Buffer(Tag(c), k) IN
     /\ FullOf(x, k)
     /\ slot[x].landed \/ \E e \in tma.flying : e.at = x
     /\ Ran(WaitOf(ExpectOf(c)), k) => slot[x].landed
SlotInv == CopySlots /\ TmaSlots

\* A bulk copy in flight is one that its barrier, of its turn, still waits for.
FlyingOf(e, c, k) ==
  /\ Kind(c) = "tmacopy" /\ Ran(c, k)
  /\ e = [at |-> Buffer(Tag(c), k), it |-> e.it, read |-> TRUE, barrier |-> Buffer(GroupOf(Tag(c)), k)]
  /\ k < trip => /\ ~Ran(c, k + prog.buffers) /\ e.it = k /\ ~Ran(ExpectOf(c), k + prog.buffers)
                 /\ Tag(c) \in tma.barrier[e.barrier].owed
FlyInv == \A e \in tma.flying : \E c \in Ops(body), k \in Iterations : FlyingOf(e, c, k)

\* The barrier of e has completed a turn for every round of the ring, but the one it is in.
AsExpected(e, k, bar) ==
  /\ bar.owed \subseteq Owed(Tag(e))
  /\ bar.turns = (k \div prog.buffers) + (IF bar.owed = {} THEN 1 ELSE 0)
  /\ Ran(WaitOf(e), k) => bar.owed = {}
  /\ \A c \in Ops(body) : Kind(c) = "tmacopy" /\ ExpectOf(c) = e /\ ~Ran(c, k) => Tag(c) \in bar.owed
BarrierInv ==
  \A e \in Ops(body), k \in Iterations : Kind(e) = "expect" /\ k < trip =>
    /\ Current(e, k) => AsExpected(e, k, tma.barrier[Buffer(Tag(e), k)])
    /\ ~Ran(e, k) /\ k < prog.buffers => tma.barrier[Buffer(Tag(e), k)].turns = 0

\* How many dots were issued, and have retired; each that is in flight is the dot of its
\* number, and when a wait is passed those it is for have retired.
Issued == DotsBefore(NowTurn, NowPlace)
Retired == Issued - Len(dots)
DotsInv ==
  /\ part = "prologue" => dots = <<>>
  /\ part # "prologue" =>
    /\ Retired >= 0
    /\ \A i \in 1..Len(dots) : \E d \in Ops(body), k \in Iterations :
         /\ dots[i].op = d /\ dots[i].it = k
         /\ IsAsync(d) /\ Ran(d, k) /\ k < trip
         /\ dots[i].reads = {Buffer(Tag(r.def), k) : r \in {q \in Refs(body, d) : Kind(q.def) = "view"}}
         /\ 1 + DotsBefore(k, Place(d)) = Retired + i
    /\ \A d \in Ops(body), k \in Iterations, t \in Iterations, i \in Steps :
         IsAsync(d) /\ RetiresBy(d, k, t, i) /\ Reached(t, i) => 1 + DotsBefore(k, Place(d)) <= Retired

\* Every effect was done for every iteration before this turn's, and for this turn's if it
\* is before the position.
DidInv ==
  /\ DOMAIN did = Effects(source)
  /\ \A e \in DOMAIN did :
     did[e] = IF part = "prologue" THEN 0 ELSE pos.turn + (IF Place(e) < pos.i THEN 1 ELSE 0)

-----------------------------------------------------------------------------
(***************************************************************************)
(* Time: what is asked of a sound schedule says of any two operations      *)
(* which of them runs first.                                               *)
(***************************************************************************)
(* The static part does not change with a step. *)
LEMMA ProgramStays ==
  ASSUME UNCHANGED input
  PROVE  /\ prog' = prog /\ trip' = trip /\ name' = name /\ body' = body /\ source' = source
         /\ \A o : Place(o)' = Place(o)
         /\ \A o, k : Turn(o, k)' = Turn(o, k)
         /\ \A o, k, v : Right(o, k, v)' = Right(o, k, v)
BY DEF input, body, source, Place, Position, Turn, Right

LEMMA SoundStays ==
  ASSUME UNCHANGED input
  PROVE  SoundProgram' <=> SoundProgram
BY DEF input, body, source, Place, Position, Turn, SoundProgram, SoundSchedule, OrderIsKept, PrologueIsComplete,
       ValuesAreCarried, IndicesStandAlone, EffectsComeLast, RingIsLongEnough, CopiesLand, BulkCopiesLand,
       DotsRetire, Steps, Early, Precedes, IsFill, Readers, EarlyCommits, KernelCommits, CommitsBefore,
       CommitNumber, GroupsLeft, LandsBy, LandsInTime, WaitOf, GroupOf, ExpectOf, Owed, IsAsync, KernelDots,
       DotsBefore, DotsLeft, RetiresBy, HandsOn

LEMMA Typed ==
  ASSUME OrderIsKept
  PROVE  /\ prog.max \in Nat /\ Len(prog.kernel) \in Nat /\ Len(prog.kernel) >= 1
         /\ \A o \in Ops(body) : /\ prog.stage[o] \in Nat /\ prog.stage[o] <= prog.max
                                 /\ Place(o) \in Nat /\ 1 <= Place(o) /\ Place(o) <= Len(prog.kernel)
                                 /\ prog.kernel[Place(o)] = o
BY DEF OrderIsKept, Steps

LEMMA TurnIs ==
  ASSUME OrderIsKept, NEW o \in Ops(body), NEW k \in Int
  PROVE  /\ prog.stage[o] \in Int /\ prog.max \in Int /\ Place(o) \in Int
         /\ Turn(o, k) \in Int /\ Turn(o, k) = k + prog.stage[o] - prog.max
<1>1. prog.stage[o] \in Int /\ prog.max \in Int /\ Place(o) \in Int
  BY Typed
<1> QED
  BY <1>1 DEF Turn

LEMMA NowTyped ==
  ASSUME OrderIsKept, PrologueIsComplete, PosInv
  PROVE  /\ NowTurn \in Int /\ NowPlace \in Nat /\ NowPlace >= 1
         /\ IsEarly => NowTurn < 0
         /\ part = "prologue" /\ ~IsEarly => NowTurn = 0 /\ NowPlace = 1
         /\ part # "prologue" => NowTurn = pos.turn /\ NowPlace = pos.i
<1>1. CASE IsEarly
  <2>1. pos.i \in Early
    BY <1>1 DEF IsEarly, PosInv, Early, PrologueIsComplete
  <2>2. /\ prog.prologue[pos.i].op \in Ops(body) /\ prog.prologue[pos.i].it \in Nat
        /\ Turn(prog.prologue[pos.i].op, prog.prologue[pos.i].it) < 0
    BY <2>1 DEF PrologueIsComplete
  <2>3. /\ NowTurn = Turn(prog.prologue[pos.i].op, prog.prologue[pos.i].it)
        /\ NowPlace = Place(prog.prologue[pos.i].op)
    BY <1>1 DEF NowTurn, NowPlace
  <2>4. Turn(prog.prologue[pos.i].op, prog.prologue[pos.i].it) \in Int
    BY <2>2, TurnIs
  <2>5. Place(prog.prologue[pos.i].op) \in Nat /\ Place(prog.prologue[pos.i].op) >= 1
    BY <2>2, Typed
  <2>6. part = "prologue"
    BY <1>1 DEF IsEarly
  <2> QED
    BY <1>1, <2>2, <2>3, <2>4, <2>5, <2>6
<1>2. CASE ~IsEarly
  BY <1>2 DEF NowTurn, NowPlace, PosInv, IsEarly
<1> QED
  BY <1>1, <1>2

\* Two operations run for iterations that are told apart by when they run.
LEMMA SameTime ==
  ASSUME OrderIsKept, NEW o \in Ops(body), NEW u \in Ops(body), NEW k \in Int, NEW m \in Int,
         Turn(o, k) = Turn(u, m), Place(o) = Place(u)
  PROVE  o = u /\ k = m
<1>1. o = u
  BY Typed
<1>2. Turn(o, k) = k + prog.stage[o] - prog.max /\ Turn(o, m) = m + prog.stage[o] - prog.max
  BY TurnIs
<1>3. prog.stage[o] \in Int /\ prog.max \in Int
  BY TurnIs
<1> QED
  BY <1>1, <1>2, <1>3

\* The instruction at the position, and where on the time line it is.
LEMMA InstrIsNow ==
  ASSUME OrderIsKept, PrologueIsComplete, PosInv, NEW kinds, At(kinds), "dotwait" \notin kinds
  PROVE  /\ Instr.op \in Ops(body) /\ Instr.it \in Nat /\ Kind(Instr.op) \in kinds /\ Instr.on \in BOOLEAN
         /\ Turn(Instr.op, Instr.it) = NowTurn /\ Place(Instr.op) = NowPlace
         /\ Instr.it < trip => Instr.on
         /\ part = "prologue" => Instr.op = prog.prologue[pos.i].op /\ Instr.it = prog.prologue[pos.i].it
                                 /\ IsEarly /\ pos.i \in Early
         /\ part # "prologue" => part = "kernel" /\ pos.turn < trip /\ Instr.op = prog.kernel[pos.i] /\ pos.i \in Steps
                                 /\ Instr.it = Latest(Instr.op)
<1>1. CASE part = "prologue"
  <2>1. pos.i \in Early /\ IsEarly
    BY <1>1 DEF IsEarly, PosInv, Early, PrologueIsComplete, At, Code
  <2>2. /\ prog.prologue[pos.i].op \in Ops(body) /\ prog.prologue[pos.i].it \in Nat
    BY <2>1 DEF PrologueIsComplete
  <2>3. Instr.op = prog.prologue[pos.i].op /\ Instr.it = prog.prologue[pos.i].it
        /\ Instr.on = (DynamicLoop => prog.prologue[pos.i].it < trip)
    BY <1>1 DEF Instr
  <2> QED
    BY <1>1, <2>1, <2>2, <2>3 DEF NowTurn, NowPlace, IsEarly, At
<1>2. CASE part # "prologue"
  <2>1. part = "kernel" /\ pos.turn < trip /\ pos.i \in Steps /\ ~IsEarly
    BY <1>2, Typed DEF At, Code, Steps, PosInv, IsEarly
  <2>2. Instr.op = prog.kernel[pos.i] /\ Kind(Instr.op) \in kinds
    BY <1>2 DEF Instr, At
  <2>3. Instr.op \in Ops(body) /\ Place(Instr.op) = pos.i
    BY <2>1, <2>2 DEF OrderIsKept
  <2>4. /\ Instr.it = pos.turn + (prog.max - prog.stage[Instr.op])
        /\ Instr.on = (prog.max - prog.stage[Instr.op] = 0 \/ pos.turn < trip - (prog.max - prog.stage[Instr.op]))
    BY <1>2, <2>2, <2>3 DEF Instr
  <2>5. prog.stage[Instr.op] \in Nat /\ prog.stage[Instr.op] <= prog.max /\ prog.max \in Nat
    BY <2>3, Typed
  <2>6. pos.turn \in Nat /\ trip \in Nat
    BY DEF PosInv
  <2>7. NowTurn = pos.turn /\ NowPlace = pos.i
    BY <2>1, <1>2, NowTyped
  <2>8. Instr.it \in Nat /\ Instr.it = Latest(Instr.op) /\ Turn(Instr.op, Instr.it) = pos.turn
    BY <2>4, <2>5, <2>6 DEF Latest, Turn
  <2>9. (Instr.it < trip => Instr.on) /\ Instr.on \in BOOLEAN
    <3> DEFINE b == prog.max - prog.stage[Instr.op]
    <3>1. b \in Int
      BY <2>5
    <3>2. Instr.it = pos.turn + b /\ Instr.on = (b = 0 \/ pos.turn < trip - b)
      BY <2>4
    <3> HIDE DEF b
    <3>3. Instr.it < trip => pos.turn < trip - b
      BY <3>1, <3>2, <2>6
    <3>4. Instr.on \in BOOLEAN
      BY DEF Instr
    <3> QED
      BY <3>2, <3>3, <3>4
  <2> QED
    BY <1>2, <2>1, <2>2, <2>3, <2>7, <2>8, <2>9
<1> QED
  BY <1>1, <1>2

(* What has run. *)
\* Time is a line.
LEMMA BeforeIsOrder ==
  ASSUME NEW t \in Int, NEW i \in Int, NEW u \in Int, NEW j \in Int, NEW v \in Int, NEW l \in Int
  PROVE  /\ Before(t, i, u, j) \/ (t = u /\ i = j) \/ Before(u, j, t, i)
         /\ ~Before(t, i, t, i)
         /\ Before(t, i, u, j) => ~Before(u, j, t, i)
         /\ Before(t, i, u, j) /\ Before(u, j, v, l) => Before(t, i, v, l)
BY DEF Before

LEMMA BeforeOf ==
  ASSUME OrderIsKept, NEW o \in Ops(body), NEW u \in Ops(body), NEW k \in Int, NEW m \in Int, NEW d \in Int,
         Precedes(o, d, u), k + d <= m
  PROVE  Before(Turn(o, k), Place(o), Turn(u, m), Place(u))
<1>1. /\ prog.stage[o] \in Int /\ prog.max \in Int /\ Place(o) \in Int /\ prog.stage[u] \in Int /\ Place(u) \in Int
      /\ Turn(o, k) = k + prog.stage[o] - prog.max
      /\ Turn(u, m) = m + prog.stage[u] - prog.max
  BY TurnIs
<1> QED
  BY <1>1 DEF Precedes, Before

LEMMA LaterIsLater ==
  ASSUME OrderIsKept, NEW o \in Ops(body), NEW k \in Int, NEW m \in Int
  PROVE  /\ k < m => Before(Turn(o, k), Place(o), Turn(o, m), Place(o))
         /\ Turn(o, m) = Turn(o, k) + (m - k)
<1>1. /\ prog.stage[o] \in Int /\ prog.max \in Int
      /\ Turn(o, k) = k + prog.stage[o] - prog.max /\ Turn(o, m) = m + prog.stage[o] - prog.max
  BY TurnIs
<1> QED
  BY <1>1 DEF Before

LEMMA RanBefore ==
  ASSUME OrderIsKept, PrologueIsComplete, PosInv,
         NEW o \in Ops(body), NEW u \in Ops(body), NEW k \in Nat, NEW m \in Int,
         Ran(u, m), Before(Turn(o, k), Place(o), Turn(u, m), Place(u)) \/ (o = u /\ k <= m)
  PROVE  Ran(o, k)
<1>1. /\ Turn(o, k) \in Int /\ Place(o) \in Int /\ Turn(u, m) \in Int /\ Place(u) \in Int
      /\ NowTurn \in Int /\ NowPlace \in Int
  BY TurnIs, NowTyped
<1>2. Before(Turn(u, m), Place(u), NowTurn, NowPlace)
  BY DEF Ran, Reached
<1>3. Before(Turn(o, k), Place(o), Turn(u, m), Place(u)) \/ (o = u /\ k = m)
  BY LaterIsLater
<1>4. Before(Turn(o, k), Place(o), NowTurn, NowPlace)
  BY <1>1, <1>2, <1>3 DEF Before
<1> QED
  BY <1>4 DEF Ran, Reached

LEMMA RanNeeds ==
  ASSUME OrderIsKept, PrologueIsComplete, PosInv,
         NEW o \in Ops(body), NEW u \in Ops(body), NEW k \in Nat, NEW m \in Int, NEW d \in Int,
         Ran(u, m), Precedes(o, d, u), k + d <= m
  PROVE  Ran(o, k)
<1>1. Before(Turn(o, k), Place(o), Turn(u, m), Place(u))
  BY BeforeOf
<1> QED
  BY <1>1, RanBefore

\* o of iteration k runs now.
Running(o, k) == o \in Ops(body) /\ k \in Nat /\ Turn(o, k) = NowTurn /\ Place(o) = NowPlace

LEMMA RunningNeeds ==
  ASSUME OrderIsKept, PrologueIsComplete, PosInv,
         NEW o \in Ops(body), NEW u, NEW k \in Nat, NEW m, NEW d \in Int,
         Running(u, m), Precedes(o, d, u), k + d <= m
  PROVE  Ran(o, k)
<1>1. u \in Ops(body) /\ m \in Int
  BY DEF Running
<1>2. Before(Turn(o, k), Place(o), Turn(u, m), Place(u))
  BY <1>1, BeforeOf
<1> QED
  BY <1>2 DEF Ran, Reached, Running

LEMMA RunningIsNew ==
  ASSUME OrderIsKept, PrologueIsComplete, PosInv, NEW o, NEW k, Running(o, k)
  PROVE  /\ \A m \in Int : m >= k => ~Ran(o, m)
         /\ \A m \in Nat : m < k => Ran(o, m)
         /\ \A u \in Ops(body), m \in Nat, d \in Int : Precedes(o, d, u) /\ k + d <= m => ~Ran(u, m)
<1>1. o \in Ops(body) /\ k \in Nat /\ NowTurn \in Int /\ NowPlace \in Int
      /\ Turn(o, k) = NowTurn /\ Place(o) = NowPlace
  BY NowTyped DEF Running
<1>2. ~Ran(o, k)
  BY <1>1 DEF Ran, Reached, Before
<1>3. ASSUME NEW m \in Int, m >= k PROVE ~Ran(o, m)
  <2>1. CASE m = k
    BY <1>2, <2>1
  <2>2. CASE m > k
    BY <1>1, <1>2, <2>2, RanBefore
  <2> QED
    BY <1>1, <1>3, <2>1, <2>2
<1>4. ASSUME NEW m \in Nat, m < k PROVE Ran(o, m)
  <2>1. Before(Turn(o, m), Place(o), Turn(o, k), Place(o))
    BY <1>1, <1>4, LaterIsLater
  <2> QED
    BY <1>1, <2>1 DEF Ran, Reached
<1>5. ASSUME NEW u \in Ops(body), NEW m \in Nat, NEW d \in Int, Precedes(o, d, u), k + d <= m PROVE ~Ran(u, m)
  BY <1>1, <1>2, <1>5, RanNeeds
<1> QED
  BY <1>3, <1>4, <1>5

Advances(o, k) == \A u \in Ops(body), m \in Int : Ran(u, m)' <=> (Ran(u, m) \/ (u = o /\ m = k))
Stays == \A u \in Ops(body), m \in Int : Ran(u, m)' <=> Ran(u, m)

-----------------------------------------------------------------------------
(***************************************************************************)
(* What a step runs: one operation for one iteration, or nothing.          *)
(***************************************************************************)
LEMMA InputSame ==
  ASSUME UNCHANGED input
  PROVE  prog' = prog /\ trip' = trip /\ body' = body /\ source' = source
BY ProgramStays

\* What has run after a step, by where the step leaves the position.
LEMMA RanAfter ==
  ASSUME UNCHANGED input, NEW u, NEW m
  PROVE  Ran(u, m)' <=> m >= 0 /\ Before(Turn(u, m), Place(u), NowTurn', NowPlace')
<1>1. Turn(u, m)' = Turn(u, m) /\ Place(u)' = Place(u)
  BY ProgramStays
<1> QED
  BY <1>1 DEF Ran, Reached, Before

LEMMA NowSame ==
  ASSUME UNCHANGED input, NowTurn' = NowTurn, NowPlace' = NowPlace
  PROVE  Stays
BY RanAfter DEF Stays, Ran, Reached

LEMMA NowAfter ==
  ASSUME UNCHANGED input
  PROVE  /\ part' # "prologue" => NowTurn' = pos'.turn /\ NowPlace' = pos'.i
         /\ part' = "prologue" /\ pos'.i <= Len(prog.prologue) =>
              /\ NowTurn' = Turn(prog.prologue[pos'.i].op, prog.prologue[pos'.i].it)
              /\ NowPlace' = Place(prog.prologue[pos'.i].op)
         /\ part' = "prologue" /\ ~(pos'.i <= Len(prog.prologue)) => NowTurn' = 0 /\ NowPlace' = 1
<1>1. prog' = prog
  BY InputSame
<1>2. \A o : Place(o)' = Place(o)
  BY ProgramStays
<1>3. \A o, k : Turn(o, k)' = Turn(o, k)
  BY ProgramStays
<1>4. IsEarly' <=> part' = "prologue" /\ pos'.i <= Len(prog.prologue)
  BY <1>1 DEF IsEarly
<1>5. /\ NowTurn' = IF IsEarly' THEN Turn(prog.prologue[pos'.i].op, prog.prologue[pos'.i].it)
                    ELSE IF part' = "prologue" THEN 0 ELSE pos'.turn
      /\ NowPlace' = IF IsEarly' THEN Place(prog.prologue[pos'.i].op)
                     ELSE IF part' = "prologue" THEN 1 ELSE pos'.i
  BY <1>1, <1>2, <1>3 DEF NowTurn, NowPlace
<1> QED
  BY <1>4, <1>5

LEMMA PosAfterGive ==
  ASSUME PosInv, NEW v, Give(v), NEW kinds, At(kinds)
  PROVE  /\ PosInv' /\ UNCHANGED input /\ part' = part
         /\ pos'.i = pos.i + 1 /\ pos'.turn = pos.turn /\ pos.i \in Nat /\ pos.i >= 1
<1>1. pos' = [i |-> pos.i + 1, turn |-> pos.turn] /\ part' = part /\ UNCHANGED input /\ UNCHANGED prog /\ UNCHANGED trip
  BY DEF Give, PosInv, input
<1>2. part = "prologue" => pos.i <= Len(prog.prologue)
  BY DEF At, Code
<1>3. part # "prologue" => part = "kernel" /\ pos.i <= Len(prog.kernel) /\ pos.turn < trip
  BY DEF At, Code
<1>4. pos.i \in Nat /\ pos.i >= 1 /\ pos.turn \in Nat /\ trip \in Nat
  BY DEF PosInv
<1>5. part \in {"prologue", "kernel", "done"} /\ (part = "prologue" => pos.turn = 0)
  BY DEF PosInv
<1>6. PosInv'
  BY <1>1, <1>2, <1>3, <1>4, <1>5 DEF PosInv
<1> QED
  BY <1>1, <1>4, <1>6

LEMMA GiveInKernel ==
  ASSUME OrderIsKept, PrologueIsComplete, PosInv, part # "prologue",
         NEW v, Give(v), NEW kinds, At(kinds), "dotwait" \notin kinds
  PROVE  Advances(Instr.op, Instr.it)
<1> DEFINE o == Instr.op
           k == Instr.it
<1>1. o \in Ops(body) /\ k \in Nat /\ Turn(o, k) = NowTurn /\ Place(o) = NowPlace
  BY InstrIsNow
<1>2. NowTurn \in Int /\ NowPlace \in Int /\ NowTurn' = NowTurn /\ NowPlace' = NowPlace + 1 /\ UNCHANGED input
  BY NowTyped, PosAfterGive, NowAfter
<1> HIDE DEF o, k
<1>3. ASSUME NEW u \in Ops(body), NEW m \in Int
      PROVE  Ran(u, m)' <=> (Ran(u, m) \/ (u = o /\ m = k))
  <2>1. Turn(u, m) \in Int /\ Place(u) \in Int
    BY TurnIs
  <2>2. Turn(u, m) = NowTurn /\ Place(u) = NowPlace => u = o /\ m = k
    BY <1>1, SameTime
  <2>3. Ran(u, m)' <=> m >= 0 /\ Before(Turn(u, m), Place(u), NowTurn, NowPlace + 1)
    BY <1>2, RanAfter
  <2>4. Before(Turn(u, m), Place(u), NowTurn, NowPlace + 1)
          <=> Before(Turn(u, m), Place(u), NowTurn, NowPlace) \/ (Turn(u, m) = NowTurn /\ Place(u) = NowPlace)
    BY <1>2, <2>1 DEF Before
  <2> QED
    BY <1>1, <2>2, <2>3, <2>4 DEF Ran, Reached
<1> QED
  BY <1>3 DEF Advances, o, k

LEMMA EarlyTyped ==
  ASSUME OrderIsKept, PrologueIsComplete, NEW j \in Early
  PROVE  /\ prog.prologue[j].op \in Ops(body) /\ prog.prologue[j].it \in Nat
         /\ Turn(prog.prologue[j].op, prog.prologue[j].it) \in Int
         /\ Turn(prog.prologue[j].op, prog.prologue[j].it) < 0
         /\ Place(prog.prologue[j].op) \in Int
<1>1. /\ prog.prologue[j].op \in Ops(body) /\ prog.prologue[j].it \in Nat
      /\ Turn(prog.prologue[j].op, prog.prologue[j].it) < 0
  BY DEF PrologueIsComplete
<1> QED
  BY <1>1, TurnIs

LEMMA EarlyOrder ==
  ASSUME OrderIsKept, PrologueIsComplete, NEW i \in Early, NEW j \in Early
  PROVE  i < j <=> Before(Turn(prog.prologue[i].op, prog.prologue[i].it), Place(prog.prologue[i].op),
                          Turn(prog.prologue[j].op, prog.prologue[j].it), Place(prog.prologue[j].op))
<1> DEFINE T(n) == Turn(prog.prologue[n].op, prog.prologue[n].it)
           P(n) == Place(prog.prologue[n].op)
<1>1. T(i) \in Int /\ P(i) \in Int /\ T(j) \in Int /\ P(j) \in Int
  BY EarlyTyped
<1>2. /\ i < j => Before(T(i), P(i), T(j), P(j))
      /\ j < i => Before(T(j), P(j), T(i), P(i))
  BY DEF PrologueIsComplete
<1>3. i \in Int /\ j \in Int
  BY DEF PrologueIsComplete, Early
<1>4. i = j => T(i) = T(j) /\ P(i) = P(j)
  OBVIOUS
<1> HIDE DEF T, P
<1>5. i < j <=> Before(T(i), P(i), T(j), P(j))
  BY <1>1, <1>2, <1>3, <1>4 DEF Before
<1> QED
  BY <1>5 DEF T, P

\* What runs before the kernel is in the prologue.
LEMMA EarlyHas ==
  ASSUME OrderIsKept, PrologueIsComplete, NEW o \in Ops(body), NEW k \in Nat, Turn(o, k) < 0
  PROVE  \E j \in Early : prog.prologue[j].op = o /\ prog.prologue[j].it = k
<1>1. /\ prog.stage[o] \in Nat /\ prog.max \in Nat /\ Turn(o, k) = k + prog.stage[o] - prog.max
  BY Typed, TurnIs
<1>2. k \in 0..prog.max
  BY <1>1
<1> QED
  BY <1>2 DEF PrologueIsComplete

LEMMA GiveInPrologue ==
  ASSUME OrderIsKept, PrologueIsComplete, PosInv, part = "prologue",
         NEW v, Give(v), NEW kinds, At(kinds), "dotwait" \notin kinds
  PROVE  Advances(Instr.op, Instr.it)
<1> DEFINE o == Instr.op
           k == Instr.it
           n == pos.i
           T(j) == Turn(prog.prologue[j].op, prog.prologue[j].it)
           P(j) == Place(prog.prologue[j].op)
<1>1. /\ o \in Ops(body) /\ k \in Nat /\ Turn(o, k) = NowTurn /\ Place(o) = NowPlace
      /\ n \in Early /\ NowTurn = T(n) /\ NowPlace = P(n)
  BY InstrIsNow DEF NowTurn, NowPlace
<1>2. /\ NowTurn \in Int /\ NowPlace \in Int /\ part' = "prologue" /\ pos'.i = n + 1 /\ UNCHANGED input
      /\ n \in Nat
  BY NowTyped, PosAfterGive
<1>3. /\ n + 1 <= Len(prog.prologue) => n + 1 \in Early /\ NowTurn' = T(n + 1) /\ NowPlace' = P(n + 1)
      /\ ~(n + 1 <= Len(prog.prologue)) => NowTurn' = 0 /\ NowPlace' = 1
  BY <1>1, <1>2, NowAfter DEF Early, PrologueIsComplete
<1>4. NowTurn' \in Int /\ NowPlace' \in Int
  BY <1>3, EarlyTyped
<1>5. Before(NowTurn, NowPlace, NowTurn', NowPlace')
  <2>1. CASE n + 1 <= Len(prog.prologue)
    <3>1. n < n + 1
      BY <1>2
    <3>2. Before(T(n), P(n), T(n + 1), P(n + 1))
      BY <2>1, <1>1, <1>3, <3>1, EarlyOrder
    <3> QED
      BY <1>1, <1>3, <2>1, <3>2
  <2>2. CASE ~(n + 1 <= Len(prog.prologue))
    <3>1. T(n) < 0 /\ T(n) \in Int
      BY <1>1, EarlyTyped
    <3> QED
      BY <1>1, <1>3, <2>2, <3>1 DEF Before
  <2> QED
    BY <2>1, <2>2
<1>6. ASSUME NEW u \in Ops(body), NEW m \in Int
      PROVE  Ran(u, m)' <=> (Ran(u, m) \/ (u = o /\ m = k))
  <2>1. Turn(u, m) \in Int /\ Place(u) \in Int
    BY TurnIs
  <2>2. Turn(u, m) = NowTurn /\ Place(u) = NowPlace => u = o /\ m = k
    BY <1>1, SameTime
  <2>3. Ran(u, m)' <=> m >= 0 /\ Before(Turn(u, m), Place(u), NowTurn', NowPlace')
    BY <1>2, RanAfter
  <2>4. ASSUME m >= 0, Before(NowTurn, NowPlace, Turn(u, m), Place(u)),
               Before(Turn(u, m), Place(u), NowTurn', NowPlace')
        PROVE  FALSE
    <3>1. CASE Turn(u, m) < 0
      <4>1. PICK j \in Early : prog.prologue[j].op = u /\ prog.prologue[j].it = m
        BY <3>1, <2>4, EarlyHas
      <4>2. n < j
        BY <1>1, <2>4, <4>1, EarlyOrder
      <4>3. n + 1 \in Early /\ j < n + 1
        <5>1. n + 1 <= Len(prog.prologue)
          BY <1>1, <4>2 DEF Early, PrologueIsComplete
        <5>2. n + 1 \in Early /\ NowTurn' = T(n + 1) /\ NowPlace' = P(n + 1)
          BY <5>1, <1>3
        <5> QED
          BY <2>4, <4>1, <5>2, EarlyOrder
      <4> QED
        BY <1>2, <4>2, <4>3 DEF Early, PrologueIsComplete
    <3>2. CASE ~(Turn(u, m) < 0)
      <4>1. NowTurn' < 0 \/ (NowTurn' = 0 /\ NowPlace' = 1)
        BY <1>3, EarlyTyped
      <4>2. Place(u) >= 1
        BY Typed
      <4> QED
        BY <2>1, <2>4, <3>2, <4>1, <4>2, <1>4 DEF Before
    <3> QED
      BY <3>1, <3>2
  <2>5. Before(Turn(u, m), Place(u), NowTurn, NowPlace) => Before(Turn(u, m), Place(u), NowTurn', NowPlace')
    BY <1>2, <1>4, <1>5, <2>1 DEF Before
  <2>6. Turn(u, m) = NowTurn /\ Place(u) = NowPlace => Before(Turn(u, m), Place(u), NowTurn', NowPlace')
    BY <1>5
  <2>7. \/ Before(Turn(u, m), Place(u), NowTurn, NowPlace) \/ (Turn(u, m) = NowTurn /\ Place(u) = NowPlace)
        \/ Before(NowTurn, NowPlace, Turn(u, m), Place(u))
    BY <2>1, <1>2 DEF Before
  <2> QED
    BY <1>1, <2>2, <2>3, <2>4, <2>5, <2>6, <2>7 DEF Ran, Reached
<1> QED
  BY <1>6 DEF Advances

LEMMA GiveAdvances ==
  ASSUME OrderIsKept, PrologueIsComplete, PosInv,
         NEW v, Give(v), NEW kinds, At(kinds), "dotwait" \notin kinds
  PROVE  /\ Advances(Instr.op, Instr.it) /\ Running(Instr.op, Instr.it) /\ PosInv' /\ UNCHANGED input
<1>1. Advances(Instr.op, Instr.it)
  BY GiveInKernel, GiveInPrologue
<1> QED
  BY <1>1, InstrIsNow, PosAfterGive DEF Running

\* The steps that run nothing.
LEMMA HardwareStays ==
  ASSUME UNCHANGED <<input, part, pos>>
  PROVE  Stays /\ NowTurn' = NowTurn /\ NowPlace' = NowPlace /\ (PosInv => PosInv')
<1>1. UNCHANGED input /\ UNCHANGED prog /\ UNCHANGED trip
  BY DEF input
<1>2. NowTurn' = NowTurn /\ NowPlace' = NowPlace
  <2>1. IsEarly' <=> IsEarly
    BY <1>1 DEF IsEarly
  <2>2. Turn(prog.prologue[pos.i].op, prog.prologue[pos.i].it)' = Turn(prog.prologue[pos.i].op, prog.prologue[pos.i].it)
        /\ Place(prog.prologue[pos.i].op)' = Place(prog.prologue[pos.i].op)
    BY <1>1, ProgramStays
  <2> QED
    BY <2>1, <2>2 DEF NowTurn, NowPlace
<1> QED
  BY <1>1, <1>2, NowSame DEF PosInv

LEMMA LeaveStays ==
  ASSUME OrderIsKept, PrologueIsComplete, PosInv, Leave
  PROVE  Stays /\ PosInv' /\ UNCHANGED input /\ NowTurn' = NowTurn /\ NowPlace' = NowPlace
<1>1. UNCHANGED input /\ part = "kernel" /\ part' = "done" /\ pos' = pos /\ pos.turn = trip /\ trip' = trip /\ prog' = prog
  BY DEF Leave, input
<1>2. NowTurn' = NowTurn /\ NowPlace' = NowPlace
  BY <1>1, NowTyped, NowAfter
<1> QED
  BY <1>1, <1>2, NowSame DEF PosInv

LEMMA EnterStays ==
  ASSUME OrderIsKept, PrologueIsComplete, PosInv, EnterKernel
  PROVE  Stays /\ PosInv' /\ UNCHANGED input /\ NowTurn' = NowTurn /\ NowPlace' = NowPlace
         /\ NowTurn = 0 /\ NowPlace = 1
<1>1. /\ UNCHANGED input /\ part = "prologue" /\ part' = "kernel" /\ pos' = [i |-> 1, turn |-> 0]
      /\ ~(pos.i <= Len(prog.prologue)) /\ trip' = trip /\ prog' = prog
  BY DEF EnterKernel, input, PosInv, PrologueIsComplete
<1>2. NowTurn' = NowTurn /\ NowPlace' = NowPlace /\ NowTurn = 0 /\ NowPlace = 1
  <2>1. ~IsEarly
    BY <1>1 DEF IsEarly
  <2> QED
    BY <1>1, <2>1, NowTyped, NowAfter
<1>3. PosInv'
  BY <1>1, Typed DEF PosInv
<1> QED
  BY <1>1, <1>2, <1>3, NowSame

LEMMA NextTurnStays ==
  ASSUME OrderIsKept, PrologueIsComplete, PosInv, NextTurn
  PROVE  /\ Stays /\ PosInv' /\ UNCHANGED input /\ NowTurn' = NowTurn + 1 /\ NowPlace' = 1
         /\ NowPlace = Len(prog.kernel) + 1 /\ NowTurn = pos.turn /\ pos.turn \in Nat /\ pos.turn < trip
<1>1. /\ UNCHANGED input /\ part = "kernel" /\ part' = part /\ pos' = [i |-> 1, turn |-> pos.turn + 1]
      /\ pos.i > Len(prog.kernel) /\ trip' = trip /\ prog' = prog
  BY DEF NextTurn, input
<1>2. Len(prog.kernel) \in Nat /\ Len(prog.kernel) >= 1
  BY Typed
<1>3. pos.i = Len(prog.kernel) + 1 /\ pos.turn < trip /\ pos.turn \in Nat /\ trip \in Nat
  BY <1>1, <1>2 DEF PosInv
<1>4. NowTurn = pos.turn /\ NowPlace = Len(prog.kernel) + 1 /\ NowTurn' = pos.turn + 1 /\ NowPlace' = 1
  BY <1>1, <1>3, NowTyped, NowAfter
<1>5. ASSUME NEW u \in Ops(body), NEW m \in Int PROVE Ran(u, m)' <=> Ran(u, m)
  <2>1. Turn(u, m) \in Int /\ Place(u) \in Int /\ 1 <= Place(u) /\ Place(u) <= Len(prog.kernel)
    BY TurnIs, Typed
  <2>2. Before(Turn(u, m), Place(u), NowTurn', NowPlace') <=> Before(Turn(u, m), Place(u), NowTurn, NowPlace)
    BY <2>1, <1>2, <1>3, <1>4 DEF Before
  <2> QED
    BY <1>1, <2>2, RanAfter DEF Ran, Reached
<1>6. PosInv'
  BY <1>1, <1>2, <1>3 DEF PosInv
<1> QED
  BY <1>1, <1>3, <1>4, <1>5, <1>6 DEF Stays

LEMMA DotWaitedStays ==
  ASSUME OrderIsKept, PrologueIsComplete, PosInv, DotWaited
  PROVE  /\ Stays /\ PosInv' /\ UNCHANGED input /\ NowTurn' = NowTurn /\ NowPlace' = NowPlace + 1
         /\ part = "kernel" /\ part' = part /\ pos.i \in Steps /\ Kind(prog.kernel[pos.i]) = "dotwait"
         /\ NowTurn = pos.turn /\ NowPlace = pos.i /\ pos' = [i |-> pos.i + 1, turn |-> pos.turn]
         /\ Instr.op = prog.kernel[pos.i]
<1>1. /\ UNCHANGED input /\ part' = part /\ pos' = [i |-> pos.i + 1, turn |-> pos.turn] /\ trip' = trip /\ prog' = prog
      /\ pos.i \in Nat /\ pos.i >= 1
  BY DEF DotWaited, input, PosInv
<1>2. ASSUME part = "prologue" PROVE FALSE
  <2>1. pos.i \in Early /\ Kind(prog.prologue[pos.i].op) = "dotwait"
    BY <1>2 DEF DotWaited, At, Code, Instr, Early, PosInv, PrologueIsComplete
  <2>2. prog.prologue[pos.i].op \in Ops(body)
    BY <2>1, EarlyTyped
  <2> QED
    BY <2>1, <2>2 DEF OrderIsKept
<1>3. /\ part = "kernel" /\ pos.i \in Steps /\ Kind(prog.kernel[pos.i]) = "dotwait" /\ pos.turn < trip
      /\ Instr.op = prog.kernel[pos.i]
  BY <1>2, Typed DEF DotWaited, At, Code, Instr, Steps, PosInv
<1>4. NowTurn = pos.turn /\ NowPlace = pos.i /\ NowTurn' = pos.turn /\ NowPlace' = pos.i + 1
  BY <1>1, <1>3, NowTyped, NowAfter
<1>5. ASSUME NEW u \in Ops(body), NEW m \in Int PROVE Ran(u, m)' <=> Ran(u, m)
  <2>1. Turn(u, m) \in Int /\ Place(u) \in Int /\ NowTurn \in Int /\ NowPlace \in Int
    BY TurnIs, NowTyped
  <2>2. Place(u) # pos.i
    BY <1>3 DEF OrderIsKept
  <2>3. Before(Turn(u, m), Place(u), NowTurn, NowPlace + 1) <=> Before(Turn(u, m), Place(u), NowTurn, NowPlace)
    BY <2>1, <2>2, <1>4 DEF Before
  <2> QED
    BY <1>1, <1>4, <2>3, RanAfter DEF Ran, Reached
<1>6. PosInv'
  BY <1>1, <1>3 DEF PosInv, Steps
<1> QED
  BY <1>1, <1>3, <1>4, <1>5, <1>6 DEF Stays

-----------------------------------------------------------------------------
(***************************************************************************)
(* The values: those the program keeps are right, in the prologue, in the  *)
(* kernel and where one becomes the other.                                 *)
(***************************************************************************)
\* What an operation names has run, for the iteration it is named for.
LEMMA ReferenceFacts ==
  ASSUME OrderIsKept, NEW o \in Ops(body), NEW r \in AllRefs(body, o)
  PROVE  /\ r.def \in Ops(body) /\ r.dist \in Int /\ (r.dist = 0 \/ r.dist = 1) /\ Precedes(r.def, r.dist, o)
         /\ prog.stage[o] \in Nat /\ prog.stage[o] <= prog.max /\ prog.max \in Nat
         /\ prog.stage[r.def] \in Nat /\ prog.stage[r.def] <= prog.max
         /\ Place(o) \in Nat /\ Place(r.def) \in Nat
<1>1. r.def \in Ops(body) /\ r.dist \in {0, 1} /\ Precedes(r.def, r.dist, o)
  BY DEF OrderIsKept
<1> QED
  BY <1>1, Typed

LEMMA OperandInPrologue ==
  ASSUME OrderIsKept, PrologueIsComplete, PosInv, EarlyFlow, part = "prologue",
         NEW kinds, At(kinds), "dotwait" \notin kinds,
         NEW r \in AllRefs(body, Instr.op), Kind(r.def) = "idx" \/ Instr.it < trip
  PROVE  Operand(Instr, r) = Instr.it - r.dist
<1> DEFINE o == Instr.op
           k == Instr.it
<1>1. /\ Running(o, k) /\ o \in Ops(body) /\ k \in Nat /\ Turn(o, k) < 0 /\ trip \in Nat
  <2>1. pos.i \in Early /\ o = prog.prologue[pos.i].op /\ k = prog.prologue[pos.i].it
    BY InstrIsNow
  <2>2. Running(o, k)
    BY InstrIsNow DEF Running
  <2> QED
    BY <2>1, <2>2, EarlyTyped DEF PosInv
<1>2. r \in AllRefs(body, o)
  OBVIOUS
<1>3. Operand(Instr, r) = Version(r, k)
  BY DEF Operand
<1>0. Kind(r.def) = "idx" \/ k < trip
  OBVIOUS
<1> HIDE DEF o, k
<1>4. /\ r.def \in Ops(body) /\ r.dist \in Int /\ (r.dist = 0 \/ r.dist = 1) /\ Precedes(r.def, r.dist, o)
  BY <1>1, <1>2, ReferenceFacts
<1>5. k <= prog.max /\ prog.max \in Nat
  <2>1. Turn(o, k) = k + prog.stage[o] - prog.max /\ prog.stage[o] \in Nat /\ prog.max \in Nat
    BY <1>1, Typed, TurnIs
  <2> QED
    BY <1>1, <2>1
<1>6. ASSUME NEW m \in Nat, m + r.dist <= k
      PROVE  env.val[r.def][m] = m
  <2>1. Ran(r.def, m)
    BY <1>1, <1>4, <1>6, RunningNeeds
  <2>2. m \in 0..prog.max /\ m <= k
    BY <1>1, <1>4, <1>5, <1>6
  <2>3. Right(r.def, m, env.val[r.def][m])
    BY <1>4, <2>1, <2>2 DEF EarlyFlow
  <2>4. Kind(r.def) = "idx" \/ m < trip
    BY <1>0, <1>1, <2>2
  <2> QED
    BY <2>3, <2>4 DEF Right
<1>7. CASE r.dist = 0
  <2>1. Version(r, k) = env.val[r.def][k]
    BY <1>7 DEF Version
  <2> QED
    BY <1>1, <1>3, <1>6, <1>7, <2>1 DEF k
<1>8. CASE r.dist = 1 /\ k = 0
  <2>1. Version(r, k) = -1
    BY <1>8 DEF Version
  <2> QED
    BY <1>3, <1>8, <2>1 DEF k
<1>9. CASE r.dist = 1 /\ k # 0
  <2>1. Version(r, k) = env.val[r.def][k - 1]
    BY <1>9 DEF Version
  <2>2. k - 1 \in Nat /\ (k - 1) + r.dist <= k
    BY <1>1, <1>9
  <2>3. env.val[r.def][k - 1] = k - 1
    BY <2>2, <1>6
  <2> QED
    BY <1>3, <1>9, <2>1, <2>3 DEF k
<1> QED
  BY <1>4, <1>7, <1>8, <1>9

LEMMA OperandInKernel ==
  ASSUME OrderIsKept, PrologueIsComplete, ValuesAreCarried, PosInv, KernelFlow, part # "prologue",
         NEW kinds, At(kinds), "dotwait" \notin kinds,
         NEW r \in AllRefs(body, Instr.op), Kind(r.def) = "idx" \/ Instr.it < trip
  PROVE  Operand(Instr, r) = Instr.it - r.dist
<1> DEFINE o == Instr.op
           k == Instr.it
           s == prog.stage[o]
           d == prog.stage[r.def]
           e == r.dist
<1>1. /\ o \in Ops(body) /\ k = Latest(o) /\ Place(o) = pos.i /\ k \in Nat
  BY InstrIsNow, NowTyped
<1>2. /\ r.def \in Ops(body) /\ e \in Int /\ (e = 0 \/ e = 1) /\ Precedes(r.def, e, o)
      /\ s \in Nat /\ d \in Nat /\ prog.max \in Nat /\ Place(o) \in Nat /\ Place(r.def) \in Nat
  BY <1>1, ReferenceFacts
<1>3. pos.turn \in Nat /\ trip \in Nat
  BY DEF PosInv
<1>4. k = pos.turn + prog.max - s /\ Latest(r.def) = pos.turn + prog.max - d
  BY <1>1 DEF Latest
<1>5. Operand(Instr, r) = IF e = 1 /\ d = s THEN env.arg[r.def]
                          ELSE IF d = s + e THEN env.cur[r.def] ELSE env.carry[r][s - d]
  BY DEF Operand
<1>0. Kind(r.def) = "idx" \/ k < trip
  OBVIOUS
<1>6. d < s + e \/ (d = s + e /\ Place(r.def) < pos.i)
  BY <1>1, <1>2 DEF Precedes, Before
<1>7. r \in AllRefs(body, o)
  OBVIOUS
<1>8. ASSUME NEW v, Right(r.def, k - e, v) PROVE v = k - e
  <2>1. Kind(r.def) = "idx" \/ k - e < trip
    BY <1>0, <1>1, <1>2, <1>3
  <2> QED
    BY <1>8, <2>1 DEF Right
<1>9. CASE e = 1 /\ d = s
  <2>1. Right(r.def, Latest(r.def) - 1, env.arg[r.def])
    BY <1>2 DEF KernelFlow
  <2>2. Latest(r.def) - 1 = k - e
    BY <1>9, <1>4
  <2> QED
    BY <1>5, <1>8, <1>9, <2>1, <2>2
<1>10. CASE ~(e = 1 /\ d = s) /\ d = s + e
  <2>1. Right(r.def, Latest(r.def), env.cur[r.def])
    BY <1>2, <1>6, <1>10 DEF KernelFlow
  <2>2. Latest(r.def) = k - e
    BY <1>10, <1>4, <1>2, <1>3
  <2> QED
    BY <1>5, <1>8, <1>10, <2>1, <2>2
<1>11. CASE ~(e = 1 /\ d = s) /\ ~(d = s + e)
  <2>1. s - d >= 1 /\ s - d \in Int /\ s - d \notin {0, -e}
    BY <1>2, <1>6, <1>11
  <2>2. r \in DOMAIN prog.spans /\ s - d <= prog.spans[r]
    BY <1>1, <1>7, <2>1 DEF ValuesAreCarried
  <2>3. prog.spans[r] \in Int
    BY <1>2, <2>2 DEF ValuesAreCarried
  <2>4. s - d \in 1..prog.spans[r]
    BY <2>1, <2>2, <2>3
  <2>5. Right(r.def, Latest(r.def) - e - (s - d), env.carry[r][s - d])
    BY <2>2, <2>4 DEF KernelFlow
  <2>6. Latest(r.def) - e - (s - d) = k - e
    BY <1>2, <1>3, <1>4
  <2> QED
    BY <1>5, <1>8, <1>11, <2>5, <2>6
<1> QED
  BY <1>9, <1>10, <1>11

LEMMA OperandRight ==
  ASSUME OrderIsKept, PrologueIsComplete, ValuesAreCarried, PosInv, EarlyFlow, KernelFlow,
         NEW kinds, At(kinds), "dotwait" \notin kinds,
         NEW r \in AllRefs(body, Instr.op), Kind(r.def) = "idx" \/ Instr.it < trip
  PROVE  Operand(Instr, r) = Instr.it - r.dist
BY OperandInPrologue, OperandInKernel

FlowInv == EarlyFlow /\ KernelFlow

\* What the flow of values depends on.
LEMMA FlowSame ==
  ASSUME FlowInv, PosInv, UNCHANGED <<input, part, pos, env, results>>
  PROVE  FlowInv'
<1>1. prog' = prog /\ trip' = trip /\ body' = body /\ source' = source
  BY InputSame
<1>2. \A o, k, v : Right(o, k, v)' = Right(o, k, v)
  BY ProgramStays
<1>3. \A o : Place(o)' = Place(o)
  BY ProgramStays
<1>4. \A o, k : Turn(o, k)' = Turn(o, k)
  BY ProgramStays
<1>5. NowTurn' = NowTurn /\ NowPlace' = NowPlace
  BY HardwareStays
<1>6. \A o, k : Ran(o, k)' <=> Ran(o, k)
  BY <1>5, RanAfter DEF Ran, Reached
<1>7. \A o : Latest(o)' = Latest(o)
  BY <1>1 DEF Latest
<1>8. EarlyFlow'
  <2>1. part = "prologue" =>
          /\ env = [val |-> env.val]
          /\ env.val = [o \in Ops(body) |-> [k \in 0..prog.max |-> env.val[o][k]]]
          /\ \A o \in Ops(body), k \in 0..prog.max : Ran(o, k) => Right(o, k, env.val[o][k])
    BY DEF FlowInv, EarlyFlow
  <2>2. env' = env /\ part' = part
    OBVIOUS
  <2> QED
    BY <1>1, <1>2, <1>6, <2>1, <2>2 DEF EarlyFlow
<1>9. KernelFlow'
  BY <1>1, <1>2, <1>3, <1>7 DEF FlowInv, KernelFlow
<1> QED
  BY <1>8, <1>9 DEF FlowInv

LEMMA GiveFlowInPrologue ==
  ASSUME OrderIsKept, PrologueIsComplete, PosInv, FlowInv, part = "prologue",
         NEW v, Give(v), NEW kinds, At(kinds), "dotwait" \notin kinds, Right(Instr.op, Instr.it, v)
  PROVE  FlowInv'
<1>1. PICK o, k : o = Instr.op /\ k = Instr.it
  OBVIOUS
<1>2. /\ UNCHANGED input /\ part' = part /\ prog' = prog /\ trip' = trip /\ body' = body
      /\ Advances(o, k) /\ o \in Ops(body) /\ k \in 0..prog.max
  <2>1. Advances(o, k) /\ Running(o, k) /\ UNCHANGED input /\ part' = part
    BY <1>1, GiveAdvances, PosAfterGive
  <2>2. o \in Ops(body) /\ k \in Nat /\ Turn(o, k) < 0
    <3>1. pos.i \in Early /\ o = prog.prologue[pos.i].op /\ k = prog.prologue[pos.i].it
      BY <1>1, InstrIsNow
    <3> QED
      BY <3>1, EarlyTyped
  <2>3. Turn(o, k) = k + prog.stage[o] - prog.max /\ prog.stage[o] \in Nat /\ prog.max \in Nat
    BY <2>2, Typed, TurnIs
  <2> QED
    BY <2>1, <2>2, <2>3, InputSame
<1>3. /\ env = [val |-> env.val]
      /\ env.val = [u \in Ops(body) |-> [m \in 0..prog.max |-> env.val[u][m]]]
      /\ \A u \in Ops(body), m \in 0..prog.max : Ran(u, m) => Right(u, m, env.val[u][m])
  BY DEF FlowInv, EarlyFlow
<1>4. PICK val : val = env.val
  OBVIOUS
<1>5. env = [val |-> val] /\ val = [u \in Ops(body) |-> [m \in 0..prog.max |-> val[u][m]]]
  BY <1>3, <1>4
<1>6. env' = [env EXCEPT !.val[o][k] = v]
  BY <1>1 DEF Give
<1>7. env' = [val |-> [u \in Ops(body) |-> [m \in 0..prog.max |-> IF u = o /\ m = k THEN v ELSE val[u][m]]]]
  <2>1. env' = [val |-> [val EXCEPT ![o][k] = v]]
    BY <1>5, <1>6
  <2>2. [val EXCEPT ![o][k] = v] = [u \in Ops(body) |-> [m \in 0..prog.max |-> IF u = o /\ m = k THEN v ELSE val[u][m]]]
    BY <1>2, <1>5
  <2> QED
    BY <2>1, <2>2
<1>8. EarlyFlow'
  <2>1. ASSUME NEW u \in Ops(body), NEW m \in 0..prog.max, Ran(u, m)' PROVE Right(u, m, env'.val[u][m])
    <3>1. env'.val[u][m] = IF u = o /\ m = k THEN v ELSE val[u][m]
      BY <1>7
    <3>2. m \in Int
      BY <1>2, Typed
    <3>3. Ran(u, m) \/ (u = o /\ m = k)
      BY <1>2, <2>1, <3>2 DEF Advances
    <3> QED
      BY <1>1, <1>3, <1>4, <3>1, <3>3
  <2>2. \A u, m, w : Right(u, m, w)' = Right(u, m, w)
    BY <1>2, ProgramStays
  <2>3. \A u \in Ops(body), m \in 0..prog.max : Ran(u, m)' => Right(u, m, env.val[u][m])'
    BY <2>1, <2>2
  <2>4. /\ env' = [val |-> env'.val]
        /\ env'.val = [u \in Ops(body) |-> [m \in 0..prog.max |-> env'.val[u][m]]]
    BY <1>7
  <2> QED
    BY <1>2, <2>3, <2>4 DEF EarlyFlow
<1> QED
  BY <1>2, <1>8 DEF FlowInv, KernelFlow

LEMMA GiveFlowInKernel ==
  ASSUME OrderIsKept, PrologueIsComplete, PosInv, FlowInv, part # "prologue",
         NEW v, Give(v), NEW kinds, At(kinds), "dotwait" \notin kinds, Right(Instr.op, Instr.it, v)
  PROVE  FlowInv'
<1>1. PICK o, k : o = Instr.op /\ k = Instr.it
  OBVIOUS
<1>2. /\ UNCHANGED input /\ part' = part /\ prog' = prog /\ trip' = trip /\ body' = body /\ source' = source
      /\ o \in Ops(body) /\ k = Latest(o) /\ Place(o) = pos.i /\ part = "kernel" /\ Right(o, k, v)
      /\ pos'.i = pos.i + 1 /\ pos'.turn = pos.turn /\ pos.i \in Nat
  BY <1>1, InstrIsNow, PosAfterGive, NowTyped, InputSame
<1>3. /\ env = [cur |-> env.cur, arg |-> env.arg, carry |-> env.carry]
      /\ env.cur = [u \in Ops(body) |-> env.cur[u]]
      /\ \A u \in Ops(body) : Place(u) < pos.i => Right(u, Latest(u), env.cur[u])
  BY DEF FlowInv, KernelFlow
<1>4. PICK cur, arg, carry : cur = env.cur /\ arg = env.arg /\ carry = env.carry
  OBVIOUS
<1>5. env = [cur |-> cur, arg |-> arg, carry |-> carry] /\ cur = [u \in Ops(body) |-> cur[u]]
  BY <1>3, <1>4
<1>6. env' = [env EXCEPT !.cur[o] = v]
  BY <1>1, <1>2 DEF Give
<1>7. env' = [cur |-> [u \in Ops(body) |-> IF u = o THEN v ELSE cur[u]], arg |-> arg, carry |-> carry]
  <2>1. env' = [cur |-> [cur EXCEPT ![o] = v], arg |-> arg, carry |-> carry]
    BY <1>5, <1>6
  <2>2. [cur EXCEPT ![o] = v] = [u \in Ops(body) |-> IF u = o THEN v ELSE cur[u]]
    BY <1>2, <1>5
  <2> QED
    BY <2>1, <2>2
<1>8. \A u, m, w : Right(u, m, w)' = Right(u, m, w)
  BY <1>2, ProgramStays
<1>9. \A u : Place(u)' = Place(u)
  BY <1>2, ProgramStays
<1>10. \A u : Latest(u)' = Latest(u)
  BY <1>2 DEF Latest
<1>11. ASSUME NEW u \in Ops(body), Place(u) < pos'.i PROVE Right(u, Latest(u), env'.cur[u])
  <2>1. env'.cur[u] = IF u = o THEN v ELSE cur[u]
    BY <1>7
  <2>2. Place(u) = pos.i => u = o
    BY <1>2, Typed
  <2>3. Place(u) < pos.i \/ u = o
    BY <1>2, <1>11, <2>2, Typed
  <2> QED
    BY <1>2, <1>3, <1>4, <2>1, <2>3
<1>12. /\ \A u \in Ops(body) : Right(u, Latest(u) - 1, arg[u])
       /\ \A r \in DOMAIN prog.spans : \A j \in 1..prog.spans[r] : Right(r.def, Latest(r.def) - r.dist - j, carry[r][j])
       /\ \A u \in source.used : trip >= prog.max - prog.stage[u] /\ Latest(u) >= trip => arg[u] = trip - 1
  BY <1>2, <1>4 DEF FlowInv, KernelFlow
<1>13. /\ env' = [cur |-> env'.cur, arg |-> env'.arg, carry |-> env'.carry]
       /\ env'.cur = [u \in Ops(body) |-> env'.cur[u]] /\ env'.arg = arg /\ env'.carry = carry
  BY <1>7
<1>14. KernelFlow'
  BY <1>2, <1>8, <1>9, <1>10, <1>11, <1>12, <1>13 DEF KernelFlow
<1> QED
  BY <1>2, <1>14 DEF FlowInv, EarlyFlow

LEMMA DotWaitedFlow ==
  ASSUME OrderIsKept, PrologueIsComplete, PosInv, FlowInv, DotWaited
  PROVE  FlowInv'
<1>1. /\ UNCHANGED <<input, env>> /\ part' = part /\ prog' = prog /\ trip' = trip /\ body' = body /\ source' = source
      /\ part = "kernel" /\ pos.i \in Steps /\ Kind(prog.kernel[pos.i]) = "dotwait"
      /\ pos'.i = pos.i + 1 /\ pos'.turn = pos.turn
  BY DotWaitedStays, InputSame DEF DotWaited
<1>2. \A u, m, w : Right(u, m, w)' = Right(u, m, w)
  BY <1>1, ProgramStays
<1>3. \A u : Place(u)' = Place(u)
  BY <1>1, ProgramStays
<1>4. \A u : Latest(u)' = Latest(u)
  BY <1>1 DEF Latest
<1>5. ASSUME NEW u \in Ops(body) PROVE Place(u) < pos'.i => Place(u) < pos.i
  <2>1. Place(u) # pos.i /\ Place(u) \in Nat /\ pos.i \in Nat
    BY <1>1, Typed DEF OrderIsKept, Steps
  <2> QED
    BY <1>1, <2>1
<1>6. KernelFlow
  BY DEF FlowInv
<1>7. KernelFlow'
  BY <1>1, <1>2, <1>3, <1>4, <1>5, <1>6 DEF KernelFlow
<1> QED
  BY <1>1, <1>7 DEF FlowInv, EarlyFlow

LEMMA LeaveFlow ==
  ASSUME OrderIsKept, PrologueIsComplete, PosInv, FlowInv, Leave
  PROVE  FlowInv'
<1>1. /\ UNCHANGED <<input, env, pos>> /\ prog' = prog /\ trip' = trip /\ body' = body /\ source' = source
      /\ part = "kernel" /\ part' = "done" /\ results' = [o \in source.used |-> env.arg[o]]
  BY InputSame DEF Leave
<1>2. \A u, m, w : Right(u, m, w)' = Right(u, m, w)
  BY <1>1, ProgramStays
<1>3. \A u : Place(u)' = Place(u)
  BY <1>1, ProgramStays
<1>4. \A u : Latest(u)' = Latest(u)
  BY <1>1 DEF Latest
<1>5. KernelFlow
  BY DEF FlowInv
<1>6. KernelFlow'
  BY <1>1, <1>2, <1>3, <1>4, <1>5 DEF KernelFlow
<1> QED
  BY <1>1, <1>6 DEF FlowInv, EarlyFlow

\* The version that the prologue leaves of a value.
LEMMA VersionRight ==
  ASSUME OrderIsKept, PrologueIsComplete, PosInv, EarlyFlow, part = "prologue", NowTurn = 0, NowPlace = 1,
         NEW r, r.def \in Ops(body), r.dist \in {0, 1}, NEW k \in Nat, Turn(r.def, k) < r.dist
  PROVE  Right(r.def, k - r.dist, Version(r, k))
<1>1. /\ prog.stage[r.def] \in Nat /\ prog.max \in Nat /\ Place(r.def) \in Int /\ Place(r.def) >= 1
  BY Typed
<1>2. ASSUME NEW m \in Nat, m = k - r.dist PROVE Right(r.def, m, env.val[r.def][m])
  <2>4. Turn(r.def, m) = m + prog.stage[r.def] - prog.max /\ Turn(r.def, k) = k + prog.stage[r.def] - prog.max
    BY TurnIs
  <2>1. Turn(r.def, m) < 0 /\ m <= prog.max
    BY <1>1, <1>2, <2>4
  <2>2. Ran(r.def, m)
    BY <2>1 DEF Ran, Reached, Before
  <2>3. m \in 0..prog.max
    BY <1>1, <2>1
  <2> QED
    BY <2>2, <2>3 DEF EarlyFlow
<1>3. CASE r.dist = 0
  BY <1>2, <1>3 DEF Version
<1>4. CASE r.dist = 1 /\ k = 0
  BY <1>4 DEF Version, Right
<1>5. CASE r.dist = 1 /\ k # 0
  <2>1. k - 1 \in Nat /\ k - 1 = k - r.dist
    BY <1>5
  <2> QED
    BY <1>2, <1>5, <2>1 DEF Version
<1> QED
  BY <1>3, <1>4, <1>5

LEMMA EnterFlow ==
  ASSUME OrderIsKept, PrologueIsComplete, ValuesAreCarried, IndicesStandAlone, PosInv, FlowInv, EnterKernel
  PROVE  FlowInv'
<1>1. /\ UNCHANGED input /\ part = "prologue" /\ part' = "kernel" /\ pos' = [i |-> 1, turn |-> 0]
      /\ prog' = prog /\ trip' = trip /\ body' = body /\ source' = source
      /\ NowTurn = 0 /\ NowPlace = 1
      /\ env' = [cur |-> [o \in Ops(body) |-> Wrong],
                 arg |-> [o \in Ops(body) |-> Version(Prev(o), prog.max - prog.stage[o])],
                 carry |-> [r \in DOMAIN prog.spans |->
                              [j \in 1..prog.spans[r] |-> Version(r, prog.max - prog.stage[r.def] - j)]]]
  BY EnterStays, InputSame DEF EnterKernel
<1>2. \A u, m, w : Right(u, m, w)' = Right(u, m, w)
  BY <1>1, ProgramStays
<1>3. \A u : Place(u)' = Place(u)
  BY <1>1, ProgramStays
<1>4. \A u : Latest(u)' = 0 + prog.max - prog.stage[u]
  BY <1>1 DEF Latest
<1>5. EarlyFlow
  BY DEF FlowInv
<1>6. ASSUME NEW u \in Ops(body)
      PROVE  /\ ~(Place(u) < 1) /\ Latest(u)' = prog.max - prog.stage[u]
             /\ Right(u, prog.max - prog.stage[u] - 1, Version(Prev(u), prog.max - prog.stage[u]))
  <2>1. /\ prog.stage[u] \in Nat /\ prog.max \in Nat /\ prog.stage[u] <= prog.max /\ Place(u) \in Nat /\ Place(u) >= 1
        /\ \A m \in Int : Turn(u, m) = m + prog.stage[u] - prog.max
    BY Typed, TurnIs
  <2>2. PICK k, r : k = prog.max - prog.stage[u] /\ r = Prev(u)
    OBVIOUS
  <2>3. r.def = u /\ r.dist = 1
    BY <2>2 DEF Prev
  <2>4. k \in Nat /\ Turn(u, k) < r.dist
    BY <2>1, <2>2, <2>3
  <2>5. Right(u, k - r.dist, Version(r, k))
    BY <1>1, <1>5, <2>3, <2>4, VersionRight
  <2> QED
    BY <1>4, <2>1, <2>2, <2>3, <2>5
<1>7. ASSUME NEW r \in DOMAIN prog.spans, NEW j \in 1..prog.spans[r]
      PROVE  Right(r.def, Latest(r.def)' - r.dist - j, env'.carry[r][j])
  <2>1. r.def \in Ops(body) /\ r.dist \in {0, 1} /\ prog.spans[r] \in 0..(prog.max - prog.stage[r.def])
    BY DEF ValuesAreCarried
  <2>2. /\ prog.stage[r.def] \in Nat /\ prog.max \in Nat /\ prog.stage[r.def] <= prog.max
        /\ \A m \in Int : Turn(r.def, m) = m + prog.stage[r.def] - prog.max
    BY <2>1, Typed, TurnIs
  <2>3. PICK k : k = prog.max - prog.stage[r.def] - j
    OBVIOUS
  <2>4. k \in Nat /\ Turn(r.def, k) < r.dist
    BY <2>1, <2>2, <2>3
  <2>5. Right(r.def, k - r.dist, Version(r, k))
    BY <1>1, <1>5, <2>1, <2>4, VersionRight
  <2>6. env'.carry[r][j] = Version(r, k)
    BY <1>1, <2>3
  <2>7. k - r.dist = Latest(r.def)' - r.dist - j
    BY <1>4, <2>1, <2>2, <2>3
  <2> QED
    BY <2>5, <2>6, <2>7
<1>8. ASSUME NEW u \in source.used, trip >= prog.max - prog.stage[u], Latest(u)' >= trip
      PROVE  env'.arg[u] = trip - 1
  <2>1. u \in Ops(body)
    BY DEF IndicesStandAlone
  <2>2. env'.arg[u] = Version(Prev(u), prog.max - prog.stage[u])
    BY <1>1, <2>1
  <2>3. Right(u, prog.max - prog.stage[u] - 1, env'.arg[u]) /\ Latest(u)' = prog.max - prog.stage[u]
    BY <1>6, <2>1, <2>2
  <2>4. prog.stage[u] \in Nat /\ prog.max \in Nat /\ trip \in Nat
    BY <2>1, Typed DEF PosInv
  <2>5. trip = prog.max - prog.stage[u]
    BY <1>8, <2>3, <2>4
  <2> QED
    BY <2>3, <2>4, <2>5 DEF Right
<1>9. /\ env' = [cur |-> env'.cur, arg |-> env'.arg, carry |-> env'.carry]
      /\ env'.cur = [u \in Ops(body) |-> env'.cur[u]]
      /\ \A u \in Ops(body) : env'.arg[u] = Version(Prev(u), prog.max - prog.stage[u])
  BY <1>1
<1>10. \A u \in Ops(body) : ~(Place(u) < 1) /\ Right(u, Latest(u)' - 1, env'.arg[u])
  BY <1>6, <1>9
<1>11. KernelFlow'
  BY <1>1, <1>2, <1>3, <1>7, <1>8, <1>9, <1>10 DEF KernelFlow
<1> QED
  BY <1>1, <1>11 DEF FlowInv, EarlyFlow

LEMMA NextTurnFlow ==
  ASSUME OrderIsKept, PrologueIsComplete, ValuesAreCarried, IndicesStandAlone, PosInv, FlowInv, NextTurn
  PROVE  FlowInv'
<1> DEFINE Of(r) == IF r.dist = 0 THEN env.cur[r.def] ELSE env.arg[r.def]
<1>1. /\ UNCHANGED input /\ part = "kernel" /\ part' = part /\ pos' = [i |-> 1, turn |-> pos.turn + 1]
      /\ prog' = prog /\ trip' = trip /\ body' = body /\ source' = source
      /\ pos.i > Len(prog.kernel) /\ pos.turn \in Nat /\ pos.turn < trip /\ trip \in Nat
      /\ env' = [cur |-> [o \in Ops(body) |-> Wrong],
                 arg |-> [o \in Ops(body) |-> IF Past(o) THEN env.arg[o] ELSE env.cur[o]],
                 carry |-> [r \in DOMAIN prog.spans |-> [j \in 1..prog.spans[r] |->
                              IF j = 1 THEN Of(r) ELSE env.carry[r][j - 1]]]]
  BY NextTurnStays, InputSame DEF NextTurn, PosInv
<1>2. \A u, m, w : Right(u, m, w)' = Right(u, m, w)
  BY <1>1, ProgramStays
<1>3. \A u : Place(u)' = Place(u)
  BY <1>1, ProgramStays
<1>4. \A u : Latest(u)' = (pos.turn + 1) + prog.max - prog.stage[u]
  BY <1>1 DEF Latest
<1>5. KernelFlow
  BY DEF FlowInv
<1>6. ASSUME NEW u \in Ops(body)
      PROVE  /\ prog.stage[u] \in Nat /\ prog.max \in Nat /\ prog.stage[u] <= prog.max
             /\ Place(u) \in Nat /\ Place(u) >= 1 /\ Place(u) < pos.i
             /\ Latest(u) = pos.turn + prog.max - prog.stage[u] /\ Latest(u)' = Latest(u) + 1 /\ Latest(u) \in Int
  <2>1. /\ prog.stage[u] \in Nat /\ prog.max \in Nat /\ prog.stage[u] <= prog.max
        /\ Place(u) \in Nat /\ Place(u) >= 1 /\ Place(u) <= Len(prog.kernel) /\ Len(prog.kernel) \in Nat
    BY Typed
  <2>2. pos.i \in Nat
    BY DEF PosInv
  <2>3. Place(u) < pos.i
    BY <1>1, <2>1, <2>2
  <2>4. Latest(u) = pos.turn + prog.max - prog.stage[u]
    BY DEF Latest
  <2>6. Latest(u)' = (pos.turn + 1) + prog.max - prog.stage[u]
    BY <1>4
  <2>7. Latest(u)' = Latest(u) + 1 /\ Latest(u) \in Int
    <3>1. PICK a, b, c : a = pos.turn /\ b = prog.max /\ c = prog.stage[u]
      OBVIOUS
    <3>2. a \in Nat /\ b \in Nat /\ c \in Nat
      BY <2>1, <3>1 DEF PosInv
    <3>3. Latest(u) = a + b - c /\ Latest(u)' = (a + 1) + b - c
      BY <2>4, <2>6, <3>1
    <3> QED
      BY <3>2, <3>3
  <2> QED
    BY <2>1, <2>3, <2>4, <2>7
<1>14. ASSUME NEW u \in Ops(body)
       PROVE  Right(u, Latest(u), env.cur[u]) /\ Right(u, Latest(u) - 1, env.arg[u])
  <2>1. Place(u) < pos.i
    BY <1>6
  <2> QED
    BY <1>1, <1>5, <2>1 DEF KernelFlow
<1>7. ASSUME NEW u \in Ops(body) PROVE Right(u, Latest(u), env'.arg[u])
  <2>1. env'.arg[u] = IF Past(u) THEN env.arg[u] ELSE env.cur[u]
    BY <1>1
  <2>2. CASE ~Past(u)
    BY <1>14, <2>1, <2>2
  <2>3. CASE Past(u)
    <3>1. u \in source.used /\ pos.turn >= trip - (prog.max - prog.stage[u])
      BY <2>3 DEF Past
    <3>2. Kind(u) # "idx"
      BY <3>1 DEF IndicesStandAlone
    <3>3. ~(Latest(u) < trip)
      <4>1. PICK a, b, c, n : a = pos.turn /\ b = prog.max /\ c = prog.stage[u] /\ n = trip
        OBVIOUS
      <4>2. a \in Nat /\ b \in Nat /\ c \in Nat /\ n \in Nat /\ Latest(u) = a + b - c /\ a >= n - (b - c)
        BY <1>1, <1>6, <3>1, <4>1
      <4> QED
        BY <4>1, <4>2
    <3> QED
      BY <3>2, <3>3 DEF Right
  <2> QED
    BY <2>2, <2>3
<1>8. ASSUME NEW r \in DOMAIN prog.spans, NEW j \in 1..prog.spans[r]
      PROVE  Right(r.def, Latest(r.def)' - r.dist - j, env'.carry[r][j])
  <2>1. r.def \in Ops(body) /\ r.dist \in Int /\ (r.dist = 0 \/ r.dist = 1) /\ prog.spans[r] \in Int /\ j \in Int
    BY <1>6 DEF ValuesAreCarried
  <2>2. env'.carry[r][j] = IF j = 1 THEN Of(r) ELSE env.carry[r][j - 1]
    BY <1>1
  <2>3. Latest(r.def)' = Latest(r.def) + 1 /\ Latest(r.def) \in Int
    BY <1>6, <2>1
  <2>4. CASE j = 1 /\ r.dist = 0
    <3>1. Right(r.def, Latest(r.def), env'.carry[r][j])
      BY <1>14, <2>1, <2>2, <2>4
    <3>2. Latest(r.def)' - r.dist - j = Latest(r.def)
      BY <2>3, <2>4
    <3> QED
      BY <3>1, <3>2
  <2>5. CASE j = 1 /\ r.dist = 1
    <3>1. Right(r.def, Latest(r.def) - 1, env'.carry[r][j])
      BY <1>14, <2>1, <2>2, <2>5
    <3>2. Latest(r.def)' - r.dist - j = Latest(r.def) - 1
      BY <2>3, <2>5
    <3> QED
      BY <3>1, <3>2
  <2>6. CASE j # 1
    <3>1. j - 1 \in 1..prog.spans[r]
      BY <2>1, <2>6
    <3>2. Right(r.def, Latest(r.def) - r.dist - (j - 1), env.carry[r][j - 1])
      BY <1>1, <1>5, <3>1 DEF KernelFlow
    <3>3. Latest(r.def)' - r.dist - j = Latest(r.def) - r.dist - (j - 1)
      BY <2>1, <2>3
    <3> QED
      BY <2>2, <2>6, <3>2, <3>3
  <2> QED
    BY <2>1, <2>4, <2>5, <2>6
<1>9. ASSUME NEW u \in source.used, trip >= prog.max - prog.stage[u], Latest(u)' >= trip
      PROVE  env'.arg[u] = trip - 1
  <2>1. u \in Ops(body)
    BY DEF IndicesStandAlone
  <2>2. env'.arg[u] = IF Past(u) THEN env.arg[u] ELSE env.cur[u]
    BY <1>1, <2>1
  <2>3. CASE Latest(u) >= trip
    <3>1. env.arg[u] = trip - 1
      BY <1>1, <1>5, <1>9, <2>3 DEF KernelFlow
    <3>3. prog.stage[u] \in Nat /\ prog.max \in Nat /\ Latest(u) = pos.turn + prog.max - prog.stage[u]
          /\ prog.stage[u] <= prog.max
      BY <1>6, <2>1
    <3>4. prog.stage[u] < prog.max
      BY <1>1, <2>3, <3>3
    <3>5. pos.turn >= trip - (prog.max - prog.stage[u])
      BY <1>1, <2>3, <3>3
    <3>2. Past(u)
      BY <3>4, <3>5 DEF Past
    <3> QED
      BY <2>2, <3>1, <3>2
  <2>4. CASE ~(Latest(u) >= trip)
    <3>1. Latest(u) = trip - 1 /\ Latest(u) < trip
      <4>1. Latest(u) \in Int /\ trip \in Nat /\ Latest(u)' = Latest(u) + 1
        BY <1>6, <2>1 DEF PosInv
      <4> QED
        BY <1>9, <2>4, <4>1
    <3>2. Right(u, Latest(u), env'.arg[u])
      BY <1>7, <2>1
    <3> QED
      BY <3>1, <3>2 DEF Right
  <2> QED
    BY <2>3, <2>4
<1>10. /\ env' = [cur |-> env'.cur, arg |-> env'.arg, carry |-> env'.carry]
       /\ env'.cur = [u \in Ops(body) |-> env'.cur[u]]
  BY <1>1
<1>11. \A u \in Ops(body) : ~(Place(u) < 1) /\ Right(u, Latest(u)' - 1, env'.arg[u])
  <2> TAKE u \in Ops(body)
  <2>1. Latest(u)' - 1 = Latest(u) /\ ~(Place(u) < 1)
    BY <1>6
  <2> QED
    BY <1>7, <2>1
<1>12. pos'.i = 1 /\ part' = "kernel"
  BY <1>1
<1>13. KernelFlow'
  <2>1. \A o \in Ops(body) : /\ (Place(o) < pos.i)' => Right(o, Latest(o), env.cur[o])'
                             /\ Right(o, Latest(o) - 1, env.arg[o])'
    BY <1>2, <1>3, <1>11, <1>12
  <2>2. \A r \in DOMAIN prog.spans : \A j \in 1..prog.spans[r] :
          Right(r.def, Latest(r.def) - r.dist - j, env.carry[r][j])'
    BY <1>2, <1>8
  <2>3. (\A o \in source.used : trip >= prog.max - prog.stage[o] /\ Latest(o) >= trip => env.arg[o] = trip - 1)'
    BY <1>1, <1>9
  <2>4. part' # "done" /\ Ops(body)' = Ops(body)
    BY <1>1, <1>12
  <2> QED
    BY <1>1, <1>10, <2>1, <2>2, <2>3, <2>4 DEF KernelFlow
<1> QED
  BY <1>1, <1>13 DEF FlowInv, EarlyFlow

-----------------------------------------------------------------------------
(***************************************************************************)
(* Counting: the commits, and the dots, that are before a place.           *)
(***************************************************************************)
LEMMA StaticStays ==
  ASSUME UNCHANGED input
  PROVE  /\ Steps' = Steps /\ Early' = Early
         /\ \A l, n : Buffer(l, n)' = Buffer(l, n)
         /\ \A l : GroupOf(l)' = GroupOf(l)
         /\ \A c : ExpectOf(c)' = ExpectOf(c)
         /\ \A g : Owed(g)' = Owed(g)
         /\ \A o : IsAsync(o)' = IsAsync(o)
         /\ \A t, i : CommitsBefore(t, i)' = CommitsBefore(t, i)
         /\ \A t, i : DotsBefore(t, i)' = DotsBefore(t, i)
         /\ \A c, k : CommitNumber(c, k)' = CommitNumber(c, k)
         /\ \A c, k, t, i : LandsBy(c, k, t, i)' <=> LandsBy(c, k, t, i)
         /\ \A d, k, t, i : RetiresBy(d, k, t, i)' <=> RetiresBy(d, k, t, i)
<1>0. prog' = prog /\ body' = body
  BY InputSame
<1>1. Steps' = Steps /\ Early' = Early
  BY <1>0 DEF Steps, Early
<1>2. \A l, n : Buffer(l, n)' = Buffer(l, n)
  BY <1>0 DEF Buffer
<1>3. \A l : GroupOf(l)' = GroupOf(l)
  BY <1>0 DEF GroupOf
<1>4. /\ \A c : ExpectOf(c)' = ExpectOf(c)
      /\ \A g : Owed(g)' = Owed(g)
  BY <1>0, <1>3 DEF ExpectOf, Owed
<1>5. \A o : IsAsync(o)' = IsAsync(o)
  BY <1>0 DEF IsAsync
<1>6. \A t, i : CommitsBefore(t, i)' = CommitsBefore(t, i)
  BY <1>0 DEF CommitsBefore, EarlyCommits, KernelCommits, Early, Turn, Place, Position
<1>7. \A t, i : DotsBefore(t, i)' = DotsBefore(t, i)
  BY <1>0 DEF DotsBefore, KernelDots, IsAsync
<1>8. (\A o : Place(o)' = Place(o)) /\ (\A o, k : Turn(o, k)' = Turn(o, k))
  BY ProgramStays
<1>9. \A c, k : CommitNumber(c, k)' = CommitNumber(c, k)
  BY <1>6, <1>8 DEF CommitNumber
<1>10. \A t, i : GroupsLeft(t, i)' = GroupsLeft(t, i)
  BY <1>0 DEF GroupsLeft, Early, Turn
<1>11. \A c, k, t, i : LandsBy(c, k, t, i)' <=> LandsBy(c, k, t, i)
  BY <1>0, <1>1, <1>6, <1>8, <1>9, <1>10 DEF LandsBy, Before
<1>12. \A i : DotsLeft(i)' = DotsLeft(i)
  BY <1>0 DEF DotsLeft
<1>13. \A d, k, t, i : RetiresBy(d, k, t, i)' <=> RetiresBy(d, k, t, i)
  BY <1>0, <1>1, <1>7, <1>8, <1>12 DEF RetiresBy, Before
<1> QED
  BY <1>1, <1>2, <1>3, <1>4, <1>5, <1>6, <1>7, <1>9, <1>11, <1>13

\* A finite set of places.
LEMMA PlacesAreFinite ==
  ASSUME NEW n \in Nat, NEW S \in SUBSET (1..n)
  PROVE  IsFiniteSet(S) /\ Cardinality(S) \in Nat
<1>1. IsFiniteSet(1..n)
  BY FS_Interval
<1> QED
  BY <1>1, FS_Subset, FS_CardinalityType

LEMMA OneMorePlace ==
  ASSUME NEW n \in Nat, NEW S \in SUBSET (1..n), NEW x, x \notin S
  PROVE  Cardinality(S \cup {x}) = Cardinality(S) + 1
BY PlacesAreFinite, FS_AddElement

LEMMA EarlyCommitsTyped ==
  ASSUME OrderIsKept, PrologueIsComplete, NEW t, NEW i
  PROVE  /\ EarlyCommits(t, i) \in SUBSET (1..Len(prog.prologue)) /\ Len(prog.prologue) \in Nat
         /\ Cardinality(EarlyCommits(t, i)) \in Nat
<1>1. EarlyCommits(t, i) \in SUBSET (1..Len(prog.prologue)) /\ Len(prog.prologue) \in Nat
  BY DEF EarlyCommits, PrologueIsComplete, Early
<1> QED
  BY <1>1, PlacesAreFinite

LEMMA KernelCommitsTyped ==
  ASSUME OrderIsKept, NEW i \in Nat, i <= Len(prog.kernel) + 1, i >= 1
  PROVE  /\ KernelCommits(i) \in SUBSET (1..Len(prog.kernel)) /\ Len(prog.kernel) \in Nat
         /\ Cardinality(KernelCommits(i)) \in Nat
<1>1. KernelCommits(i) \in SUBSET (1..Len(prog.kernel)) /\ Len(prog.kernel) \in Nat
  BY Typed DEF KernelCommits
<1> QED
  BY <1>1, PlacesAreFinite

LEMMA KernelDotsTyped ==
  ASSUME OrderIsKept, NEW i \in Nat, i <= Len(prog.kernel) + 1, i >= 1
  PROVE  /\ KernelDots(i) \in SUBSET (1..Len(prog.kernel)) /\ Len(prog.kernel) \in Nat
         /\ Cardinality(KernelDots(i)) \in Nat
<1>1. KernelDots(i) \in SUBSET (1..Len(prog.kernel)) /\ Len(prog.kernel) \in Nat
  BY Typed DEF KernelDots
<1> QED
  BY <1>1, PlacesAreFinite

\* One place on in the kernel.
LEMMA KernelCommitsNext ==
  ASSUME OrderIsKept, NEW i \in Steps
  PROVE  Cardinality(KernelCommits(i + 1)) = Cardinality(KernelCommits(i)) + (IF IsCommit(prog.kernel[i]) THEN 1 ELSE 0)
<1>1. i \in Nat /\ i >= 1 /\ i <= Len(prog.kernel) /\ Len(prog.kernel) \in Nat
  BY Typed DEF Steps
<1>2. KernelCommits(i) \in SUBSET (1..Len(prog.kernel)) /\ i \notin KernelCommits(i) /\ Cardinality(KernelCommits(i)) \in Nat
  BY <1>1, KernelCommitsTyped DEF KernelCommits
<1>3. KernelCommits(i + 1) = IF IsCommit(prog.kernel[i]) THEN KernelCommits(i) \cup {i} ELSE KernelCommits(i)
  <2>1. \A j : j \in 1..((i + 1) - 1) <=> j \in 1..(i - 1) \/ j = i
    BY <1>1
  <2> QED
    BY <2>1 DEF KernelCommits
<1>4. Cardinality(KernelCommits(i) \cup {i}) = Cardinality(KernelCommits(i)) + 1
  BY <1>1, <1>2, OneMorePlace
<1> QED
  BY <1>2, <1>3, <1>4

LEMMA KernelDotsNext ==
  ASSUME OrderIsKept, NEW i \in Steps
  PROVE  Cardinality(KernelDots(i + 1)) = Cardinality(KernelDots(i)) + (IF IsAsync(prog.kernel[i]) THEN 1 ELSE 0)
<1>1. i \in Nat /\ i >= 1 /\ i <= Len(prog.kernel) /\ Len(prog.kernel) \in Nat
  BY Typed DEF Steps
<1>2. KernelDots(i) \in SUBSET (1..Len(prog.kernel)) /\ i \notin KernelDots(i) /\ Cardinality(KernelDots(i)) \in Nat
  BY <1>1, KernelDotsTyped DEF KernelDots
<1>3. KernelDots(i + 1) = IF IsAsync(prog.kernel[i]) THEN KernelDots(i) \cup {i} ELSE KernelDots(i)
  <2>1. \A j : j \in 1..((i + 1) - 1) <=> j \in 1..(i - 1) \/ j = i
    BY <1>1
  <2> QED
    BY <2>1 DEF KernelDots
<1>4. Cardinality(KernelDots(i) \cup {i}) = Cardinality(KernelDots(i)) + 1
  BY <1>1, <1>2, OneMorePlace
<1> QED
  BY <1>2, <1>3, <1>4

LEMMA NoneAtFirst ==
  ASSUME OrderIsKept
  PROVE  Cardinality(KernelCommits(1)) = 0 /\ Cardinality(KernelDots(1)) = 0
<1>1. KernelCommits(1) = {} /\ KernelDots(1) = {}
  BY DEF KernelCommits, KernelDots
<1> QED
  BY <1>1, FS_EmptySet

\* What a whole turn of the kernel commits, and issues.
PerTurn == Cardinality(KernelCommits(Len(prog.kernel) + 1))
DotsPerTurn == Cardinality(KernelDots(Len(prog.kernel) + 1))

LEMMA PerTurnTyped ==
  ASSUME OrderIsKept
  PROVE  PerTurn \in Nat /\ DotsPerTurn \in Nat
<1>1. Len(prog.kernel) + 1 \in Nat /\ Len(prog.kernel) + 1 >= 1
  BY Typed
<1> QED
  BY <1>1, KernelCommitsTyped, KernelDotsTyped DEF PerTurn, DotsPerTurn

LEMMA CommitsInKernel ==
  ASSUME OrderIsKept, PrologueIsComplete, NEW t \in Nat, NEW i \in Nat, i >= 1, i <= Len(prog.kernel) + 1
  PROVE  /\ CommitsBefore(t, i) = Cardinality(EarlyCommits(0, 1)) + t * PerTurn + Cardinality(KernelCommits(i))
         /\ Cardinality(EarlyCommits(0, 1)) \in Nat /\ t * PerTurn \in Nat /\ Cardinality(KernelCommits(i)) \in Nat
<1>1. ~(t < 0)
  OBVIOUS
<1>2. t * PerTurn \in Nat
  BY PerTurnTyped
<1> QED
  BY <1>1, <1>2, EarlyCommitsTyped, KernelCommitsTyped DEF CommitsBefore, PerTurn

LEMMA DotsInKernel ==
  ASSUME OrderIsKept, NEW t \in Nat, NEW i \in Nat, i >= 1, i <= Len(prog.kernel) + 1
  PROVE  /\ DotsBefore(t, i) = t * DotsPerTurn + Cardinality(KernelDots(i))
         /\ t * DotsPerTurn \in Nat /\ Cardinality(KernelDots(i)) \in Nat
<1>2. t * DotsPerTurn \in Nat
  BY PerTurnTyped
<1> QED
  BY <1>2, KernelDotsTyped DEF DotsBefore, DotsPerTurn

LEMMA CommitsTyped ==
  ASSUME OrderIsKept, PrologueIsComplete, NEW t \in Int, NEW i \in Nat, i >= 1, i <= Len(prog.kernel) + 1
  PROVE  CommitsBefore(t, i) \in Nat
<1>1. CASE t < 0
  BY <1>1, EarlyCommitsTyped DEF CommitsBefore
<1>2. CASE ~(t < 0)
  <2>1. t \in Nat
    BY <1>2
  <2>2. /\ CommitsBefore(t, i) = Cardinality(EarlyCommits(0, 1)) + t * PerTurn + Cardinality(KernelCommits(i))
        /\ Cardinality(EarlyCommits(0, 1)) \in Nat /\ t * PerTurn \in Nat /\ Cardinality(KernelCommits(i)) \in Nat
    BY <2>1, CommitsInKernel
  <2> QED
    BY <2>2
<1> QED
  BY <1>1, <1>2

LEMMA Distributes ==
  ASSUME NEW a \in Int, NEW b \in Int, NEW c \in Int
  PROVE  (a + b) * c = a * c + b * c /\ a * c \in Int /\ b * c \in Int
OBVIOUS

\* How many groups have been committed, and dots issued, after a step.
LEMMA CountsAfter ==
  ASSUME UNCHANGED input
  PROVE  Committed' = CommitsBefore(NowTurn', NowPlace') /\ Issued' = DotsBefore(NowTurn', NowPlace')
BY StaticStays DEF Committed, Issued

LEMMA CountsSame ==
  ASSUME UNCHANGED input, NowTurn' = NowTurn, NowPlace' = NowPlace
  PROVE  Committed' = Committed /\ Issued' = Issued
BY CountsAfter DEF Committed, Issued

LEMMA NowInKernel ==
  ASSUME OrderIsKept, PrologueIsComplete, PosInv, part # "prologue"
  PROVE  /\ NowTurn = pos.turn /\ NowPlace = pos.i /\ pos.turn \in Nat /\ pos.i \in Nat
         /\ pos.i >= 1 /\ pos.i <= Len(prog.kernel) + 1
         /\ Committed = Cardinality(EarlyCommits(0, 1)) + pos.turn * PerTurn + Cardinality(KernelCommits(pos.i))
         /\ Issued = pos.turn * DotsPerTurn + Cardinality(KernelDots(pos.i))
<1>1. /\ NowTurn = pos.turn /\ NowPlace = pos.i /\ pos.turn \in Nat /\ pos.i \in Nat
      /\ pos.i >= 1 /\ pos.i <= Len(prog.kernel) + 1
  BY NowTyped DEF PosInv
<1> QED
  BY <1>1, CommitsInKernel, DotsInKernel DEF Committed, Issued

LEMMA CommittedTyped ==
  ASSUME OrderIsKept, PrologueIsComplete, PosInv
  PROVE  Committed \in Nat
<1>1. CASE part # "prologue"
  <2>1. /\ pos.turn \in Nat /\ pos.i \in Nat /\ pos.i >= 1 /\ pos.i <= Len(prog.kernel) + 1
        /\ Committed = CommitsBefore(pos.turn, pos.i)
    BY <1>1, NowInKernel DEF Committed
  <2>2. PICK t, i : t = pos.turn /\ i = pos.i
    OBVIOUS
  <2>3. t \in Int /\ i \in Nat /\ i >= 1 /\ i <= Len(prog.kernel) + 1
    BY <2>1, <2>2
  <2>4. CommitsBefore(t, i) \in Nat
    BY <2>3, CommitsTyped
  <2> QED
    BY <2>1, <2>2, <2>4
<1>2. CASE part = "prologue"
  <2>1. NowTurn \in Int /\ (NowTurn < 0 \/ (NowTurn = 0 /\ NowPlace = 1))
    BY <1>2, NowTyped
  <2>2. CASE NowTurn < 0
    BY <2>2, EarlyCommitsTyped DEF Committed, CommitsBefore
  <2>3. CASE NowTurn = 0 /\ NowPlace = 1
    <3>1. 1 \in Nat /\ 0 \in Int /\ 1 >= 1 /\ 1 <= Len(prog.kernel) + 1
      BY Typed
    <3> QED
      BY <2>3, <3>1, CommitsTyped DEF Committed
  <2> QED
    BY <2>1, <2>2, <2>3
<1> QED
  BY <1>1, <1>2

LEMMA KernelCounts ==
  ASSUME OrderIsKept, PrologueIsComplete, PosInv, part = "kernel", pos.i \in Steps, UNCHANGED input,
         NowTurn' = NowTurn, NowPlace' = NowPlace + 1
  PROVE  /\ Committed' = Committed + (IF IsCommit(prog.kernel[pos.i]) THEN 1 ELSE 0)
         /\ Issued' = Issued + (IF IsAsync(prog.kernel[pos.i]) THEN 1 ELSE 0)
<1>1. /\ NowTurn = pos.turn /\ NowPlace = pos.i /\ pos.turn \in Nat /\ pos.i \in Nat
      /\ pos.i >= 1 /\ pos.i <= Len(prog.kernel) /\ Len(prog.kernel) \in Nat
      /\ Committed = Cardinality(EarlyCommits(0, 1)) + pos.turn * PerTurn + Cardinality(KernelCommits(pos.i))
      /\ Issued = pos.turn * DotsPerTurn + Cardinality(KernelDots(pos.i))
  BY NowInKernel, Typed DEF Steps
<1>2. PICK t, i : t = pos.turn /\ i = pos.i
  OBVIOUS
<1>3. t \in Nat /\ i + 1 \in Nat /\ i + 1 >= 1 /\ i + 1 <= Len(prog.kernel) + 1 /\ i \in Steps
  BY <1>1, <1>2
<1>4. Committed' = CommitsBefore(t, i + 1) /\ Issued' = DotsBefore(t, i + 1)
  BY <1>1, <1>2, CountsAfter
<1>5. /\ Committed' = Cardinality(EarlyCommits(0, 1)) + t * PerTurn + Cardinality(KernelCommits(i + 1))
      /\ Issued' = t * DotsPerTurn + Cardinality(KernelDots(i + 1))
      /\ Cardinality(EarlyCommits(0, 1)) \in Nat /\ t * PerTurn \in Nat /\ t * DotsPerTurn \in Nat
  BY <1>3, <1>4, CommitsInKernel, DotsInKernel
<1>6. /\ Cardinality(KernelCommits(i + 1)) = Cardinality(KernelCommits(i)) + (IF IsCommit(prog.kernel[i]) THEN 1 ELSE 0)
      /\ Cardinality(KernelDots(i + 1)) = Cardinality(KernelDots(i)) + (IF IsAsync(prog.kernel[i]) THEN 1 ELSE 0)
  BY <1>3, KernelCommitsNext, KernelDotsNext
<1>7. Cardinality(KernelCommits(i)) \in Nat /\ Cardinality(KernelDots(i)) \in Nat
  BY <1>1, <1>2, KernelCommitsTyped, KernelDotsTyped
<1>10. /\ Committed = Cardinality(EarlyCommits(0, 1)) + t * PerTurn + Cardinality(KernelCommits(i))
       /\ Issued = t * DotsPerTurn + Cardinality(KernelDots(i))
  BY <1>1, <1>2
<1>11. Cardinality(EarlyCommits(0, 1)) \in Nat /\ t * PerTurn \in Nat /\ t * DotsPerTurn \in Nat
  BY <1>5
<1>12. /\ Committed' = Cardinality(EarlyCommits(0, 1)) + t * PerTurn + Cardinality(KernelCommits(i + 1))
       /\ Issued' = t * DotsPerTurn + Cardinality(KernelDots(i + 1))
  BY <1>5
<1>8. Committed' = Committed + (IF IsCommit(prog.kernel[i]) THEN 1 ELSE 0)
  BY <1>6, <1>7, <1>10, <1>11, <1>12
<1>9. Issued' = Issued + (IF IsAsync(prog.kernel[i]) THEN 1 ELSE 0)
  BY <1>6, <1>7, <1>10, <1>11, <1>12
<1> QED
  BY <1>2, <1>8, <1>9

LEMMA NextTurnCounts ==
  ASSUME OrderIsKept, PrologueIsComplete, PosInv, NextTurn
  PROVE  Committed' = Committed /\ Issued' = Issued
<1>1. /\ UNCHANGED input /\ NowTurn' = pos.turn + 1 /\ NowPlace' = 1 /\ pos.turn \in Nat
      /\ NowPlace = Len(prog.kernel) + 1 /\ part = "kernel" /\ pos.i = Len(prog.kernel) + 1
  BY NextTurnStays, NowTyped DEF NextTurn
<1>2. PICK t : t = pos.turn
  OBVIOUS
<1>3. Committed' = CommitsBefore(t + 1, 1) /\ Issued' = DotsBefore(t + 1, 1)
  BY <1>1, <1>2, CountsAfter
<1>4. t + 1 \in Nat /\ 1 \in Nat /\ 1 >= 1 /\ 1 <= Len(prog.kernel) + 1 /\ t \in Nat
  BY <1>1, <1>2, Typed
<1>5. /\ Committed' = Cardinality(EarlyCommits(0, 1)) + (t + 1) * PerTurn + Cardinality(KernelCommits(1))
      /\ Issued' = (t + 1) * DotsPerTurn + Cardinality(KernelDots(1))
      /\ Cardinality(EarlyCommits(0, 1)) \in Nat
  BY <1>3, <1>4, CommitsInKernel, DotsInKernel
<1>6. /\ Committed = Cardinality(EarlyCommits(0, 1)) + t * PerTurn + PerTurn
      /\ Issued = t * DotsPerTurn + DotsPerTurn
  BY <1>1, <1>2, NowInKernel DEF PerTurn, DotsPerTurn
<1>7. /\ PerTurn \in Nat /\ DotsPerTurn \in Nat
      /\ Cardinality(KernelCommits(1)) = 0 /\ Cardinality(KernelDots(1)) = 0
  BY PerTurnTyped, NoneAtFirst
<1>8. /\ (t + 1) * PerTurn = t * PerTurn + PerTurn /\ t * PerTurn \in Int
      /\ (t + 1) * DotsPerTurn = t * DotsPerTurn + DotsPerTurn /\ t * DotsPerTurn \in Int
  BY <1>4, <1>7
<1> QED
  BY <1>5, <1>6, <1>7, <1>8

LEMMA PrologueCommits ==
  ASSUME OrderIsKept, PrologueIsComplete, PosInv, part = "prologue",
         NEW v, Give(v), NEW kinds, At(kinds), "dotwait" \notin kinds
  PROVE  Committed' = Committed + (IF IsCommit(Instr.op) THEN 1 ELSE 0)
<1>1. /\ Advances(Instr.op, Instr.it) /\ UNCHANGED input /\ part' = "prologue" /\ pos'.i = pos.i + 1
      /\ pos.i \in Early /\ Instr.op = prog.prologue[pos.i].op /\ Instr.it = prog.prologue[pos.i].it
      /\ NowTurn < 0 /\ NowTurn \in Int
  BY InstrIsNow, GiveAdvances, PosAfterGive, NowTyped
<1>2. PICK n, t, i : n = pos.i /\ t = NowTurn' /\ i = NowPlace'
  OBVIOUS
<1>3. t < 0 \/ (t = 0 /\ i = 1)
  <2>1. n + 1 <= Len(prog.prologue) => n + 1 \in Early
    BY <1>1, <1>2 DEF Early, PrologueIsComplete
  <2> QED
    BY <1>1, <1>2, <2>1, NowAfter, EarlyTyped
<1>4. Committed' = Cardinality(EarlyCommits(t, i))
  <2>1. Committed' = CommitsBefore(t, i)
    BY <1>1, <1>2, CountsAfter
  <2>2. CASE t < 0
    BY <2>1, <2>2 DEF CommitsBefore
  <2>3. CASE t = 0 /\ i = 1
    <3>1. 0 \in Nat /\ 1 \in Nat /\ 1 >= 1 /\ 1 <= Len(prog.kernel) + 1
      BY Typed
    <3>2. CommitsBefore(0, 1) = Cardinality(EarlyCommits(0, 1)) + 0 * PerTurn + Cardinality(KernelCommits(1))
          /\ Cardinality(EarlyCommits(0, 1)) \in Nat
      BY <3>1, CommitsInKernel
    <3>3. 0 * PerTurn = 0 /\ Cardinality(KernelCommits(1)) = 0
      BY PerTurnTyped, NoneAtFirst
    <3> QED
      BY <2>1, <2>3, <3>2, <3>3
  <2> QED
    BY <1>3, <2>2, <2>3
<1>5. Committed = Cardinality(EarlyCommits(NowTurn, NowPlace))
  BY <1>1 DEF Committed, CommitsBefore
<1>6. ASSUME NEW j \in Early
      PROVE  /\ Before(Turn(prog.prologue[j].op, prog.prologue[j].it), Place(prog.prologue[j].op), t, i)
                 <=> (Before(Turn(prog.prologue[j].op, prog.prologue[j].it), Place(prog.prologue[j].op), NowTurn, NowPlace)
                      \/ j = n)
             /\ j = n => ~Before(Turn(prog.prologue[j].op, prog.prologue[j].it), Place(prog.prologue[j].op), NowTurn, NowPlace)
  <2>1. PICK u, m : u = prog.prologue[j].op /\ m = prog.prologue[j].it
    OBVIOUS
  <2>2. u \in Ops(body) /\ m \in Nat
    BY <2>1, EarlyTyped
  <2>3. Ran(u, m)' <=> Before(Turn(u, m), Place(u), t, i)
    BY <1>1, <1>2, <2>2, RanAfter
  <2>4. Ran(u, m) <=> Before(Turn(u, m), Place(u), NowTurn, NowPlace)
    BY <2>2 DEF Ran, Reached
  <2>5. Ran(u, m)' <=> (Ran(u, m) \/ (u = Instr.op /\ m = Instr.it))
    BY <1>1, <2>2 DEF Advances
  <2>6. u = Instr.op /\ m = Instr.it => j = n
    <3> HAVE u = Instr.op /\ m = Instr.it
    <3>1. prog.prologue[n].op = u /\ prog.prologue[n].it = m
      BY <1>1, <1>2
    <3>2. Turn(u, m) \in Int /\ Place(u) \in Int
      BY <2>2, TurnIs
    <3>3. ~Before(Turn(u, m), Place(u), Turn(u, m), Place(u))
      BY <3>2 DEF Before
    <3>4. ~(j < n) /\ ~(n < j)
      BY <1>1, <1>2, <2>1, <3>1, <3>3, EarlyOrder
    <3> QED
      BY <1>1, <1>2, <3>4 DEF Early, PrologueIsComplete
  <2>7. j = n => u = Instr.op /\ m = Instr.it
    BY <1>1, <1>2, <2>1
  <2>8. j = n => ~Ran(u, m)
    <3>1. Running(Instr.op, Instr.it) /\ Instr.it \in Int
      BY InstrIsNow DEF Running
    <3> QED
      BY <2>7, <3>1, RunningIsNew
  <2> QED
    BY <2>1, <2>3, <2>4, <2>5, <2>6, <2>7, <2>8
<1>7. /\ EarlyCommits(t, i) = IF IsCommit(Instr.op) THEN EarlyCommits(NowTurn, NowPlace) \cup {n}
                              ELSE EarlyCommits(NowTurn, NowPlace)
      /\ n \notin EarlyCommits(NowTurn, NowPlace)
  <2>1. n \in Early /\ IsCommit(prog.prologue[n].op) = IsCommit(Instr.op)
    BY <1>1, <1>2
  <2> QED
    BY <1>6, <2>1 DEF EarlyCommits
<1>8. Cardinality(EarlyCommits(NowTurn, NowPlace) \cup {n}) = Cardinality(EarlyCommits(NowTurn, NowPlace)) + 1
  BY <1>7, EarlyCommitsTyped, OneMorePlace
<1>9. Cardinality(EarlyCommits(NowTurn, NowPlace)) \in Nat
  BY EarlyCommitsTyped
<1> QED
  BY <1>4, <1>5, <1>7, <1>8, <1>9

LEMMA GiveCommits ==
  ASSUME OrderIsKept, PrologueIsComplete, PosInv,
         NEW v, Give(v), NEW kinds, At(kinds), "dotwait" \notin kinds
  PROVE  /\ Committed' = Committed + (IF IsCommit(Instr.op) THEN 1 ELSE 0)
         /\ part # "prologue" => Issued' = Issued + (IF IsAsync(Instr.op) THEN 1 ELSE 0)
<1>1. CASE part = "prologue"
  BY <1>1, PrologueCommits
<1>2. CASE part # "prologue"
  <2>1. /\ part = "kernel" /\ pos.i \in Steps /\ UNCHANGED input /\ Instr.op = prog.kernel[pos.i]
        /\ NowTurn' = NowTurn /\ NowPlace' = NowPlace + 1
    BY <1>2, InstrIsNow, PosAfterGive, NowAfter, NowTyped
  <2> QED
    BY <1>2, <2>1, KernelCounts
<1> QED
  BY <1>1, <1>2

-----------------------------------------------------------------------------
(***************************************************************************)
(* What the schedule is asked for up to the largest stage is so for every  *)
(* iteration: n turns on, everything is as it was n turns before.          *)
(***************************************************************************)
\* n turns on, the kernel has committed, and issued, n turns' more.
LEMMA CommitsShift ==
  ASSUME OrderIsKept, PrologueIsComplete, NEW t \in Nat, NEW n \in Nat, NEW i \in Nat, i >= 1, i <= Len(prog.kernel) + 1
  PROVE  CommitsBefore(t + n, i) = CommitsBefore(t, i) + n * PerTurn
         /\ CommitsBefore(t, i) \in Nat /\ n * PerTurn \in Nat
<1>1. /\ CommitsBefore(t, i) = Cardinality(EarlyCommits(0, 1)) + t * PerTurn + Cardinality(KernelCommits(i))
      /\ Cardinality(EarlyCommits(0, 1)) \in Nat /\ t * PerTurn \in Nat /\ Cardinality(KernelCommits(i)) \in Nat
  BY CommitsInKernel
<1>2. t + n \in Nat
  OBVIOUS
<1>3. CommitsBefore(t + n, i) = Cardinality(EarlyCommits(0, 1)) + (t + n) * PerTurn + Cardinality(KernelCommits(i))
  BY <1>2, CommitsInKernel
<1>4. PerTurn \in Nat
  BY PerTurnTyped
<1>5. (t + n) * PerTurn = t * PerTurn + n * PerTurn /\ n * PerTurn \in Nat
  BY <1>4
<1> QED
  BY <1>1, <1>3, <1>5

LEMMA DotsShift ==
  ASSUME OrderIsKept, NEW t \in Nat, NEW n \in Nat, NEW i \in Nat, i >= 1, i <= Len(prog.kernel) + 1
  PROVE  DotsBefore(t + n, i) = DotsBefore(t, i) + n * DotsPerTurn
         /\ DotsBefore(t, i) \in Nat /\ n * DotsPerTurn \in Nat
<1>1. /\ DotsBefore(t, i) = t * DotsPerTurn + Cardinality(KernelDots(i))
      /\ t * DotsPerTurn \in Nat /\ Cardinality(KernelDots(i)) \in Nat
  BY DotsInKernel
<1>2. t + n \in Nat
  OBVIOUS
<1>3. DotsBefore(t + n, i) = (t + n) * DotsPerTurn + Cardinality(KernelDots(i))
  BY <1>2, DotsInKernel
<1>4. DotsPerTurn \in Nat
  BY PerTurnTyped
<1>5. (t + n) * DotsPerTurn = t * DotsPerTurn + n * DotsPerTurn /\ n * DotsPerTurn \in Nat
  BY <1>4
<1> QED
  BY <1>1, <1>3, <1>5

LEMMA BeforeShift ==
  ASSUME NEW t \in Int, NEW i \in Int, NEW u \in Int, NEW j \in Int, NEW n \in Int
  PROVE  Before(t + n, i, u + n, j) <=> Before(t, i, u, j)
BY DEF Before

LEMMA RetiresShift ==
  ASSUME OrderIsKept, NEW d \in Ops(body), NEW k \in Nat, NEW t \in Nat, NEW i, RetiresBy(d, 0, t, i),
         Len(prog.async) \in Nat
  PROVE  RetiresBy(d, k, t + k, i)
<1>1. /\ i \in Nat /\ i >= 1 /\ i <= Len(prog.kernel) + 1 /\ Place(d) \in Nat /\ Place(d) >= 1
      /\ Place(d) <= Len(prog.kernel) + 1 /\ i \in Steps /\ 0 \in Nat
  BY Typed DEF RetiresBy, Steps
<1>2. /\ DotsBefore(t + k, i) = DotsBefore(t, i) + k * DotsPerTurn
      /\ DotsBefore(0 + k, Place(d)) = DotsBefore(0, Place(d)) + k * DotsPerTurn
      /\ DotsBefore(t, i) \in Nat /\ DotsBefore(0, Place(d)) \in Nat /\ k * DotsPerTurn \in Nat
  BY <1>1, DotsShift
<1>3. 0 + k = k
  OBVIOUS
<1>4. Before(k, Place(d), t + k, i)
  <2>1. Before(0, Place(d), t, i)
    BY DEF RetiresBy
  <2> QED
    BY <1>1, <2>1 DEF Before
<1>5. DotsLeft(i) \in Nat
  BY DEF DotsLeft
<1>6. 1 + DotsBefore(k, Place(d)) + DotsLeft(i) <= DotsBefore(t + k, i)
  <2>1. 1 + DotsBefore(0, Place(d)) + DotsLeft(i) <= DotsBefore(t, i)
    BY DEF RetiresBy
  <2> QED
    BY <1>2, <1>3, <1>5, <2>1
<1> QED
  BY <1>1, <1>4, <1>6 DEF RetiresBy

LEMMA LandsShift ==
  ASSUME OrderIsKept, PrologueIsComplete, NEW c \in Ops(body), CommitOf(c) \in Ops(body),
         NEW n \in Nat, NEW t \in Int, NEW i, LandsInTime(c, prog.max, t, i), prog.buffers \in Nat
  PROVE  t + n \in Nat /\ LandsInTime(c, prog.max + n, t + n, i)
<1>1. /\ prog.max \in Nat /\ i \in Nat /\ i >= 1 /\ i <= Len(prog.kernel) + 1 /\ i \in Steps
      /\ Place(CommitOf(c)) \in Nat /\ Place(CommitOf(c)) >= 1 /\ Place(CommitOf(c)) <= Len(prog.kernel) + 1
      /\ Place(c) \in Int
  BY Typed DEF LandsInTime, LandsBy, Steps
<1>2. PICK m, a : m = prog.max /\ a = Turn(CommitOf(c), m)
  OBVIOUS
<1>3. m \in Nat /\ m + n \in Nat
  BY <1>1, <1>2
<1>4. a \in Nat /\ Turn(CommitOf(c), m + n) = a + n
  <2>1. prog.stage[CommitOf(c)] \in Nat /\ a = m + prog.stage[CommitOf(c)] - prog.max
        /\ Turn(CommitOf(c), m + n) = (m + n) + prog.stage[CommitOf(c)] - prog.max
    <3>1. PICK l : l = m + n
      OBVIOUS
    <3>2. l \in Int /\ m \in Int
      BY <1>3, <3>1
    <3>3. Turn(CommitOf(c), l) = l + prog.stage[CommitOf(c)] - prog.max
      BY <3>2, TurnIs
    <3>4. a = m + prog.stage[CommitOf(c)] - prog.max
      BY <1>2, <3>2, TurnIs
    <3> QED
      BY <3>1, <3>3, <3>4, Typed
  <2> QED
    BY <1>2, <1>3, <2>1
<1>5. Before(a, Place(CommitOf(c)), t, i)
  BY <1>2 DEF LandsInTime, LandsBy
<1>6. t \in Nat
  BY <1>1, <1>4, <1>5 DEF Before
<1>7. /\ CommitsBefore(t + n, i) = CommitsBefore(t, i) + n * PerTurn
      /\ CommitsBefore(a + n, Place(CommitOf(c))) = CommitsBefore(a, Place(CommitOf(c))) + n * PerTurn
      /\ CommitsBefore(t, i) \in Nat /\ CommitsBefore(a, Place(CommitOf(c))) \in Nat /\ n * PerTurn \in Nat
  <2>1. /\ CommitsBefore(t + n, i) = CommitsBefore(t, i) + n * PerTurn
        /\ CommitsBefore(t, i) \in Nat /\ n * PerTurn \in Nat
    BY <1>1, <1>6, CommitsShift
  <2>2. PICK p : p = Place(CommitOf(c))
    OBVIOUS
  <2>3. p \in Nat /\ p >= 1 /\ p <= Len(prog.kernel) + 1
    BY <1>1, <2>2
  <2>4. /\ CommitsBefore(a + n, p) = CommitsBefore(a, p) + n * PerTurn
        /\ CommitsBefore(a, p) \in Nat
    <3>1. a \in Nat
      BY <1>4
    <3> QED
      BY <3>1, <2>3, CommitsShift
  <2>5. CommitsBefore(a + n, Place(CommitOf(c))) = CommitsBefore(a + n, p)
        /\ CommitsBefore(a, Place(CommitOf(c))) = CommitsBefore(a, p)
    BY <2>2
  <2> QED
    BY <2>1, <2>4, <2>5
<1>8. LandsBy(c, m + n, t + n, i)
  <2>1. /\ Kind(prog.kernel[i]) = "wait" /\ t >= Turn(prog.kernel[i], 0)
        /\ GroupsLeft(t, i) \in Nat /\ CommitNumber(c, m) + GroupsLeft(t, i) <= CommitsBefore(t, i)
    BY <1>2 DEF LandsInTime, LandsBy
  <2>2. prog.kernel[i] \in Ops(body)
    BY <1>1, <2>1 DEF OrderIsKept
  <2>3. Turn(prog.kernel[i], 0) \in Int
    BY <2>2, TurnIs
  <2>4. t + n >= Turn(prog.kernel[i], 0)
    BY <1>6, <2>1, <2>3
  <2>5. GroupsLeft(t + n, i) = GroupsLeft(t, i)
    BY <1>6 DEF GroupsLeft
  <2>6. Before(a + n, Place(CommitOf(c)), t + n, i)
    BY <1>1, <1>4, <1>5, <1>6 DEF Before
  <2>7. CommitNumber(c, m + n) = CommitNumber(c, m) + n * PerTurn
    BY <1>2, <1>4, <1>7 DEF CommitNumber
  <2>8. CommitNumber(c, m + n) + GroupsLeft(t, i) <= CommitsBefore(t + n, i)
    <3>1. CommitNumber(c, m) \in Int /\ CommitNumber(c, m + n) \in Int
      BY <1>2, <1>4, <1>7 DEF CommitNumber
    <3> QED
      BY <1>7, <2>1, <2>7, <3>1
  <2> QED
    BY <1>1, <1>4, <2>1, <2>4, <2>5, <2>6, <2>8 DEF LandsBy
<1>9. ASSUME NEW u \in Readers(Tag(c)) PROVE Before(t + n, i, Turn(u, m + n), Place(u))
  <2>1. u \in Ops(body) /\ Before(t, i, Turn(u, m), Place(u))
    BY <1>2 DEF LandsInTime, Readers
  <2>2. Turn(u, m) \in Int /\ Place(u) \in Int /\ Turn(u, m + n) = Turn(u, m) + n
    <3>1. PICK l : l = m + n
      OBVIOUS
    <3>2. m \in Int /\ l \in Int /\ l - m = n
      BY <1>3, <3>1
    <3>3. Turn(u, m) \in Int /\ Place(u) \in Int
      BY <2>1, <3>2, TurnIs
    <3>4. Turn(u, l) = Turn(u, m) + (l - m)
      BY <2>1, <3>2, LaterIsLater
    <3> QED
      BY <3>1, <3>2, <3>3, <3>4
  <2> QED
    BY <1>1, <1>6, <2>1, <2>2 DEF Before
<1>10. Before(t + n, i, Turn(c, (m + n) + prog.buffers), Place(c))
  <2>1. Before(t, i, Turn(c, m + prog.buffers), Place(c))
    BY <1>2 DEF LandsInTime
  <2>2. PICK l : l = m + prog.buffers
    OBVIOUS
  <2>3. l \in Nat /\ (m + n) + prog.buffers = l + n
    BY <1>3, <2>2
  <2>4. Turn(c, l) \in Int /\ Turn(c, l + n) = Turn(c, l) + n
    BY <2>3, TurnIs, LaterIsLater
  <2>5. Turn(c, (m + n) + prog.buffers) = Turn(c, l) + n
    BY <2>3, <2>4
  <2>6. Before(t, i, Turn(c, l), Place(c))
    BY <2>1, <2>2
  <2>7. Before(t + n, i, Turn(c, l) + n, Place(c))
    BY <1>1, <1>6, <2>4, <2>6 DEF Before
  <2> QED
    BY <2>5, <2>7
<1> QED
  BY <1>2, <1>6, <1>8, <1>9, <1>10 DEF LandsInTime

\* Each copy lands in time, for every iteration.
LEMMA CopyLands ==
  ASSUME OrderIsKept, PrologueIsComplete, RingIsLongEnough, CopiesLand,
         NEW c \in Ops(body), Kind(c) = "copy", NEW k \in Nat
  PROVE  /\ CommitOf(c) \in Ops(body) /\ Precedes(c, 0, CommitOf(c))
         /\ \E t \in Int : \E i \in Steps : LandsInTime(c, k, t, i)
<1>1. /\ CommitOf(c) \in Ops(body) /\ Precedes(c, 0, CommitOf(c))
      /\ \A m \in 0..prog.max : \E t \in (-prog.max)..prog.max, i \in Steps : LandsInTime(c, m, t, i)
  BY DEF CopiesLand
<1>2. prog.max \in Nat
  BY Typed
<1>3. CASE k <= prog.max
  <2>1. k \in 0..prog.max
    BY <1>2, <1>3
  <2>2. PICK t \in (-prog.max)..prog.max, i \in Steps : LandsInTime(c, k, t, i)
    BY <1>1, <2>1
  <2> QED
    BY <1>1, <1>2, <2>2
<1>4. CASE ~(k <= prog.max)
  <2>1. prog.max \in 0..prog.max
    BY <1>2
  <2>2. PICK t \in (-prog.max)..prog.max, i \in Steps : LandsInTime(c, prog.max, t, i)
    BY <1>1, <2>1
  <2>3. PICK n : n = k - prog.max
    OBVIOUS
  <2>4. n \in Nat /\ prog.max + n = k /\ t \in Int
    BY <1>2, <1>4, <2>3
  <2>5. prog.buffers \in Nat
    BY DEF RingIsLongEnough, IsFill
  <2>6. t + n \in Nat /\ LandsInTime(c, prog.max + n, t + n, i)
    BY <1>1, <2>2, <2>4, <2>5, LandsShift
  <2>7. t + n \in Int /\ LandsInTime(c, k, t + n, i)
    BY <2>4, <2>6
  <2> QED
    BY <1>1, <2>7
<1> QED
  BY <1>3, <1>4

-----------------------------------------------------------------------------
(***************************************************************************)
(* The ring of buffers: two iterations of one buffer are a round apart.    *)
(***************************************************************************)
LEMMA DivMod ==
  ASSUME NEW k \in Nat, NEW b \in Nat \ {0}
  PROVE  k = (b * (k \div b)) + (k % b) /\ k \div b \in Nat /\ k % b \in Nat /\ k % b < b
OBVIOUS

LEMMA AtLeast ==
  ASSUME NEW b \in Nat, NEW d \in Nat, d >= 1
  PROVE  b * d >= b
OBVIOUS

LEMMA Apart ==
  ASSUME NEW a \in Nat, NEW k \in Nat, NEW b \in Nat \ {0}, a < k, a % b = k % b
  PROVE  k >= a + b
<1>1. /\ k = (b * (k \div b)) + (k % b) /\ k \div b \in Nat /\ k % b \in Nat /\ k % b < b
      /\ a = (b * (a \div b)) + (a % b) /\ a \div b \in Nat /\ a % b \in Nat /\ a % b < b
  BY DivMod
<1>2. PICK p, q, r : p = a \div b /\ q = k \div b /\ r = k % b
  OBVIOUS
<1>3. k = (b * q) + r /\ a = (b * p) + r /\ p \in Nat /\ q \in Nat /\ r \in Nat
  BY <1>1, <1>2
<1>4. p < q
  <2>1. b * q > b * p
    BY <1>3
  <2>2. q <= p => b * q <= b * p
    BY <1>3
  <2> QED
    BY <1>3, <2>1, <2>2
<1>5. PICK d \in Nat : q = p + d /\ d >= 1
  <2>1. q - p \in Nat /\ q = p + (q - p) /\ q - p >= 1
    BY <1>3, <1>4
  <2> QED
    BY <2>1
<1>6. b * q = (b * p) + (b * d) /\ b * d \in Nat /\ b * p \in Nat
  BY <1>3, <1>5
<1>7. b * d >= b
  BY <1>5, AtLeast
<1> QED
  BY <1>3, <1>6, <1>7

LEMMA OnceRound ==
  ASSUME NEW k \in Nat, NEW b \in Nat \ {0}
  PROVE  (k + b) % b = k % b /\ (k + b) \div b = (k \div b) + 1
OBVIOUS

LEMMA FirstRound ==
  ASSUME NEW k \in Nat, NEW b \in Nat \ {0}, k < b
  PROVE  k \div b = 0
OBVIOUS

LEMMA BufferIs ==
  ASSUME NEW l, NEW n
  PROVE  Buffer(l, n) = <<l, n % prog.buffers>> /\ Buffer(l, n)[1] = l /\ Buffer(l, n)[2] = n % prog.buffers
BY DEF Buffer

\* Two iterations whose values share a buffer are a round apart.
LEMMA SharedBuffer ==
  ASSUME NEW l, NEW g, NEW k \in Nat, NEW m \in Nat, Buffer(l, k) = Buffer(g, m), prog.buffers \in Nat \ {0}
  PROVE  /\ l = g /\ k % prog.buffers = m % prog.buffers
         /\ k < m => m >= k + prog.buffers
         /\ m < k => k >= m + prog.buffers
<1>1. l = g /\ k % prog.buffers = m % prog.buffers
  BY BufferIs
<1> QED
  BY <1>1, Apart

\* What fills a buffer.
LEMMA FillFacts ==
  ASSUME SoundProgram, NEW c, IsFill(c)
  PROVE  /\ c \in Ops(body) /\ prog.buffers \in Nat \ {0} /\ Ref(Insert) \in AllRefs(body, c)
         /\ Tag(c) \in {Tag(l) : l \in ToSet(prog.loads)}
         /\ \A d : IsFill(d) /\ Tag(d) = Tag(c) => d = c
         /\ \A u \in Readers(Tag(c)) : u \in Ops(body) /\ Precedes(u, prog.buffers, c)
BY DEF SoundProgram, SoundSchedule, RingIsLongEnough, IsFill, AllRefs, Readers

\* What has run by now, of one operation.
LEMMA RanOrder ==
  ASSUME SoundProgram, PosInv, NEW o \in Ops(body), NEW k \in Nat, NEW m \in Nat, Ran(o, k), ~Ran(o, m)
  PROVE  k < m
<1>1. m <= k => Ran(o, m)
  BY RanBefore DEF SoundProgram, SoundSchedule
<1> QED
  BY <1>1

\* The value in a buffer is that of the latest iteration that filled it.
LEMMA LatestInBuffer ==
  ASSUME SoundProgram, PosInv, NEW c, IsFill(c), NEW d, IsFill(d), NEW k \in Nat, NEW m \in Nat,
         Ran(c, k), k < trip => ~Ran(c, k + prog.buffers), Current(d, m), Buffer(Tag(c), k) = Buffer(Tag(d), m)
  PROVE  c = d /\ k = m
<1>1. prog.buffers \in Nat \ {0} /\ c \in Ops(body) /\ d \in Ops(body) /\ trip \in Nat
  BY FillFacts DEF PosInv
<1>2. Tag(c) = Tag(d) /\ (k < m => m >= k + prog.buffers) /\ (m < k => k >= m + prog.buffers)
  BY <1>1, SharedBuffer
<1>3. c = d
  BY <1>2, FillFacts
<1>4. m < trip /\ Ran(c, m) /\ ~Ran(c, m + prog.buffers)
  BY <1>3 DEF Current
<1>5. k < m + prog.buffers
  BY <1>1, <1>4, RanOrder
<1>6. k <= m
  BY <1>1, <1>2, <1>5
<1>7. k < trip
  BY <1>1, <1>4, <1>6
<1>8. m < k + prog.buffers
  BY <1>1, <1>4, <1>7, RanOrder
<1> QED
  BY <1>1, <1>2, <1>3, <1>6, <1>8

\* A buffer that is being filled holds nothing that is still looked for.
LEMMA FilledAnew ==
  ASSUME SoundProgram, PosInv, NEW o, NEW k, Running(o, k), IsFill(o), NEW c, IsFill(c), NEW m \in Nat,
         Ran(c, m), ~Ran(c, m + prog.buffers), ~(c = o /\ k = m + prog.buffers)
  PROVE  Buffer(Tag(c), m) # Buffer(Tag(o), k)
<1> SUFFICES ASSUME Buffer(Tag(c), m) = Buffer(Tag(o), k) PROVE FALSE
  OBVIOUS
<1>1. prog.buffers \in Nat \ {0} /\ o \in Ops(body) /\ k \in Nat
  BY FillFacts DEF Running
<1>2. Tag(c) = Tag(o) /\ (m < k => k >= m + prog.buffers)
  BY <1>1, SharedBuffer
<1>3. c = o
  BY <1>2, FillFacts
<1>4. ~Ran(o, m) \/ m < k
  BY <1>1, RunningIsNew DEF SoundProgram, SoundSchedule
<1>5. k > m + prog.buffers
  BY <1>1, <1>2, <1>3, <1>4
<1>6. m + prog.buffers \in Nat
  BY <1>1
<1>7. \A n \in Nat : n < k => Ran(o, n)
  BY RunningIsNew DEF SoundProgram, SoundSchedule
<1> QED
  BY <1>3, <1>5, <1>6, <1>7

\* A copy's group lands with the copy.
LEMMA LandedThere ==
  ASSUME NEW cs, NEW x \in DOMAIN slot, \E e \in cs : e.at = x
  PROVE  \E e \in cs : e.at = x /\ Landed(cs)[x] = [it |-> e.it, landed |-> TRUE, read |-> e.read]
<1>1. PICK e : e = CHOOSE d \in cs : d.at = x
  OBVIOUS
<1>2. e \in cs /\ e.at = x
  BY <1>1
<1>3. Landed(cs)[x] = [it |-> e.it, landed |-> TRUE, read |-> e.read]
  BY <1>1 DEF Landed
<1> QED
  BY <1>2, <1>3

LEMMA LandedElsewhere ==
  ASSUME NEW cs, NEW x \in DOMAIN slot, ~(\E e \in cs : e.at = x)
  PROVE  Landed(cs)[x] = slot[x]
BY DEF Landed

LEMMA NotNone ==
  ASSUME NEW a, NEW b, NEW c
  PROVE  /\ [it |-> a, landed |-> b, read |-> c] # None
         /\ [it |-> a, landed |-> b, read |-> c].it = a /\ [it |-> a, landed |-> b, read |-> c].landed = b
<1>1. DOMAIN [it |-> a, landed |-> b, read |-> c] # DOMAIN None
  <2>1. "it" \in DOMAIN [it |-> a, landed |-> b, read |-> c]
    OBVIOUS
  <2>2. "it" \notin DOMAIN None
    BY DEF None
  <2> QED
    BY <2>1, <2>2
<1> QED
  BY <1>1

-----------------------------------------------------------------------------
(***************************************************************************)
(* The groups of copies in flight, and where a wait lets them land.        *)
(***************************************************************************)
\* Where the waits for copies are on the time line: each is an operation of an iteration.
LEMMA WaitOfTurn ==
  ASSUME SoundProgram, NEW t \in Int, NEW i \in Steps, Kind(prog.kernel[i]) = "wait", t >= Turn(prog.kernel[i], 0)
  PROVE  /\ prog.kernel[i] \in Ops(body) /\ Place(prog.kernel[i]) = i
         /\ \E m \in Nat : Turn(prog.kernel[i], m) = t
<1>1. prog.kernel[i] \in Ops(body) /\ Place(prog.kernel[i]) = i
  BY DEF SoundProgram, SoundSchedule, OrderIsKept
<1>2. PICK w : w = prog.kernel[i]
  OBVIOUS
<1>3. Turn(w, 0) \in Int
  BY <1>1, <1>2, TurnIs DEF SoundProgram, SoundSchedule
<1>4. PICK m : m = t - Turn(w, 0)
  OBVIOUS
<1>5. m \in Nat
  BY <1>2, <1>3, <1>4
<1>6. Turn(w, m) = Turn(w, 0) + (m - 0)
  <2>1. OrderIsKept /\ w \in Ops(body) /\ m \in Int /\ 0 \in Int
    BY <1>1, <1>2, <1>5 DEF SoundProgram, SoundSchedule
  <2> QED
    BY <2>1, LaterIsLater
<1>7. Turn(w, m) = t
  BY <1>3, <1>4, <1>6
<1> QED
  BY <1>1, <1>2, <1>5, <1>7

\* What runs reaches a wait only if it is the wait.
LEMMA WaitsReached ==
  ASSUME SoundProgram, PosInv, UNCHANGED input,
         NEW c, NEW k, NEW t \in Int, NEW i \in Steps, LandsBy(c, k, t, i), Reached(t, i)',
         \A u \in Ops(body), m \in Int : Kind(u) = "wait" => (Ran(u, m)' <=> Ran(u, m))
  PROVE  Reached(t, i)
<1>1. /\ Kind(prog.kernel[i]) = "wait" /\ t >= Turn(prog.kernel[i], 0)
  BY DEF LandsBy
<1>2. PICK w, m : w = prog.kernel[i] /\ m \in Nat /\ Turn(w, m) = t /\ w \in Ops(body) /\ Place(w) = i
  BY <1>1, WaitOfTurn
<1>3. Ran(w, m)'
  <2>1. Turn(w, m)' = t /\ Place(w)' = i
    BY <1>2, ProgramStays
  <2> QED
    BY <1>2, <2>1 DEF Ran
<1>4. Ran(w, m)
  BY <1>1, <1>2, <1>3
<1> QED
  BY <1>2, <1>4 DEF Ran

\* A copy has landed by the wait for it.
LEMMA CopyHasLanded ==
  ASSUME SoundProgram, PosInv, GroupInv, NEW c \in Ops(body), Kind(c) = "copy", NEW k \in Nat,
         NEW t \in Int, NEW i \in Steps, LandsInTime(c, k, t, i), NEW T \in Int, NEW P \in Int,
         Before(t, i, T, P), Before(T, P, NowTurn, NowPlace) \/ (T = NowTurn /\ P = NowPlace)
  PROVE  /\ Ran(CommitOf(c), k) /\ Ran(c, k)
         /\ CommitNumber(c, k) <= Landings
<1>1. /\ NowTurn \in Int /\ NowPlace \in Int /\ i \in Int /\ k \in Int
      /\ CommitOf(c) \in Ops(body) /\ Precedes(c, 0, CommitOf(c))
  BY NowTyped, CopyLands, Typed DEF SoundProgram, SoundSchedule, Steps
<1>2. LandsBy(c, k, t, i) /\ Before(Turn(CommitOf(c), k), Place(CommitOf(c)), t, i)
  BY DEF LandsInTime, LandsBy
<1>3. Reached(t, i)
  BY <1>1 DEF Reached, Before
<1>4. Turn(CommitOf(c), k) \in Int /\ Place(CommitOf(c)) \in Int
  BY <1>1, TurnIs DEF SoundProgram, SoundSchedule
<1>5. Before(Turn(CommitOf(c), k), Place(CommitOf(c)), NowTurn, NowPlace)
  BY <1>1, <1>2, <1>3, <1>4, BeforeIsOrder DEF Reached
<1>6. Ran(CommitOf(c), k)
  BY <1>5 DEF Ran, Reached
<1>7. Ran(c, k)
  BY <1>1, <1>6, RanNeeds DEF SoundProgram, SoundSchedule
<1>8. CommitNumber(c, k) <= Landings
  BY <1>2, <1>3 DEF GroupInv, Iterations, Turns
<1> QED
  BY <1>6, <1>7, <1>8

\* It has landed before its buffer is filled again, and where it is read.
LEMMA LandedWhenRefilled ==
  ASSUME SoundProgram, PosInv, GroupInv, NEW c \in Ops(body), Kind(c) = "copy", NEW k \in Nat,
         Running(c, k + prog.buffers)
  PROVE  /\ Ran(CommitOf(c), k) /\ CommitNumber(c, k) <= Landings
<1>1. PICK t \in Int, i \in Steps : LandsInTime(c, k, t, i)
  BY CopyLands DEF SoundProgram, SoundSchedule
<1>2. Before(t, i, Turn(c, k + prog.buffers), Place(c))
  BY <1>1 DEF LandsInTime
<1>3. Turn(c, k + prog.buffers) = NowTurn /\ Place(c) = NowPlace
  BY DEF Running
<1>4. NowTurn \in Int /\ NowPlace \in Int
  BY NowTyped DEF SoundProgram, SoundSchedule
<1>5. Before(t, i, NowTurn, NowPlace)
  BY <1>2, <1>3
<1> QED
  BY <1>1, <1>4, <1>5, CopyHasLanded

LEMMA LandedWhenRead ==
  ASSUME SoundProgram, PosInv, GroupInv, NEW c \in Ops(body), Kind(c) = "copy", NEW k \in Nat,
         NEW u \in Readers(Tag(c)), Ran(u, k) \/ Running(u, k)
  PROVE  /\ Ran(CommitOf(c), k) /\ Ran(c, k) /\ CommitNumber(c, k) <= Landings
<1>1. PICK t \in Int, i \in Steps : LandsInTime(c, k, t, i)
  BY CopyLands DEF SoundProgram, SoundSchedule
<1>2. Before(t, i, Turn(u, k), Place(u)) /\ u \in Ops(body)
  BY <1>1 DEF LandsInTime, Readers
<1>3. Turn(u, k) \in Int /\ Place(u) \in Int
  BY <1>2, TurnIs DEF SoundProgram, SoundSchedule
<1>4. Before(Turn(u, k), Place(u), NowTurn, NowPlace) \/ (Turn(u, k) = NowTurn /\ Place(u) = NowPlace)
  BY DEF Running, Ran, Reached
<1> QED
  BY <1>1, <1>2, <1>3, <1>4, CopyHasLanded

LEMMA EntryStays ==
  ASSUME SoundProgram, UNCHANGED input, NEW e, NEW c \in Ops(body), NEW k \in Nat, EntryOf(e, c, k),
         Ran(c, k)', k < trip => ~Ran(c, k + prog.buffers)'
  PROVE  EntryOf(e, c, k)'
<1>1. trip' = trip /\ prog' = prog /\ Buffer(Tag(c), k)' = Buffer(Tag(c), k)
  BY InputSame, StaticStays
<1> QED
  BY <1>1 DEF EntryOf

LEMMA CommitsAfter ==
  ASSUME UNCHANGED input, Committed' = Committed
  PROVE  Landings' = Committed - Len(copies'.groups)
BY DEF Landings

\* Where nothing is copied or committed, no wait passes and nothing lands.
LEMMA GroupQuiet ==
  ASSUME SoundProgram, PosInv, GroupInv, UNCHANGED input, UNCHANGED copies, Committed' = Committed,
         \A u \in Ops(body), m \in Int : Kind(u) \in {"copy", "commit", "wait"} => (Ran(u, m)' <=> Ran(u, m))
  PROVE  GroupInv' /\ Landings' = Landings
<1>1. Landings' = Landings
  BY DEF Landings
<1>2. /\ trip' = trip /\ prog' = prog /\ body' = body /\ copies' = copies
  BY InputSame
<1>3. \A c, k : CommitNumber(c, k)' = CommitNumber(c, k)
  BY StaticStays
<1>4. ASSUME NEW c \in Ops(body), NEW k \in Nat, Kind(c) = "copy"
      PROVE  /\ \A e : EntryOf(e, c, k) => EntryOf(e, c, k)'
             /\ Ran(CommitOf(c), k)' <=> Ran(CommitOf(c), k)
  <2>1. prog.buffers \in Nat /\ CommitOf(c) \in Ops(body) /\ Kind(CommitOf(c)) = "commit"
    BY <1>4, FillFacts, CopyLands DEF SoundProgram, SoundSchedule, IsFill, CommitOf, Kind
  <2>2. PICK n, u : n = k + prog.buffers /\ u = CommitOf(c)
    OBVIOUS
  <2>5. n \in Int /\ k \in Int /\ u \in Ops(body) /\ Kind(u) = "commit" /\ u' = u /\ n' = n
    BY <2>1, <2>2
  <2>6. (Ran(c, k)' <=> Ran(c, k)) /\ (Ran(c, n)' <=> Ran(c, n)) /\ (Ran(u, k)' <=> Ran(u, k))
    BY <1>4, <2>5
  <2>3. /\ Ran(c, k)' <=> Ran(c, k)
        /\ Ran(c, k + prog.buffers)' <=> Ran(c, k + prog.buffers)
        /\ Ran(CommitOf(c), k)' <=> Ran(CommitOf(c), k)
    BY <1>2, <2>2, <2>6
  <2>4. ASSUME NEW e, EntryOf(e, c, k) PROVE EntryOf(e, c, k)'
    <3>1. Ran(c, k) /\ (k < trip => ~Ran(c, k + prog.buffers))
      BY <2>4 DEF EntryOf
    <3>2. Ran(c, k)' /\ (k < trip => ~Ran(c, k + prog.buffers)')
      BY <2>3, <3>1
    <3> QED
      BY <2>4, <3>2, EntryStays
  <2> QED
    BY <2>3, <2>4
<1>5. \A e \in copies'.open : \E c \in Ops(body), k \in Nat : EntryOf(e, c, k)' /\ (k < trip => ~Ran(CommitOf(c), k)')
  <2> TAKE e \in copies'.open
  <2>1. PICK c \in Ops(body), k \in Nat : EntryOf(e, c, k) /\ (k < trip => ~Ran(CommitOf(c), k))
    BY <1>2 DEF GroupInv, Iterations
  <2> QED
    BY <2>1, <1>4 DEF EntryOf
<1>6. \A i \in 1..Len(copies'.groups) : \A e \in copies'.groups[i] : \E c \in Ops(body), k \in Nat :
         EntryOf(e, c, k)' /\ (k < trip /\ Ran(CommitOf(c), k)' => i + Landings <= CommitNumber(c, k))
  <2> TAKE i \in 1..Len(copies'.groups)
  <2> TAKE e \in copies'.groups[i]
  <2>1. PICK c \in Ops(body), k \in Nat :
           EntryOf(e, c, k) /\ (k < trip /\ Ran(CommitOf(c), k) => i + Landings <= CommitNumber(c, k))
    BY <1>2 DEF GroupInv, Iterations
  <2> QED
    BY <2>1, <1>4 DEF EntryOf
<1>7. ASSUME NEW c \in Ops(body), NEW k \in Nat, NEW t \in Int, NEW i \in Steps,
             Kind(c) = "copy", LandsBy(c, k, t, i), Reached(t, i)'
      PROVE  CommitNumber(c, k) <= Landings
  <2>1. Reached(t, i)
    BY <1>7, WaitsReached
  <2> QED
    BY <1>7, <2>1 DEF GroupInv, Iterations, Turns
<1>8. /\ Steps' = Steps /\ \A c, k, t, i : LandsBy(c, k, t, i)' <=> LandsBy(c, k, t, i)
  BY StaticStays
<1>9. Landings >= 0
  BY DEF GroupInv
<1>10. \A c : CommitOf(c)' = CommitOf(c)
  BY DEF CommitOf
<1>11. GroupInv'
  <2>1. (\A c \in Ops(body), k \in Nat, t \in Int, i \in Steps :
           Kind(c) = "copy" /\ LandsBy(c, k, t, i)' /\ Reached(t, i)' => CommitNumber(c, k)' <= Landings')
    BY <1>1, <1>3, <1>7, <1>8
  <2> QED
    BY <1>1, <1>2, <1>3, <1>5, <1>6, <1>8, <1>9, <1>10, <2>1 DEF GroupInv, Iterations, Turns
<1> QED
  BY <1>1, <1>11
\* What has run of an operation once another has.
LEMMA OthersStay ==
  ASSUME NEW o, NEW k, Advances(o, k), NEW u \in Ops(body), NEW m \in Int
  PROVE  /\ Ran(u, m) => Ran(u, m)'
         /\ ~(u = o /\ m = k) /\ Ran(u, m)' => Ran(u, m)
         /\ u = o /\ m = k => Ran(u, m)'
BY DEF Advances

LEMMA CommitOfCopy ==
  ASSUME SoundProgram, NEW c \in Ops(body), Kind(c) = "copy"
  PROVE  /\ CommitOf(c) \in Ops(body) /\ Kind(CommitOf(c)) = "commit" /\ Precedes(c, 0, CommitOf(c))
         /\ IsFill(c) /\ prog.buffers \in Nat \ {0}
<1>1. CommitOf(c) \in Ops(body) /\ Precedes(c, 0, CommitOf(c))
  <2>1. 0 \in Nat
    OBVIOUS
  <2> QED
    BY <2>1, CopyLands DEF SoundProgram, SoundSchedule
<1> QED
  BY <1>1, FillFacts DEF IsFill, CommitOf, Kind

LEMMA CommitNumberTyped ==
  ASSUME SoundProgram, NEW c \in Ops(body), Kind(c) = "copy", NEW k \in Nat
  PROVE  CommitNumber(c, k) \in Int
<1>1. PICK u, a, p : u = CommitOf(c) /\ a = Turn(u, k) /\ p = Place(u)
  OBVIOUS
<1>2. u \in Ops(body) /\ k \in Int
  BY <1>1, CommitOfCopy
<1>3. a \in Int
  BY <1>1, <1>2, TurnIs DEF SoundProgram, SoundSchedule
<1>4. p \in Nat /\ p >= 1 /\ p <= Len(prog.kernel) /\ Len(prog.kernel) \in Nat
  BY <1>1, <1>2, Typed DEF SoundProgram, SoundSchedule
<1>5. p <= Len(prog.kernel) + 1
  BY <1>4
<1>6. CommitsBefore(a, p) \in Nat
  BY <1>3, <1>4, <1>5, CommitsTyped DEF SoundProgram, SoundSchedule
<1> QED
  BY <1>1, <1>6 DEF CommitNumber

\* What is written of copies after a step that is no wait.
LEMMA GroupInvAfter ==
  ASSUME SoundProgram, PosInv, GroupInv, UNCHANGED input, NEW L, Landings' = L, L >= Landings, L \in Int, Landings \in Int,
         \A u \in Ops(body), m \in Int : Kind(u) = "wait" => (Ran(u, m)' <=> Ran(u, m)),
         \A e \in copies'.open : \E c \in Ops(body), k \in Nat : EntryOf(e, c, k)' /\ (k < trip => ~Ran(CommitOf(c), k)'),
         \A i \in 1..Len(copies'.groups) : \A e \in copies'.groups[i] : \E c \in Ops(body), k \in Nat :
            EntryOf(e, c, k)' /\ (k < trip /\ Ran(CommitOf(c), k)' => i + L <= CommitNumber(c, k))
  PROVE  GroupInv'
<1>1. /\ trip' = trip /\ prog' = prog /\ body' = body
  BY InputSame
<1>2. \A c, k : CommitNumber(c, k)' = CommitNumber(c, k)
  BY StaticStays
<1>3. /\ Steps' = Steps /\ \A c, k, t, i : LandsBy(c, k, t, i)' <=> LandsBy(c, k, t, i)
  BY StaticStays
<1>4. ASSUME NEW c \in Ops(body), NEW k \in Nat, NEW t \in Int, NEW i \in Steps,
             Kind(c) = "copy", LandsBy(c, k, t, i), Reached(t, i)'
      PROVE  CommitNumber(c, k) <= L
  <2>1. Reached(t, i)
    BY <1>4, WaitsReached
  <2>2. CommitNumber(c, k) <= Landings
    BY <1>4, <2>1 DEF GroupInv, Iterations, Turns
  <2>3. CommitNumber(c, k) \in Int
    BY <1>4, CommitNumberTyped
  <2> QED
    BY <2>2, <2>3
<1>5. \A c \in Ops(body), k \in Nat, t \in Int, i \in Steps :
           Kind(c) = "copy" /\ LandsBy(c, k, t, i)' /\ Reached(t, i)' => CommitNumber(c, k)' <= Landings'
  BY <1>2, <1>3, <1>4
<1>6. L >= 0
  BY DEF GroupInv
<1>7. \A c : CommitOf(c)' = CommitOf(c)
  BY DEF CommitOf
<1> QED
  BY <1>1, <1>2, <1>3, <1>5, <1>6, <1>7 DEF GroupInv, Iterations, Turns

LEMMA LandingsTyped ==
  ASSUME SoundProgram, PosInv, MemShape
  PROVE  /\ Committed \in Nat /\ Len(copies.groups) \in Nat /\ Landings \in Int
         /\ Landings = Committed - Len(copies.groups)
<1>1. Committed \in Nat
  BY CommittedTyped DEF SoundProgram, SoundSchedule
<1> QED
  BY <1>1 DEF Landings, MemShape

LEMMA GroupCopy ==
  ASSUME SoundProgram, PosInv, MemShape, GroupInv, UNCHANGED input, NEW o, NEW k, Running(o, k), Advances(o, k),
         Kind(o) = "copy", Committed' = Committed, NEW v, Right(o, k, v), NEW on,
         copies' = [open |-> copies.open \cup {[at |-> Buffer(Tag(o), k), it |-> v, read |-> on]},
                    groups |-> copies.groups]
  PROVE  GroupInv' /\ Landings' = Landings
<1>1. /\ o \in Ops(body) /\ k \in Nat /\ prog.buffers \in Nat \ {0} /\ Kind(CommitOf(o)) = "commit"
      /\ CommitOf(o) \in Ops(body) /\ Precedes(o, 0, CommitOf(o))
  BY CommitOfCopy DEF Running
<1>2. Landings' = Landings /\ Landings \in Int /\ copies'.groups = copies.groups
      /\ trip' = trip /\ prog' = prog /\ Landings >= 0
  BY LandingsTyped, InputSame DEF Landings, GroupInv
<1>3. PICK e0 : e0 = [at |-> Buffer(Tag(o), k), it |-> v, read |-> on]
  OBVIOUS
<1>4. EntryOf(e0, o, k)' /\ ~Ran(CommitOf(o), k)'
  <2>1. PICK n, u : n = k + prog.buffers /\ u = CommitOf(o)
    OBVIOUS
  <2>2. n \in Int /\ n > k /\ u # o /\ u \in Ops(body)
    BY <1>1, <2>1
  <2>3. ~Ran(o, n) /\ ~Ran(u, k)
    <3>1. 0 \in Int /\ k + 0 <= k
      BY <1>1
    <3>2. ~Ran(u, k)
      BY <1>1, <2>1, <3>1, RunningIsNew DEF SoundProgram, SoundSchedule
    <3>3. n >= k
      BY <1>1, <2>2
    <3>4. ~Ran(o, n)
      BY <2>2, <3>3, RunningIsNew DEF SoundProgram, SoundSchedule
    <3> QED
      BY <3>2, <3>4
  <2>4. ~Ran(o, n)' /\ ~Ran(u, k)' /\ Ran(o, k)'
    <3>1. ~(o = o /\ n = k)
      BY <1>1, <2>2
    <3> QED
      BY <1>1, <2>2, <2>3, <3>1, OthersStay
  <2>5. Buffer(Tag(o), k)' = Buffer(Tag(o), k)
    BY StaticStays
  <2>6. k < trip => v = k
    BY DEF Right
  <2>7. CommitOf(o)' = CommitOf(o)
    BY DEF CommitOf
  <2> QED
    BY <1>2, <1>3, <2>1, <2>4, <2>5, <2>6, <2>7 DEF EntryOf
<1>5. ASSUME NEW e, NEW c \in Ops(body), NEW j \in Nat, EntryOf(e, c, j),
             j < trip /\ c = o /\ k = j + prog.buffers => FALSE
      PROVE  EntryOf(e, c, j)'
  <2>1. PICK n : n = j + prog.buffers
    OBVIOUS
  <2>2. Ran(c, j) /\ (j < trip => ~Ran(c, n)) /\ n \in Int
    BY <1>1, <1>5, <2>1 DEF EntryOf
  <2>3. Ran(c, j)' /\ (j < trip => ~Ran(c, n)')
    BY <1>5, <2>1, <2>2, OthersStay
  <2> QED
    BY <1>2, <1>5, <2>1, <2>3, EntryStays
<1>6. ASSUME NEW c \in Ops(body), Kind(c) = "copy", NEW j \in Nat
      PROVE  Ran(CommitOf(c), j)' <=> Ran(CommitOf(c), j)
  <2>1. PICK u : u = CommitOf(c)
    OBVIOUS
  <2>2. u \in Ops(body) /\ u # o
    BY <1>6, <2>1, CommitOfCopy
  <2>3. Ran(u, j)' <=> Ran(u, j)
    BY <2>2, OthersStay
  <2> QED
    BY <2>1, <2>3 DEF CommitOf
<1>7. ASSUME NEW j \in Nat, k = j + prog.buffers PROVE Ran(CommitOf(o), j) /\ CommitNumber(o, j) <= Landings
  BY <1>1, <1>7, LandedWhenRefilled
<1>8. \A e \in copies'.open : \E c \in Ops(body), j \in Nat : EntryOf(e, c, j)' /\ (j < trip => ~Ran(CommitOf(c), j)')
  <2> TAKE e \in copies'.open
  <2>1. CASE e = e0
    BY <1>1, <1>4, <2>1
  <2>2. CASE e \in copies.open
    <3>1. PICK c \in Ops(body), j \in Nat : EntryOf(e, c, j) /\ (j < trip => ~Ran(CommitOf(c), j))
      BY <2>2 DEF GroupInv, Iterations
    <3>2. ~(j < trip /\ c = o /\ k = j + prog.buffers)
      BY <1>7, <3>1
    <3>3. Kind(c) = "copy"
      BY <3>1 DEF EntryOf
    <3> QED
      BY <1>5, <1>6, <3>1, <3>2, <3>3
  <2> QED
    BY <1>3, <2>1, <2>2
<1>9. \A i \in 1..Len(copies'.groups) : \A e \in copies'.groups[i] : \E c \in Ops(body), j \in Nat :
            EntryOf(e, c, j)' /\ (j < trip /\ Ran(CommitOf(c), j)' => i + Landings <= CommitNumber(c, j))
  <2> TAKE i \in 1..Len(copies'.groups)
  <2> TAKE e \in copies'.groups[i]
  <2>1. PICK c \in Ops(body), j \in Nat :
          EntryOf(e, c, j) /\ (j < trip /\ Ran(CommitOf(c), j) => i + Landings <= CommitNumber(c, j))
    BY <1>2 DEF GroupInv, Iterations
  <2>2. ASSUME j < trip, c = o, k = j + prog.buffers PROVE FALSE
    <3>1. CommitNumber(o, j) <= Landings /\ i + Landings <= CommitNumber(o, j)
      BY <1>7, <2>1, <2>2
    <3>2. i \in Int /\ i >= 1
      BY <1>2, LandingsTyped
    <3>3. CommitNumber(o, j) \in Int
      BY <1>1, CommitNumberTyped
    <3> QED
      BY <1>2, <3>1, <3>2, <3>3
  <2>3. Kind(c) = "copy"
    BY <2>1 DEF EntryOf
  <2> QED
    BY <1>5, <1>6, <2>1, <2>2, <2>3
<1>10. \A u \in Ops(body), m \in Int : Kind(u) = "wait" => (Ran(u, m)' <=> Ran(u, m))
  BY OthersStay
<1>11. Landings >= Landings
  BY <1>2
<1> QED
  BY <1>2, <1>8, <1>9, <1>10, <1>11, GroupInvAfter

LEMMA GroupCommit ==
  ASSUME SoundProgram, PosInv, MemShape, GroupInv, UNCHANGED input, NEW o, NEW k, Running(o, k), Advances(o, k),
         Kind(o) = "commit", Committed' = Committed + 1,
         copies' = [open |-> {}, groups |-> Append(copies.groups, copies.open)]
  PROVE  GroupInv' /\ Landings' = Landings
<1>1. PICK n : n = Len(copies.groups)
  OBVIOUS
<1>2. /\ Len(copies'.groups) = n + 1 /\ n \in Nat
      /\ copies'.groups = [i \in 1..(n + 1) |-> IF i = n + 1 THEN copies.open ELSE copies.groups[i]]
      /\ copies'.open = {}
  BY <1>1, AppendIsLonger DEF MemShape
<1>3. /\ Landings \in Int /\ Landings = Committed - n /\ Landings' = Landings /\ Committed \in Nat
      /\ trip' = trip /\ prog' = prog
  <2>1. Landings \in Int /\ Landings = Committed - n /\ Committed \in Nat
    BY <1>1, LandingsTyped
  <2>2. Landings' = Committed' - (n + 1)
    BY <1>2 DEF Landings
  <2> QED
    BY <1>2, <2>1, <2>2, InputSame
<1>4. ASSUME NEW e, NEW c \in Ops(body), NEW j \in Nat, EntryOf(e, c, j)
      PROVE  EntryOf(e, c, j)' /\ Kind(c) = "copy"
  <2>1. PICK m : m = j + prog.buffers
    OBVIOUS
  <2>2. Ran(c, j) /\ (j < trip => ~Ran(c, m)) /\ Kind(c) = "copy"
    BY <1>4, <2>1 DEF EntryOf
  <2>4. m \in Int /\ c # o
    BY <1>4, <2>1, <2>2, CommitOfCopy
  <2>3. Ran(c, j)' /\ (j < trip => ~Ran(c, m)')
    BY <1>4, <2>2, <2>4, OthersStay
  <2> QED
    BY <1>3, <1>4, <2>1, <2>2, <2>3, EntryStays
<1>5. ASSUME NEW c \in Ops(body), Kind(c) = "copy", NEW j \in Nat, Ran(CommitOf(c), j)', ~Ran(CommitOf(c), j)
      PROVE  CommitNumber(c, j) = n + 1 + Landings
  <2>1. PICK u : u = CommitOf(c)
    OBVIOUS
  <2>2. u \in Ops(body) /\ j \in Int
    BY <1>5, <2>1, CommitOfCopy
  <2>3. u = o /\ j = k
    BY <1>5, <2>1, <2>2, OthersStay DEF CommitOf
  <2>4. CommitNumber(c, j) = 1 + CommitsBefore(NowTurn, NowPlace)
    BY <2>1, <2>3 DEF CommitNumber, Running
  <2> QED
    BY <1>2, <1>3, <2>4 DEF Committed
<1>8. \A e \in copies'.open : \E c \in Ops(body), j \in Nat : EntryOf(e, c, j)' /\ (j < trip => ~Ran(CommitOf(c), j)')
  BY <1>2
<1>9. \A i \in 1..Len(copies'.groups) : \A e \in copies'.groups[i] : \E c \in Ops(body), j \in Nat :
            EntryOf(e, c, j)' /\ (j < trip /\ Ran(CommitOf(c), j)' => i + Landings <= CommitNumber(c, j))
  <2> TAKE i \in 1..Len(copies'.groups)
  <2> TAKE e \in copies'.groups[i]
  <2>0. i \in Nat /\ i >= 1 /\ i <= n + 1
    BY <1>2
  <2>1. CASE i = n + 1
    <3>1. e \in copies.open
      BY <1>2, <2>1
    <3>2. PICK c \in Ops(body), j \in Nat : EntryOf(e, c, j) /\ (j < trip => ~Ran(CommitOf(c), j))
      BY <3>1 DEF GroupInv, Iterations
    <3>3. EntryOf(e, c, j)' /\ Kind(c) = "copy"
      BY <3>2, <1>4
    <3>4. ASSUME j < trip, Ran(CommitOf(c), j)' PROVE i + Landings <= CommitNumber(c, j)
      <4>1. CommitNumber(c, j) = n + 1 + Landings
        BY <1>5, <3>2, <3>3, <3>4
      <4> QED
        BY <1>2, <1>3, <2>1, <4>1
    <3> QED
      BY <3>3, <3>4
  <2>2. CASE i # n + 1
    <3>1. i \in 1..Len(copies.groups) /\ e \in copies.groups[i]
      BY <1>1, <1>2, <2>0, <2>2
    <3>2. PICK c \in Ops(body), j \in Nat :
            EntryOf(e, c, j) /\ (j < trip /\ Ran(CommitOf(c), j) => i + Landings <= CommitNumber(c, j))
      BY <3>1 DEF GroupInv, Iterations
    <3>3. EntryOf(e, c, j)' /\ Kind(c) = "copy"
      BY <3>2, <1>4
    <3>4. ASSUME j < trip, Ran(CommitOf(c), j)' PROVE i + Landings <= CommitNumber(c, j)
      <4>1. CASE Ran(CommitOf(c), j)
        BY <3>2, <3>4, <4>1
      <4>2. CASE ~Ran(CommitOf(c), j)
        <5>1. CommitNumber(c, j) = n + 1 + Landings
          BY <1>5, <3>3, <3>4, <4>2
        <5> QED
          BY <1>2, <1>3, <2>0, <5>1
      <4> QED
        BY <4>1, <4>2
    <3> QED
      BY <3>3, <3>4
  <2> QED
    BY <2>1, <2>2
<1>10. \A u \in Ops(body), m \in Int : Kind(u) = "wait" => (Ran(u, m)' <=> Ran(u, m))
  BY OthersStay
<1>11. Landings >= Landings
  BY <1>3
<1> QED
  BY <1>3, <1>8, <1>9, <1>10, <1>11, GroupInvAfter

LEMMA GroupLand ==
  ASSUME SoundProgram, PosInv, MemShape, GroupInv, UNCHANGED input, Stays, Committed' = Committed,
         copies.groups # <<>>,
         copies' = [open |-> copies.open, groups |-> Tail(copies.groups)]
  PROVE  GroupInv' /\ Landings' = Landings + 1
<1>1. PICK n : n = Len(copies.groups)
  OBVIOUS
<1>2. /\ Len(copies'.groups) = n - 1 /\ n \in Nat /\ n >= 1
      /\ copies'.groups = [i \in 1..(n - 1) |-> copies.groups[i + 1]]
      /\ copies'.open = copies.open
  BY <1>1, TailIsShorter DEF MemShape
<1>3. /\ Landings \in Int /\ Landings = Committed - n /\ Landings' = Landings + 1 /\ Committed \in Nat
      /\ trip' = trip /\ prog' = prog
  <2>1. Landings \in Int /\ Landings = Committed - n /\ Committed \in Nat
    BY <1>1, LandingsTyped
  <2>2. Landings' = Committed - (n - 1)
    BY <1>2 DEF Landings
  <2> QED
    BY <1>2, <2>1, <2>2, InputSame
<1>4. ASSUME NEW e, NEW c \in Ops(body), NEW j \in Nat, EntryOf(e, c, j)
      PROVE  EntryOf(e, c, j)' /\ (Ran(CommitOf(c), j)' <=> Ran(CommitOf(c), j))
  <2>1. PICK m, u : m = j + prog.buffers /\ u = CommitOf(c)
    OBVIOUS
  <2>2. Ran(c, j) /\ (j < trip => ~Ran(c, m)) /\ Kind(c) = "copy"
    BY <1>4, <2>1 DEF EntryOf
  <2>4. m \in Int /\ u \in Ops(body) /\ j \in Int
    BY <1>4, <2>1, <2>2, CommitOfCopy
  <2>3. Ran(c, j)' /\ (j < trip => ~Ran(c, m)') /\ (Ran(u, j)' <=> Ran(u, j))
    BY <1>4, <2>2, <2>4 DEF Stays
  <2>5. EntryOf(e, c, j)'
    BY <1>3, <1>4, <2>1, <2>3, EntryStays
  <2> QED
    BY <2>1, <2>3, <2>5 DEF CommitOf
<1>8. \A e \in copies'.open : \E c \in Ops(body), j \in Nat : EntryOf(e, c, j)' /\ (j < trip => ~Ran(CommitOf(c), j)')
  <2> TAKE e \in copies'.open
  <2>1. PICK c \in Ops(body), j \in Nat : EntryOf(e, c, j) /\ (j < trip => ~Ran(CommitOf(c), j))
    BY <1>2 DEF GroupInv, Iterations
  <2> QED
    BY <1>4, <2>1
<1>9. \A i \in 1..Len(copies'.groups) : \A e \in copies'.groups[i] : \E c \in Ops(body), j \in Nat :
            EntryOf(e, c, j)' /\ (j < trip /\ Ran(CommitOf(c), j)' => i + (Landings + 1) <= CommitNumber(c, j))
  <2> TAKE i \in 1..Len(copies'.groups)
  <2> TAKE e \in copies'.groups[i]
  <2>0. PICK l : l = i + 1
    OBVIOUS
  <2>1. l \in 1..Len(copies.groups) /\ e \in copies.groups[l] /\ i \in Int
    BY <1>1, <1>2, <2>0
  <2>2. PICK c \in Ops(body), j \in Nat :
            EntryOf(e, c, j) /\ (j < trip /\ Ran(CommitOf(c), j) => l + Landings <= CommitNumber(c, j))
    BY <2>1 DEF GroupInv, Iterations
  <2>3. l + Landings = i + (Landings + 1)
    BY <1>3, <2>0, <2>1
  <2> QED
    BY <1>4, <2>2, <2>3
<1>10. \A u \in Ops(body), m \in Int : Kind(u) = "wait" => (Ran(u, m)' <=> Ran(u, m))
  BY DEF Stays
<1>11. Landings + 1 >= Landings /\ Landings + 1 \in Int
  BY <1>3
<1> QED
  BY <1>3, <1>8, <1>9, <1>10, <1>11, GroupInvAfter
\* How many groups the wait that runs may leave.
LEMMA WaitLeaves ==
  ASSUME SoundProgram, PosInv, At({"wait"}), NEW i \in Steps, prog.kernel[i] = Instr.op
  PROVE  GroupsLeft(NowTurn, i) = Instr.wait
<1>0. OrderIsKept /\ PrologueIsComplete
  BY DEF SoundProgram, SoundSchedule
<1>1. /\ Instr.op \in Ops(body) /\ Kind(Instr.op) = "wait" /\ NowTurn \in Int
      /\ Turn(Instr.op, Instr.it) = NowTurn /\ Place(Instr.op) = NowPlace
  BY <1>0, InstrIsNow, NowTyped
<1>2. CASE part # "prologue"
  <2>1. NowTurn = pos.turn /\ NowPlace = pos.i /\ pos.turn \in Nat
    BY <1>0, <1>2, NowInKernel
  <2>2. i = pos.i
    BY <1>0, <1>1, <2>1 DEF OrderIsKept
  <2>3. Instr.wait = prog.waits.kernel[pos.i]
    BY <1>2 DEF Instr
  <2> QED
    BY <2>1, <2>2, <2>3 DEF GroupsLeft
<1>3. CASE part = "prologue"
  <2>1. /\ pos.i \in Early /\ Instr.op = prog.prologue[pos.i].op /\ Instr.it = prog.prologue[pos.i].it
        /\ IsEarly
    BY <1>0, <1>3, InstrIsNow
  <2>2. NowTurn < 0
    BY <1>0, <2>1, NowTyped
  <2> DEFINE Is(j) == prog.prologue[j].op = prog.kernel[i] /\ Turn(prog.prologue[j].op, prog.prologue[j].it) = NowTurn
  <2>3. Is(pos.i)
    BY <1>1, <2>1
  <2>4. ASSUME NEW j \in Early, Is(j) PROVE j = pos.i
    <3>1. PICK n : n = pos.i
      OBVIOUS
    <3>2. /\ Turn(prog.prologue[j].op, prog.prologue[j].it) = NowTurn
          /\ Turn(prog.prologue[n].op, prog.prologue[n].it) = NowTurn
          /\ Place(prog.prologue[j].op) = NowPlace /\ Place(prog.prologue[n].op) = NowPlace
      BY <1>1, <2>1, <2>4, <3>1
    <3>3. ~Before(NowTurn, NowPlace, NowTurn, NowPlace)
      <4>1. NowTurn \in Int /\ NowPlace \in Int
        BY <1>0, NowTyped
      <4> QED
        BY <4>1 DEF Before
    <3>4. n \in Early
      BY <2>1, <3>1
    <3>5. ~(j < n) /\ ~(n < j)
      BY <1>0, <3>2, <3>3, <3>4, EarlyOrder
    <3>6. j \in Int /\ n \in Int
      BY <1>0, <3>4 DEF Early, PrologueIsComplete
    <3> QED
      BY <3>1, <3>5, <3>6
  <2>5. (CHOOSE j \in Early : Is(j)) = pos.i
    BY <2>1, <2>3, <2>4
  <2>6. GroupsLeft(NowTurn, i) = prog.waits.prologue[pos.i]
    <3>1. ~(NowTurn >= 0)
      BY <1>1, <2>2
    <3>2. GroupsLeft(NowTurn, i) = prog.waits.prologue[CHOOSE j \in Early : Is(j)]
      BY <3>1 DEF GroupsLeft
    <3> QED
      BY <2>5, <3>2
  <2> QED
    BY <1>3, <2>6 DEF Instr
<1> QED
  BY <1>2, <1>3

LEMMA GroupWait ==
  ASSUME SoundProgram, PosInv, MemShape, GroupInv, UNCHANGED input, At({"wait"}),
         Advances(Instr.op, Instr.it), Committed' = Committed, copies' = copies,
         Instr.wait # NoWait => Len(copies.groups) <= Instr.wait
  PROVE  GroupInv' /\ Landings' = Landings
<1>0. OrderIsKept /\ PrologueIsComplete
  BY DEF SoundProgram, SoundSchedule
<1>1. PICK o, k : o = Instr.op /\ k = Instr.it
  OBVIOUS
<1>2. /\ o \in Ops(body) /\ k \in Nat /\ Kind(o) = "wait" /\ NowTurn \in Int
      /\ Turn(o, k) = NowTurn /\ Place(o) = NowPlace /\ Advances(o, k)
  BY <1>0, <1>1, InstrIsNow, NowTyped
<1>3. /\ Landings \in Int /\ Landings = Committed - Len(copies.groups) /\ Landings' = Landings
      /\ Committed \in Nat /\ Len(copies.groups) \in Nat
      /\ trip' = trip /\ prog' = prog /\ body' = body
  <2>1. Landings' = Landings
    BY DEF Landings
  <2> QED
    BY <2>1, LandingsTyped, InputSame
<1>4. ASSUME NEW e, NEW c \in Ops(body), NEW j \in Nat, EntryOf(e, c, j)
      PROVE  EntryOf(e, c, j)' /\ (Ran(CommitOf(c), j)' <=> Ran(CommitOf(c), j))
  <2>1. PICK m, u : m = j + prog.buffers /\ u = CommitOf(c)
    OBVIOUS
  <2>2. Ran(c, j) /\ (j < trip => ~Ran(c, m)) /\ Kind(c) = "copy"
    BY <1>4, <2>1 DEF EntryOf
  <2>4. m \in Int /\ u \in Ops(body) /\ j \in Int /\ c # o /\ u # o
    BY <1>2, <1>4, <2>1, <2>2, CommitOfCopy
  <2>3. Ran(c, j)' /\ (j < trip => ~Ran(c, m)') /\ (Ran(u, j)' <=> Ran(u, j))
    BY <1>2, <1>4, <2>2, <2>4, OthersStay
  <2>5. EntryOf(e, c, j)'
    BY <1>3, <1>4, <2>1, <2>3, EntryStays
  <2> QED
    BY <2>1, <2>3, <2>5 DEF CommitOf
<1>5. ASSUME NEW c \in Ops(body), NEW j \in Nat, NEW t \in Int, NEW i \in Steps,
             Kind(c) = "copy", LandsBy(c, j, t, i), Reached(t, i)'
      PROVE  CommitNumber(c, j) <= Landings
  <2>1. CASE Reached(t, i)
    BY <1>5, <2>1 DEF GroupInv, Iterations, Turns
  <2>2. CASE ~Reached(t, i)
    <3>1. /\ Kind(prog.kernel[i]) = "wait" /\ t >= Turn(prog.kernel[i], 0) /\ GroupsLeft(t, i) \in Nat
          /\ CommitNumber(c, j) + GroupsLeft(t, i) <= CommitsBefore(t, i)
      BY <1>5 DEF LandsBy
    <3>2. PICK w, m : w = prog.kernel[i] /\ m \in Nat /\ Turn(w, m) = t /\ w \in Ops(body) /\ Place(w) = i
      BY <3>1, WaitOfTurn
    <3>3. Ran(w, m)'
      <4>1. Turn(w, m)' = t /\ Place(w)' = i
        BY <3>2, ProgramStays
      <4> QED
        BY <1>5, <3>2, <4>1 DEF Ran
    <3>4. ~Ran(w, m)
      BY <2>2, <3>2 DEF Ran
    <3>5. w = o /\ m = k
      BY <1>2, <3>2, <3>3, <3>4, OthersStay
    <3>6. t = NowTurn /\ i = NowPlace
      BY <1>2, <3>2, <3>5
    <3>7. GroupsLeft(t, i) = Instr.wait
      BY <1>1, <3>2, <3>5, <3>6, WaitLeaves
    <3>8. Instr.wait # NoWait
      BY <3>1, <3>7 DEF NoWait
    <3>9. CommitsBefore(t, i) = Committed
      BY <3>6 DEF Committed
    <3>10. CommitNumber(c, j) \in Int
      BY <1>5, CommitNumberTyped
    <3>11. Len(copies.groups) <= GroupsLeft(t, i)
      BY <3>7, <3>8
    <3> QED
      BY <1>3, <3>1, <3>9, <3>10, <3>11
  <2> QED
    BY <2>1, <2>2
<1>8. \A e \in copies'.open : \E c \in Ops(body), j \in Nat : EntryOf(e, c, j)' /\ (j < trip => ~Ran(CommitOf(c), j)')
  <2> TAKE e \in copies'.open
  <2>1. PICK c \in Ops(body), j \in Nat : EntryOf(e, c, j) /\ (j < trip => ~Ran(CommitOf(c), j))
    BY DEF GroupInv, Iterations
  <2> QED
    BY <1>4, <2>1
<1>9. \A i \in 1..Len(copies'.groups) : \A e \in copies'.groups[i] : \E c \in Ops(body), j \in Nat :
            EntryOf(e, c, j)' /\ (j < trip /\ Ran(CommitOf(c), j)' => i + Landings <= CommitNumber(c, j))
  <2> TAKE i \in 1..Len(copies'.groups)
  <2> TAKE e \in copies'.groups[i]
  <2>2. PICK c \in Ops(body), j \in Nat :
            EntryOf(e, c, j) /\ (j < trip /\ Ran(CommitOf(c), j) => i + Landings <= CommitNumber(c, j))
    BY DEF GroupInv, Iterations
  <2> QED
    BY <1>4, <2>2
<1>10. /\ Steps' = Steps /\ (\A c, j, t, i : LandsBy(c, j, t, i)' <=> LandsBy(c, j, t, i))
       /\ \A c, j : CommitNumber(c, j)' = CommitNumber(c, j)
  BY StaticStays
<1>11. \A c \in Ops(body), j \in Nat, t \in Int, i \in Steps :
           Kind(c) = "copy" /\ LandsBy(c, j, t, i)' /\ Reached(t, i)' => CommitNumber(c, j)' <= Landings'
  BY <1>3, <1>5, <1>10
<1>12. Landings >= 0
  BY DEF GroupInv
<1>13. \A c : CommitOf(c)' = CommitOf(c)
  BY DEF CommitOf
<1>14. GroupInv'
  BY <1>3, <1>8, <1>9, <1>10, <1>11, <1>12, <1>13 DEF GroupInv, Iterations, Turns
<1> QED
  BY <1>3, <1>14

-----------------------------------------------------------------------------
(***************************************************************************)
(* What the buffers hold of copies.                                        *)
(***************************************************************************)
\* What is still looked for after an operation was looked for before, unless it fills it itself.
LEMMA CurrentBefore ==
  ASSUME UNCHANGED input, NEW o, NEW j, Advances(o, j), NEW c \in Ops(body), NEW k \in Nat, prog.buffers \in Nat \ {0},
         Current(c, k)', ~(c = o /\ k = j)
  PROVE  Current(c, k) /\ ~(c = o /\ j = k + prog.buffers)
<1>1. PICK n : n = k + prog.buffers
  OBVIOUS
<1>2. k < trip /\ Ran(c, k)' /\ ~Ran(c, n)' /\ n \in Int /\ k \in Int
  BY <1>1, InputSame DEF Current
<1>3. Ran(c, k) /\ ~Ran(c, n) /\ ~(c = o /\ n = j)
  BY <1>2, OthersStay
<1> QED
  BY <1>1, <1>2, <1>3 DEF Current

LEMMA CurrentAfter ==
  ASSUME UNCHANGED input, NEW c \in Ops(body), NEW k \in Nat, prog.buffers \in Nat \ {0},
         \A m \in Int : Ran(c, m)' <=> Ran(c, m)
  PROVE  Current(c, k)' <=> Current(c, k)
<1>1. PICK n : n = k + prog.buffers
  OBVIOUS
<1>2. (Ran(c, k)' <=> Ran(c, k)) /\ (Ran(c, n)' <=> Ran(c, n)) /\ prog' = prog /\ trip' = trip
  BY <1>1, InputSame
<1> QED
  BY <1>1, <1>2 DEF Current

LEMMA FillsBuffer ==
  ASSUME SoundProgram, PosInv, MemShape, NEW c, IsFill(c), NEW k \in Nat
  PROVE  Buffer(Tag(c), k) \in DOMAIN slot
<1>1. prog.buffers \in Nat \ {0} /\ Tag(c) \in {Tag(l) : l \in ToSet(prog.loads)}
  BY FillFacts
<1>2. k % prog.buffers \in 0..(prog.buffers - 1)
  BY <1>1, DivMod
<1>3. DOMAIN slot = Buffers({Tag(l) : l \in ToSet(prog.loads)})
  BY DEF MemShape
<1> QED
  BY <1>1, <1>2, <1>3 DEF Buffer, Buffers

\* What is to be shown of each copy.
InSlot(c, k, L) ==
  LET x == Buffer(Tag(c), k) IN
  /\ FullOf(x, k)
  /\ \/ slot[x].landed
     \/ ~Ran(CommitOf(c), k) /\ \E e \in copies.open : e.at = x
     \/ \E i \in 1..Len(copies.groups) : (\E e \in copies.groups[i] : e.at = x)
                                             /\ (Ran(CommitOf(c), k) => i + L <= CommitNumber(c, k))

LEMMA CopySlotsAfter ==
  ASSUME UNCHANGED input,
         \A c \in Ops(body), k \in Nat : Kind(c) = "copy" /\ Current(c, k)' => InSlot(c, k, Landings)'
  PROVE  CopySlots'
BY InputSame DEF CopySlots, InSlot, CopyOnItsWay, Iterations

LEMMA InSlotStays ==
  ASSUME UNCHANGED input, NEW c, NEW k,
         LET x == Buffer(Tag(c), k) IN
           /\ slot'[x] # None /\ slot'[x].it = k
           /\ \/ slot'[x].landed
              \/ ~Ran(CommitOf(c), k)' /\ \E e \in copies'.open : e.at = x
              \/ \E i \in 1..Len(copies'.groups) : (\E e \in copies'.groups[i] : e.at = x)
                                             /\ (Ran(CommitOf(c), k)' => i + Landings' <= CommitNumber(c, k))
  PROVE  InSlot(c, k, Landings)'
<1>1. /\ Buffer(Tag(c), k)' = Buffer(Tag(c), k) /\ CommitNumber(c, k)' = CommitNumber(c, k) /\ CommitOf(c)' = CommitOf(c)
      /\ None' = None
  BY StaticStays DEF CommitOf, None
<1> QED
  BY <1>1 DEF InSlot, FullOf

LEMMA CopyInSlot ==
  ASSUME CopySlots, NEW c \in Ops(body), NEW k \in Nat, Kind(c) = "copy", Current(c, k)
  PROVE  InSlot(c, k, Landings)
BY DEF CopySlots, InSlot, CopyOnItsWay, Iterations

LEMMA CopySlotsQuiet ==
  ASSUME SoundProgram, PosInv, CopySlots, UNCHANGED input, UNCHANGED copies, Landings' = Landings,
         \A u \in Ops(body), m \in Int : Kind(u) \in {"copy", "commit"} => (Ran(u, m)' <=> Ran(u, m)),
         \A c \in Ops(body), k \in Nat : Kind(c) = "copy" /\ Current(c, k) => slot'[Buffer(Tag(c), k)] = slot[Buffer(Tag(c), k)]
  PROVE  CopySlots'
<1>1. ASSUME NEW c \in Ops(body), NEW k \in Nat, Kind(c) = "copy", Current(c, k)' PROVE InSlot(c, k, Landings)'
  <2>1. PICK u, x : u = CommitOf(c) /\ x = Buffer(Tag(c), k)
    OBVIOUS
  <2>2. u \in Ops(body) /\ Kind(u) = "commit" /\ prog.buffers \in Nat \ {0} /\ k \in Int
    BY <1>1, <2>1, CommitOfCopy
  <2>3. \A m \in Int : Ran(c, m)' <=> Ran(c, m)
    BY <1>1
  <2>4. Current(c, k)
    BY <1>1, <2>2, <2>3, CurrentAfter
  <2>5. slot'[x] = slot[x]
    BY <1>1, <2>1, <2>4
  <2>6. Ran(CommitOf(c), k)' <=> Ran(CommitOf(c), k)
    <3>1. Ran(u, k)' <=> Ran(u, k)
      BY <2>2
    <3> QED
      BY <2>1, <3>1 DEF CommitOf
  <2>7. InSlot(c, k, Landings)
    BY <1>1, <2>4, CopyInSlot
  <2>8. copies' = copies
    OBVIOUS
  <2> QED
    BY <2>1, <2>5, <2>6, <2>7, <2>8, InSlotStays DEF InSlot, FullOf
<1> QED
  BY <1>1, CopySlotsAfter

LEMMA SlotCopy ==
  ASSUME SoundProgram, PosInv, MemShape, GroupInv, CopySlots, UNCHANGED input, Landings' = Landings,
         NEW o, NEW k, Running(o, k), Advances(o, k), Kind(o) = "copy", NEW v, Right(o, k, v), NEW on,
         copies' = [open |-> copies.open \cup {[at |-> Buffer(Tag(o), k), it |-> v, read |-> on]},
                    groups |-> copies.groups],
         slot' = [slot EXCEPT ![Buffer(Tag(o), k)] = [it |-> v, landed |-> FALSE, read |-> on]]
  PROVE  CopySlots'
<1>1. /\ o \in Ops(body) /\ k \in Nat /\ IsFill(o) /\ prog.buffers \in Nat \ {0}
      /\ CommitOf(o) \in Ops(body) /\ Kind(CommitOf(o)) = "commit" /\ Precedes(o, 0, CommitOf(o))
  BY CommitOfCopy DEF Running
<1>2. Buffer(Tag(o), k) \in DOMAIN slot /\ trip' = trip
  BY <1>1, FillsBuffer, InputSame
<1>3. ASSUME NEW c \in Ops(body), NEW j \in Nat, Kind(c) = "copy", Current(c, j)' PROVE InSlot(c, j, Landings)'
  <2>1. PICK u, x : u = CommitOf(c) /\ x = Buffer(Tag(c), j)
    OBVIOUS
  <2>2. u \in Ops(body) /\ u # o /\ prog.buffers \in Nat \ {0} /\ j \in Int /\ IsFill(c)
    BY <1>3, <2>1, CommitOfCopy
  <2>3. Ran(CommitOf(c), j)' <=> Ran(CommitOf(c), j)
    <3>1. Ran(u, j)' <=> Ran(u, j)
      BY <2>2, OthersStay
    <3> QED
      BY <2>1, <3>1 DEF CommitOf
  <2>4. CASE c = o /\ j = k
    <3>1. slot'[x] = [it |-> v, landed |-> FALSE, read |-> on]
      BY <1>2, <2>1, <2>4
    <3>2. v = k
      BY <1>2, <1>3, <2>4 DEF Right, Current
    <3>3. ~Ran(CommitOf(o), k)
      <4>1. 0 \in Int /\ k + 0 <= k
        BY <1>1
      <4> QED
        BY <1>1, <4>1, RunningIsNew DEF SoundProgram, SoundSchedule
    <3>4. \E e \in copies'.open : e.at = x
      <4>1. PICK e : e = [at |-> x, it |-> v, read |-> on]
        OBVIOUS
      <4>2. e \in copies'.open /\ e.at = x
        BY <2>1, <2>4, <4>1
      <4> QED
        BY <4>2
    <3>5. slot'[x] # None /\ slot'[x].it = j
      BY <2>4, <3>1, <3>2, NotNone
    <3>6. ~Ran(CommitOf(c), j)'
      <4>1. ~Ran(CommitOf(c), j)
        BY <2>4, <3>3
      <4> QED
        BY <2>3, <4>1
    <3> QED
      BY <2>1, <3>4, <3>5, <3>6, InSlotStays
  <2>5. CASE ~(c = o /\ j = k)
    <3>1. Current(c, j) /\ ~(c = o /\ k = j + prog.buffers)
      BY <1>3, <2>2, <2>5, CurrentBefore
    <3>2. Buffer(Tag(c), j) # Buffer(Tag(o), k)
      BY <1>1, <2>2, <3>1, FilledAnew DEF Current
    <3>3. slot'[x] = slot[x]
      BY <2>1, <3>2
    <3>4. InSlot(c, j, Landings)
      BY <1>3, <3>1, CopyInSlot
    <3>5. copies'.groups = copies.groups /\ copies.open \subseteq copies'.open
      OBVIOUS
    <3>6. /\ slot'[x] # None /\ slot'[x].it = j
          /\ \/ slot'[x].landed
             \/ ~Ran(CommitOf(c), j)' /\ \E e \in copies'.open : e.at = x
             \/ \E i \in 1..Len(copies'.groups) : (\E e \in copies'.groups[i] : e.at = x)
                                             /\ (Ran(CommitOf(c), j)' => i + Landings' <= CommitNumber(c, j))
      <4>1. /\ slot[x] # None /\ slot[x].it = j
            /\ \/ slot[x].landed
               \/ ~Ran(CommitOf(c), j) /\ \E e \in copies.open : e.at = x
               \/ \E i \in 1..Len(copies.groups) : (\E e \in copies.groups[i] : e.at = x)
                                               /\ (Ran(CommitOf(c), j) => i + Landings <= CommitNumber(c, j))
        BY <2>1, <3>4 DEF InSlot, FullOf
      <4> QED
        BY <2>3, <3>3, <3>5, <4>1
    <3> QED
      BY <2>1, <3>6, InSlotStays
  <2> QED
    BY <2>4, <2>5
<1> QED
  BY <1>3, CopySlotsAfter

LEMMA SlotCommit ==
  ASSUME SoundProgram, PosInv, MemShape, GroupInv, CopySlots, UNCHANGED input, Landings' = Landings,
         NEW o, NEW k, Running(o, k), Advances(o, k), Kind(o) = "commit", slot' = slot,
         copies' = [open |-> {}, groups |-> Append(copies.groups, copies.open)]
  PROVE  CopySlots'
<1>1. PICK n : n = Len(copies.groups)
  OBVIOUS
<1>2. /\ Len(copies'.groups) = n + 1 /\ n \in Nat
      /\ copies'.groups = [i \in 1..(n + 1) |-> IF i = n + 1 THEN copies.open ELSE copies.groups[i]]
      /\ copies'.open = {}
  BY <1>1, AppendIsLonger DEF MemShape
<1>3. /\ Landings \in Int /\ Landings = Committed - n /\ Committed \in Nat
  BY <1>1, LandingsTyped
<1>4. ASSUME NEW c \in Ops(body), NEW j \in Nat, Kind(c) = "copy", Current(c, j)' PROVE InSlot(c, j, Landings)'
  <2>1. PICK u, x : u = CommitOf(c) /\ x = Buffer(Tag(c), j)
    OBVIOUS
  <2>2. u \in Ops(body) /\ c # o /\ prog.buffers \in Nat \ {0} /\ j \in Int
    BY <1>4, <2>1, CommitOfCopy
  <2>3. \A m \in Int : Ran(c, m)' <=> Ran(c, m)
    BY <2>2, OthersStay
  <2>4. Current(c, j)
    BY <1>4, <2>2, <2>3, CurrentAfter
  <2>5. ASSUME Ran(CommitOf(c), j)', ~Ran(CommitOf(c), j)
        PROVE  CommitNumber(c, j) = n + 1 + Landings
    <3>1. u = o /\ j = k
      BY <2>1, <2>2, <2>5, OthersStay DEF CommitOf
    <3>2. CommitNumber(c, j) = 1 + CommitsBefore(NowTurn, NowPlace)
      BY <2>1, <3>1 DEF CommitNumber, Running
    <3> QED
      BY <1>2, <1>3, <3>2 DEF Committed
  <2>6. InSlot(c, j, Landings)
    BY <1>4, <2>4, CopyInSlot
  <2>7. /\ slot[x] # None /\ slot[x].it = j
        /\ \/ slot[x].landed
           \/ ~Ran(CommitOf(c), j) /\ \E e \in copies.open : e.at = x
           \/ \E i \in 1..Len(copies.groups) : (\E e \in copies.groups[i] : e.at = x)
                                             /\ (Ran(CommitOf(c), j) => i + Landings <= CommitNumber(c, j))
    BY <2>1, <2>6 DEF InSlot, FullOf
  <2>8. CASE slot[x].landed
    BY <2>1, <2>7, <2>8, InSlotStays
  <2>9. CASE ~Ran(CommitOf(c), j) /\ \E e \in copies.open : e.at = x
    <3>1. Ran(CommitOf(c), j)' => (n + 1) + Landings <= CommitNumber(c, j)
      BY <1>2, <1>3, <2>5, <2>9
    <3>2. n + 1 \in 1..Len(copies'.groups) /\ copies'.groups[n + 1] = copies.open
      BY <1>2
    <3>3. \E i \in 1..Len(copies'.groups) : (\E e \in copies'.groups[i] : e.at = x)
                                             /\ (Ran(CommitOf(c), j)' => i + Landings' <= CommitNumber(c, j))
      BY <2>9, <3>1, <3>2
    <3> QED
      BY <2>1, <2>7, <3>3, InSlotStays
  <2>10. CASE \E i \in 1..Len(copies.groups) : (\E e \in copies.groups[i] : e.at = x)
                                             /\ (Ran(CommitOf(c), j) => i + Landings <= CommitNumber(c, j))
    <3>1. PICK i \in 1..Len(copies.groups) : (\E e \in copies.groups[i] : e.at = x)
                                             /\ (Ran(CommitOf(c), j) => i + Landings <= CommitNumber(c, j))
      BY <2>10
    <3>2. i \in Nat /\ i >= 1 /\ i <= n
      BY <1>1, <1>2
    <3>3. Ran(CommitOf(c), j)' => i + Landings <= CommitNumber(c, j)
      <4>1. CASE Ran(CommitOf(c), j)
        BY <3>1, <4>1
      <4>2. CASE ~Ran(CommitOf(c), j)
        BY <1>2, <1>3, <2>5, <3>2, <4>2
      <4> QED
        BY <4>1, <4>2
    <3>4. i \in 1..Len(copies'.groups) /\ copies'.groups[i] = copies.groups[i]
      BY <1>2, <3>2
    <3>5. \E l \in 1..Len(copies'.groups) : (\E e \in copies'.groups[l] : e.at = x)
                                             /\ (Ran(CommitOf(c), j)' => l + Landings' <= CommitNumber(c, j))
      BY <3>1, <3>3, <3>4
    <3> QED
      BY <2>1, <2>7, <3>5, InSlotStays
  <2> QED
    BY <2>7, <2>8, <2>9, <2>10
<1> QED
  BY <1>4, CopySlotsAfter

\* A copy in flight is of what its buffer is looked in for.
LEMMA EntryIsCurrent ==
  ASSUME SoundProgram, PosInv, NEW e, NEW c \in Ops(body), NEW k \in Nat, EntryOf(e, c, k),
         NEW d, IsFill(d), NEW m \in Nat, Current(d, m), e.at = Buffer(Tag(d), m)
  PROVE  c = d /\ e.it = m
<1>1. /\ IsFill(c) /\ Ran(c, k) /\ (k < trip => ~Ran(c, k + prog.buffers) /\ e.it = k)
      /\ Buffer(Tag(c), k) = Buffer(Tag(d), m) /\ m < trip
  BY DEF EntryOf, IsFill, Current
<1>2. c = d /\ k = m
  BY <1>1, LatestInBuffer
<1> QED
  BY <1>1, <1>2

LEMMA SlotLand ==
  ASSUME SoundProgram, PosInv, MemShape, GroupInv, CopySlots, UNCHANGED input, Stays, Landings' = Landings + 1,
         copies.groups # <<>>, slot' = Landed(Head(copies.groups)),
         copies' = [open |-> copies.open, groups |-> Tail(copies.groups)]
  PROVE  /\ CopySlots'
         /\ \A d \in Ops(body), m \in Nat : Kind(d) = "tmacopy" /\ Current(d, m) =>
              slot'[Buffer(Tag(d), m)] = slot[Buffer(Tag(d), m)]
<1>1. PICK n, g : n = Len(copies.groups) /\ g = Head(copies.groups)
  OBVIOUS
<1>2. /\ Len(copies'.groups) = n - 1 /\ n \in Nat /\ n >= 1 /\ g = copies.groups[1]
      /\ copies'.groups = [i \in 1..(n - 1) |-> copies.groups[i + 1]]
      /\ copies'.open = copies.open
  BY <1>1, TailIsShorter DEF MemShape
<1>3. /\ Landings \in Int
  BY LandingsTyped
<1>4. ASSUME NEW e \in g, NEW d, IsFill(d), NEW m \in Nat, Current(d, m), e.at = Buffer(Tag(d), m)
      PROVE  Kind(d) = "copy" /\ e.it = m
  <2>1. 1 \in 1..Len(copies.groups) /\ e \in copies.groups[1]
    BY <1>1, <1>2
  <2>2. PICK c \in Ops(body), k \in Nat : EntryOf(e, c, k)
    BY <2>1 DEF GroupInv, Iterations
  <2>3. c = d /\ e.it = m
    BY <1>4, <2>2, EntryIsCurrent
  <2> QED
    BY <2>2, <2>3 DEF EntryOf
<1>5. ASSUME NEW c \in Ops(body), NEW j \in Nat, Kind(c) = "copy", Current(c, j)' PROVE InSlot(c, j, Landings)'
  <2>1. PICK u, x : u = CommitOf(c) /\ x = Buffer(Tag(c), j)
    OBVIOUS
  <2>2. u \in Ops(body) /\ prog.buffers \in Nat \ {0} /\ j \in Int /\ IsFill(c)
    BY <1>5, <2>1, CommitOfCopy
  <2>3. \A m \in Int : Ran(c, m)' <=> Ran(c, m)
    BY <1>5 DEF Stays
  <2>4. Current(c, j)
    BY <1>5, <2>2, <2>3, CurrentAfter
  <2>5. Ran(CommitOf(c), j)' <=> Ran(CommitOf(c), j)
    <3>1. Ran(u, j)' <=> Ran(u, j)
      BY <2>2 DEF Stays
    <3> QED
      BY <2>1, <3>1 DEF CommitOf
  <2>6. InSlot(c, j, Landings)
    BY <1>5, <2>4, CopyInSlot
  <2>7. /\ slot[x] # None /\ slot[x].it = j
        /\ \/ slot[x].landed
           \/ ~Ran(CommitOf(c), j) /\ \E e \in copies.open : e.at = x
           \/ \E i \in 1..Len(copies.groups) : (\E e \in copies.groups[i] : e.at = x)
                                             /\ (Ran(CommitOf(c), j) => i + Landings <= CommitNumber(c, j))
    BY <2>1, <2>6 DEF InSlot, FullOf
  <2>8. x \in DOMAIN slot
    BY <2>1, <2>2, FillsBuffer
  <2>9. CASE \E e \in g : e.at = x
    <3>0. slot' = Landed(g)
      BY <1>1
    <3>5. PICK e \in g : e.at = x /\ Landed(g)[x] = [it |-> e.it, landed |-> TRUE, read |-> e.read]
      BY <2>8, <2>9, LandedThere, SMTT(60)
    <3>1. e.at = x /\ slot'[x] = [it |-> e.it, landed |-> TRUE, read |-> e.read]
      BY <3>0, <3>5
    <3>2. e.it = j
      BY <1>4, <2>1, <2>2, <2>4, <3>1
    <3>3. slot'[x] # None /\ slot'[x].it = j /\ slot'[x].landed
      BY <3>1, <3>2, NotNone
    <3> QED
      BY <2>1, <3>3, InSlotStays
  <2>10. CASE ~(\E e \in g : e.at = x)
    <3>1. slot'[x] = slot[x]
      BY <1>1, <2>8, <2>10, LandedElsewhere
    <3>2. CASE slot[x].landed \/ (~Ran(CommitOf(c), j) /\ \E e \in copies.open : e.at = x)
      BY <1>2, <2>1, <2>5, <2>7, <3>1, <3>2, InSlotStays
    <3>3. CASE \E i \in 1..Len(copies.groups) : (\E e \in copies.groups[i] : e.at = x)
                                             /\ (Ran(CommitOf(c), j) => i + Landings <= CommitNumber(c, j))
      <4>1. PICK i \in 1..Len(copies.groups) : (\E e \in copies.groups[i] : e.at = x)
                                             /\ (Ran(CommitOf(c), j) => i + Landings <= CommitNumber(c, j))
        BY <3>3
      <4>2. i \in Nat /\ i >= 1 /\ i <= n /\ i # 1
        BY <1>1, <1>2, <2>10, <4>1
      <4>3. PICK l : l = i - 1
        OBVIOUS
      <4>6. l \in 1..(n - 1) /\ l + 1 = i
        BY <1>2, <4>2, <4>3
      <4>7. l + (Landings + 1) = i + Landings
        BY <1>3, <4>2, <4>3
      <4>4. l \in 1..Len(copies'.groups) /\ copies'.groups[l] = copies.groups[i] /\ l + Landings' = i + Landings
        BY <1>2, <4>6, <4>7
      <4>5. \E q \in 1..Len(copies'.groups) : (\E e \in copies'.groups[q] : e.at = x)
                                             /\ (Ran(CommitOf(c), j)' => q + Landings' <= CommitNumber(c, j))
        BY <2>5, <4>1, <4>4
      <4> QED
        BY <2>1, <2>7, <3>1, <4>5, InSlotStays
    <3> QED
      BY <2>7, <3>2, <3>3
  <2> QED
    BY <2>9, <2>10
<1>6. ASSUME NEW d \in Ops(body), NEW m \in Nat, Kind(d) = "tmacopy", Current(d, m)
      PROVE  slot'[Buffer(Tag(d), m)] = slot[Buffer(Tag(d), m)]
  <2>1. IsFill(d)
    BY <1>6 DEF IsFill
  <2>2. ~(\E e \in g : e.at = Buffer(Tag(d), m))
    BY <1>4, <1>6, <2>1
  <2>3. Buffer(Tag(d), m) \in DOMAIN slot
    BY <2>1, FillsBuffer
  <2> QED
    BY <1>1, <2>2, <2>3, LandedElsewhere
<1> QED
  BY <1>5, <1>6, CopySlotsAfter

-----------------------------------------------------------------------------
(***************************************************************************)
(* Bulk copies and their barriers.                                         *)
(***************************************************************************)
LEMMA ExpectFacts ==
  ASSUME SoundProgram, NEW e \in Ops(body), Kind(e) = "expect"
  PROVE  /\ e = <<"expect", Tag(e)>> /\ prog.buffers \in Nat \ {0} /\ Owed(Tag(e)) # {}
         /\ WaitOf(e) \in Ops(body) /\ Kind(WaitOf(e)) = "twait" /\ WaitOf(e) # e
         /\ Precedes(e, 0, WaitOf(e)) /\ Precedes(WaitOf(e), prog.buffers, e)
         /\ Tag(e) \in {Tag(g[1]) : g \in ToSet(prog.groups)}
BY DEF SoundProgram, SoundSchedule, BulkCopiesLand, WaitOf, Kind

LEMMA BulkFacts ==
  ASSUME SoundProgram, NEW c \in Ops(body), Kind(c) = "tmacopy"
  PROVE  /\ IsFill(c) /\ ExpectOf(c) \in Ops(body) /\ Kind(ExpectOf(c)) = "expect" /\ Tag(ExpectOf(c)) = GroupOf(Tag(c))
         /\ Tag(c) \in Owed(GroupOf(Tag(c)))
         /\ Precedes(ExpectOf(c), 0, c) /\ Precedes(c, 0, WaitOf(ExpectOf(c)))
         /\ \A u \in Readers(Tag(c)) : Precedes(WaitOf(ExpectOf(c)), 0, u)
BY DEF SoundProgram, SoundSchedule, BulkCopiesLand, ExpectOf, Kind, Tag, IsFill

LEMMA BarrierAt ==
  ASSUME SoundProgram, MemShape, NEW e \in Ops(body), Kind(e) = "expect", NEW k \in Nat
  PROVE  Buffer(Tag(e), k) \in DOMAIN tma.barrier
<1>1. prog.buffers \in Nat \ {0} /\ Tag(e) \in {Tag(g[1]) : g \in ToSet(prog.groups)}
  BY ExpectFacts
<1>2. k % prog.buffers \in 0..(prog.buffers - 1)
  BY <1>1, DivMod
<1>3. DOMAIN tma.barrier = Buffers({Tag(g[1]) : g \in ToSet(prog.groups)})
  BY DEF MemShape
<1> QED
  BY <1>1, <1>2, <1>3 DEF Buffer, Buffers

\* While its copies are not waited for, a barrier is not used again.
LEMMA ExpectIsCurrent ==
  ASSUME SoundProgram, PosInv, NEW c \in Ops(body), Kind(c) = "tmacopy", NEW k \in Nat, k < trip,
         Ran(c, k) \/ Running(c, k), ~Ran(WaitOf(ExpectOf(c)), k)
  PROVE  Current(ExpectOf(c), k)
<1>1. PICK e, w : e = ExpectOf(c) /\ w = WaitOf(e)
  OBVIOUS
<1>2. /\ e \in Ops(body) /\ Kind(e) = "expect" /\ Precedes(e, 0, c)
  BY <1>1, BulkFacts
<1>3. /\ w \in Ops(body) /\ Precedes(w, prog.buffers, e) /\ prog.buffers \in Nat \ {0}
  BY <1>1, <1>2, ExpectFacts
<1>4. k + 0 <= k /\ 0 \in Int /\ k \in Int
  OBVIOUS
<1>5. Ran(e, k)
  BY <1>2, <1>4, RanNeeds, RunningNeeds DEF SoundProgram, SoundSchedule
<1>6. PICK n : n = k + prog.buffers
  OBVIOUS
<1>7. n \in Int /\ k + prog.buffers <= n /\ prog.buffers \in Int
  BY <1>3, <1>6
<1>8. ~Ran(e, n)
  BY <1>1, <1>2, <1>3, <1>7, RanNeeds DEF SoundProgram, SoundSchedule
<1> QED
  BY <1>1, <1>5, <1>6, <1>8 DEF Current

LEMMA FlyingIsCurrent ==
  ASSUME SoundProgram, PosInv, NEW e, NEW c \in Ops(body), NEW k \in Nat, FlyingOf(e, c, k),
         NEW d, IsFill(d), NEW m \in Nat, Current(d, m), e.at = Buffer(Tag(d), m)
  PROVE  /\ c = d /\ k = m /\ e.it = m /\ k < trip
         /\ e.barrier = Buffer(GroupOf(Tag(c)), k) /\ Tag(c) \in tma.barrier[e.barrier].owed
<1>1. /\ IsFill(c) /\ Ran(c, k) /\ (k < trip => ~Ran(c, k + prog.buffers) /\ e.it = k)
      /\ m < trip
  BY DEF FlyingOf, IsFill, Current
<1>2. e.at = Buffer(Tag(c), k) /\ e.barrier = Buffer(GroupOf(Tag(c)), k)
  BY DEF FlyingOf
<1>3. c = d /\ k = m
  BY <1>1, <1>2, LatestInBuffer
<1>4. Tag(c) \in tma.barrier[e.barrier].owed
  BY <1>1, <1>3 DEF FlyingOf
<1> QED
  BY <1>1, <1>2, <1>3, <1>4

LEMMA FlyingStays ==
  ASSUME UNCHANGED input, NEW e, NEW c, NEW k, FlyingOf(e, c, k), NEW n, n = k + prog.buffers, Ran(c, k)',
         k < trip => ~Ran(c, n)' /\ ~Ran(ExpectOf(c), n)' /\ Tag(c) \in tma'.barrier[e.barrier].owed
  PROVE  FlyingOf(e, c, k)'
<1>1. /\ Buffer(Tag(c), k)' = Buffer(Tag(c), k)
      /\ trip' = trip /\ prog' = prog
  BY StaticStays, InputSame
<1>2. \A g, j : Buffer(g, j)' = Buffer(g, j)
  BY StaticStays
<1>3. GroupOf(Tag(c))' = GroupOf(Tag(c)) /\ ExpectOf(c)' = ExpectOf(c)
  BY StaticStays
<1>4. Buffer(GroupOf(Tag(c)), k)' = Buffer(GroupOf(Tag(c)), k)
  BY <1>1, <1>3 DEF Buffer
<1> QED
  BY <1>1, <1>3, <1>4 DEF FlyingOf

LEMMA ExpectedStays ==
  ASSUME UNCHANGED input, NEW e, NEW k, NEW bar, bar.owed \subseteq Owed(Tag(e)),
         bar.turns = (k \div prog.buffers) + (IF bar.owed = {} THEN 1 ELSE 0),
         Ran(WaitOf(e), k)' => bar.owed = {},
         \A c \in Ops(body) : Kind(c) = "tmacopy" /\ ExpectOf(c) = e /\ ~Ran(c, k)' => Tag(c) \in bar.owed
  PROVE  AsExpected(e, k, bar)'
<1>1. /\ prog' = prog /\ body' = body /\ Owed(Tag(e))' = Owed(Tag(e)) /\ \A c : ExpectOf(c)' = ExpectOf(c)
  BY StaticStays, InputSame
<1>2. WaitOf(e)' = WaitOf(e)
  BY DEF WaitOf
<1> QED
  BY <1>1, <1>2 DEF AsExpected

LEMMA BarrierInvAfter ==
  ASSUME SoundProgram, UNCHANGED input,
         \A e \in Ops(body), k \in Nat : Kind(e) = "expect" /\ k < trip =>
            \E bar : /\ bar = tma'.barrier[Buffer(Tag(e), k)]
                     /\ Current(e, k)' => AsExpected(e, k, bar)'
                     /\ ~Ran(e, k)' /\ k < prog.buffers => bar.turns = 0
  PROVE  BarrierInv'
<1>1. /\ prog' = prog /\ body' = body /\ trip' = trip /\ \A l, n : Buffer(l, n)' = Buffer(l, n)
  BY StaticStays, InputSame
<1>2. ASSUME NEW e \in Ops(body), NEW k \in Nat, Kind(e) = "expect", k < trip
      PROVE  /\ Current(e, k)' => AsExpected(e, k, tma.barrier[Buffer(Tag(e), k)])'
             /\ ~Ran(e, k)' /\ k < prog.buffers => tma'.barrier[Buffer(Tag(e), k)'].turns = 0
  <2>1. PICK bar : /\ bar = tma'.barrier[Buffer(Tag(e), k)]
                   /\ Current(e, k)' => AsExpected(e, k, bar)'
                   /\ ~Ran(e, k)' /\ k < prog.buffers => bar.turns = 0
    BY <1>2
  <2>2. Buffer(Tag(e), k)' = Buffer(Tag(e), k)
    BY <1>1
  <2>3. bar = tma'.barrier[Buffer(Tag(e), k)']
    BY <2>1, <2>2
  <2> QED
    BY <2>1, <2>2, <2>3 DEF AsExpected
<1> QED
  BY <1>1, <1>2 DEF BarrierInv, Iterations
InTmaSlot(c, k) ==
  LET x == Buffer(Tag(c), k) IN
     /\ FullOf(x, k)
     /\ slot[x].landed \/ \E e \in tma.flying : e.at = x
     /\ Ran(WaitOf(ExpectOf(c)), k) => slot[x].landed

LEMMA TmaSlotsAfter ==
  ASSUME UNCHANGED input,
         \A c \in Ops(body), k \in Nat : Kind(c) = "tmacopy" /\ Current(c, k)' => InTmaSlot(c, k)'
  PROVE  TmaSlots'
BY InputSame DEF TmaSlots, InTmaSlot, Iterations

LEMMA InTmaSlotStays ==
  ASSUME UNCHANGED input, NEW c, NEW k, NEW x, x = Buffer(Tag(c), k),
         slot'[x] # None, slot'[x].it = k,
         slot'[x].landed \/ \E e \in tma'.flying : e.at = x,
         Ran(WaitOf(ExpectOf(c)), k)' => slot'[x].landed
  PROVE  InTmaSlot(c, k)'
<1>1. /\ Buffer(Tag(c), k)' = Buffer(Tag(c), k) /\ None' = None
      /\ WaitOf(ExpectOf(c))' = WaitOf(ExpectOf(c))
  BY StaticStays DEF WaitOf, None
<1> QED
  BY <1>1 DEF InTmaSlot, FullOf

LEMMA TmaInSlot ==
  ASSUME TmaSlots, NEW c \in Ops(body), NEW k \in Nat, Kind(c) = "tmacopy", Current(c, k), NEW x, x = Buffer(Tag(c), k)
  PROVE  /\ slot[x] # None /\ slot[x].it = k
         /\ slot[x].landed \/ \E e \in tma.flying : e.at = x
         /\ Ran(WaitOf(ExpectOf(c)), k) => slot[x].landed
BY DEF TmaSlots, FullOf, Iterations

LEMMA TmaSlotsQuiet ==
  ASSUME SoundProgram, PosInv, TmaSlots, UNCHANGED input, tma'.flying = tma.flying,
         \A u \in Ops(body), m \in Int : Kind(u) \in {"tmacopy", "twait"} => (Ran(u, m)' <=> Ran(u, m)),
         \A c \in Ops(body), k \in Nat : Kind(c) = "tmacopy" /\ Current(c, k) => slot'[Buffer(Tag(c), k)] = slot[Buffer(Tag(c), k)]
  PROVE  TmaSlots'
<1>1. ASSUME NEW c \in Ops(body), NEW k \in Nat, Kind(c) = "tmacopy", Current(c, k)' PROVE InTmaSlot(c, k)'
  <2>1. PICK w, x : w = WaitOf(ExpectOf(c)) /\ x = Buffer(Tag(c), k)
    OBVIOUS
  <2>2. w \in Ops(body) /\ Kind(w) = "twait" /\ prog.buffers \in Nat \ {0} /\ k \in Int
    <3>1. ExpectOf(c) \in Ops(body) /\ Kind(ExpectOf(c)) = "expect"
      BY <1>1, BulkFacts
    <3> QED
      BY <2>1, <3>1, ExpectFacts
  <2>3. \A m \in Int : Ran(c, m)' <=> Ran(c, m)
    BY <1>1
  <2>4. Current(c, k)
    BY <1>1, <2>2, <2>3, CurrentAfter
  <2>5. slot'[x] = slot[x]
    BY <1>1, <2>1, <2>4
  <2>6. Ran(WaitOf(ExpectOf(c)), k)' <=> Ran(WaitOf(ExpectOf(c)), k)
    <3>1. Ran(w, k)' <=> Ran(w, k)
      BY <2>2
    <3>2. WaitOf(ExpectOf(c))' = w
      BY <2>1, StaticStays DEF WaitOf
    <3> QED
      BY <2>1, <3>1, <3>2
  <2>7. /\ slot[x] # None /\ slot[x].it = k
        /\ slot[x].landed \/ \E e \in tma.flying : e.at = x
        /\ Ran(WaitOf(ExpectOf(c)), k) => slot[x].landed
    BY <1>1, <2>1, <2>4, TmaInSlot
  <2> QED
    BY <2>1, <2>5, <2>6, <2>7, InTmaSlotStays
<1> QED
  BY <1>1, TmaSlotsAfter

LEMMA FlyQuiet ==
  ASSUME SoundProgram, PosInv, FlyInv, UNCHANGED input, tma' = tma,
         \A u \in Ops(body), m \in Int : Kind(u) \in {"tmacopy", "expect"} => (Ran(u, m)' <=> Ran(u, m))
  PROVE  FlyInv'
<1>1. ASSUME NEW e \in tma.flying PROVE \E c \in Ops(body), k \in Nat : FlyingOf(e, c, k)'
  <2>1. PICK c \in Ops(body), k \in Nat : FlyingOf(e, c, k)
    BY DEF FlyInv, Iterations
  <2>2. PICK x, n : x = ExpectOf(c) /\ n = k + prog.buffers
    OBVIOUS
  <2>3. Kind(c) = "tmacopy" /\ Ran(c, k)
        /\ (k < trip => ~Ran(c, n) /\ ~Ran(x, n) /\ Tag(c) \in tma.barrier[e.barrier].owed)
    BY <2>1, <2>2 DEF FlyingOf
  <2>4. x \in Ops(body) /\ Kind(x) = "expect" /\ n \in Int /\ k \in Int
    <3>1. prog.buffers \in Nat \ {0}
      BY <2>3, BulkFacts, FillFacts
    <3> QED
      BY <2>2, <2>3, <3>1, BulkFacts
  <2>5. Ran(c, k)' /\ (k < trip => ~Ran(c, n)' /\ ~Ran(x, n)')
    BY <2>3, <2>4
  <2>6. ExpectOf(c)' = x
    BY <2>2, StaticStays
  <2>7. k < trip => ~Ran(c, n)' /\ ~Ran(ExpectOf(c), n)' /\ Tag(c) \in tma'.barrier[e.barrier].owed
    BY <2>3, <2>5, <2>6
  <2> QED
    BY <2>1, <2>2, <2>5, <2>7, FlyingStays
<1> QED
  BY <1>1, InputSame DEF FlyInv, Iterations

LEMMA BarrierQuiet ==
  ASSUME SoundProgram, PosInv, BarrierInv, UNCHANGED input, tma'.barrier = tma.barrier,
         \A u \in Ops(body), m \in Int : Kind(u) \in {"expect", "twait"} => (Ran(u, m)' <=> Ran(u, m)),
         \A u \in Ops(body), m \in Int : Kind(u) = "tmacopy" => (Ran(u, m) => Ran(u, m)')
  PROVE  BarrierInv'
<1>1. ASSUME NEW e \in Ops(body), NEW k \in Nat, Kind(e) = "expect", k < trip
      PROVE  \E bar : /\ bar = tma'.barrier[Buffer(Tag(e), k)]
                      /\ Current(e, k)' => AsExpected(e, k, bar)'
                      /\ ~Ran(e, k)' /\ k < prog.buffers => bar.turns = 0
  <2>1. PICK bar, w : bar = tma.barrier[Buffer(Tag(e), k)] /\ w = WaitOf(e)
    OBVIOUS
  <2>2. w \in Ops(body) /\ Kind(w) = "twait" /\ prog.buffers \in Nat \ {0} /\ k \in Int
    BY <1>1, <2>1, ExpectFacts
  <2>3. /\ Current(e, k) => AsExpected(e, k, bar)
        /\ ~Ran(e, k) /\ k < prog.buffers => bar.turns = 0
    BY <1>1, <2>1 DEF BarrierInv, Iterations
  <2>4. \A m \in Int : Ran(e, m)' <=> Ran(e, m)
    BY <1>1
  <2>5. ~Ran(e, k)' => ~Ran(e, k)
    BY <2>2, <2>4
  <2>6. ASSUME Current(e, k)' PROVE AsExpected(e, k, bar)'
    <3>1. Current(e, k)
      BY <2>2, <2>4, <2>6, CurrentAfter
    <3>2. AsExpected(e, k, bar)
      BY <2>3, <3>1
    <3>3. Ran(WaitOf(e), k)' => Ran(WaitOf(e), k)
      <4>1. Ran(w, k)' <=> Ran(w, k)
        BY <2>2
      <4> QED
        BY <2>1, <4>1 DEF WaitOf
    <3>4. \A c \in Ops(body) : Kind(c) = "tmacopy" /\ ~Ran(c, k)' => ~Ran(c, k)
      BY <2>2
    <3>5. Ran(WaitOf(e), k)' => bar.owed = {}
      BY <3>2, <3>3 DEF AsExpected
    <3>6. \A c \in Ops(body) : Kind(c) = "tmacopy" /\ ExpectOf(c) = e /\ ~Ran(c, k)' => Tag(c) \in bar.owed
      BY <3>2, <3>4 DEF AsExpected
    <3>7. /\ bar.owed \subseteq Owed(Tag(e))
          /\ bar.turns = (k \div prog.buffers) + (IF bar.owed = {} THEN 1 ELSE 0)
      BY <3>2 DEF AsExpected
    <3> QED
      BY <3>5, <3>6, <3>7, ExpectedStays
  <2> QED
    BY <2>1, <2>3, <2>5, <2>6
<1> QED
  BY <1>1, BarrierInvAfter
LEMMA BarrierOf ==
  ASSUME BarrierInv, NEW e \in Ops(body), NEW k \in Nat, Kind(e) = "expect", k < trip, Current(e, k),
         NEW z, z = Buffer(Tag(e), k)
  PROVE  /\ tma.barrier[z].owed \subseteq Owed(Tag(e))
         /\ tma.barrier[z].turns = (k \div prog.buffers) + (IF tma.barrier[z].owed = {} THEN 1 ELSE 0)
         /\ Ran(WaitOf(e), k) => tma.barrier[z].owed = {}
         /\ \A c \in Ops(body) : Kind(c) = "tmacopy" /\ ExpectOf(c) = e /\ ~Ran(c, k) => Tag(c) \in tma.barrier[z].owed
BY DEF BarrierInv, Iterations, AsExpected

\* A barrier is used again when nothing is owed to it.
LEMMA ExpectWhenWaited ==
  ASSUME SoundProgram, PosInv, BarrierInv, NEW o, NEW k, Running(o, k), Kind(o) = "expect",
         NEW m \in Nat, k = m + prog.buffers, m < trip
  PROVE  /\ tma.barrier[Buffer(Tag(o), m)].owed = {} /\ Ran(WaitOf(o), m) /\ Current(o, m)
         /\ tma.barrier[Buffer(Tag(o), m)].turns = (m \div prog.buffers) + 1
<1>1. /\ o \in Ops(body) /\ k \in Nat /\ prog.buffers \in Nat \ {0} /\ WaitOf(o) \in Ops(body)
      /\ Precedes(WaitOf(o), prog.buffers, o)
  BY ExpectFacts DEF Running
<1>2. PICK w : w = WaitOf(o)
  OBVIOUS
<1>3. m + prog.buffers <= k /\ prog.buffers \in Int /\ m < k
  BY <1>1
<1>4. Ran(w, m)
  BY <1>1, <1>2, <1>3, RunningNeeds DEF SoundProgram, SoundSchedule
<1>5. Ran(o, m) /\ ~Ran(o, k)
  BY <1>1, <1>3, RunningIsNew DEF SoundProgram, SoundSchedule
<1>6. Current(o, m)
  BY <1>5 DEF Current
<1>7. PICK z : z = Buffer(Tag(o), m)
  OBVIOUS
<1>8. /\ tma.barrier[z].turns = (m \div prog.buffers) + (IF tma.barrier[z].owed = {} THEN 1 ELSE 0)
      /\ Ran(WaitOf(o), m) => tma.barrier[z].owed = {}
  BY <1>1, <1>6, <1>7, BarrierOf
<1> QED
  BY <1>2, <1>4, <1>6, <1>7, <1>8

LEMMA FlyExpect ==
  ASSUME SoundProgram, PosInv, MemShape, FlyInv, BarrierInv, UNCHANGED input, NEW o, NEW k,
         Running(o, k), Advances(o, k), Kind(o) = "expect", tma'.flying = tma.flying,
         NEW on, NEW y, y = Buffer(Tag(o), k),
         \A z \in DOMAIN tma.barrier :
            tma'.barrier[z].owed = IF z = y /\ on THEN Owed(Tag(o)) ELSE tma.barrier[z].owed
  PROVE  FlyInv'
<1>1. ASSUME NEW e \in tma.flying PROVE \E c \in Ops(body), m \in Nat : FlyingOf(e, c, m)'
  <2>1. PICK c \in Ops(body), m \in Nat : FlyingOf(e, c, m)
    BY <1>1 DEF FlyInv, Iterations
  <2>2. PICK x, n : x = ExpectOf(c) /\ n = m + prog.buffers
    OBVIOUS
  <2>3. /\ Kind(c) = "tmacopy" /\ Ran(c, m) /\ e.barrier = Buffer(GroupOf(Tag(c)), m)
        /\ (m < trip => ~Ran(c, n) /\ ~Ran(x, n) /\ Tag(c) \in tma.barrier[e.barrier].owed)
    BY <2>1, <2>2 DEF FlyingOf
  <2>4. /\ x \in Ops(body) /\ Kind(x) = "expect" /\ Tag(x) = GroupOf(Tag(c)) /\ c # o
        /\ Tag(c) \in Owed(GroupOf(Tag(c)))
    BY <2>2, <2>3, BulkFacts
  <2>5. prog.buffers \in Nat \ {0} /\ n \in Int /\ m \in Int
    BY <2>2, <2>4, ExpectFacts
  <2>6. e.barrier \in DOMAIN tma.barrier /\ e.barrier = Buffer(Tag(x), m)
    BY <2>3, <2>4, BarrierAt
  <2>7. Ran(c, m)' /\ (m < trip => ~Ran(c, n)')
    BY <2>3, <2>4, <2>5, OthersStay
  <2>8. ASSUME m < trip PROVE ~Ran(x, n)'
    <3>1. CASE x = o /\ n = k
      <4>1. tma.barrier[Buffer(Tag(o), m)].owed = {}
        BY <2>2, <2>8, <3>1, ExpectWhenWaited
      <4> QED
        BY <2>3, <2>6, <2>8, <3>1, <4>1
    <3>2. CASE ~(x = o /\ n = k)
      BY <2>3, <2>4, <2>5, <2>8, <3>2, OthersStay
    <3> QED
      BY <3>1, <3>2
  <2>9. ASSUME m < trip PROVE Tag(c) \in tma'.barrier[e.barrier].owed
    <3>1. CASE e.barrier = y /\ on
      <4>1. Tag(x) = Tag(o)
        <5>1. Buffer(Tag(x), m) = Buffer(Tag(o), k)
          BY <2>6, <3>1
        <5> QED
          BY <5>1 DEF Buffer
      <4>2. tma'.barrier[e.barrier].owed = Owed(Tag(o))
        BY <2>6, <3>1
      <4> QED
        BY <2>4, <4>1, <4>2
    <3>2. CASE ~(e.barrier = y /\ on)
      BY <2>3, <2>6, <2>9, <3>2
    <3> QED
      BY <3>1, <3>2
  <2>10. ExpectOf(c)' = x
    BY <2>2, StaticStays
  <2>11. m < trip => ~Ran(c, n)' /\ ~Ran(ExpectOf(c), n)' /\ Tag(c) \in tma'.barrier[e.barrier].owed
    BY <2>7, <2>8, <2>9, <2>10
  <2> QED
    BY <2>1, <2>2, <2>7, <2>11, FlyingStays
<1> QED
  BY <1>1, InputSame DEF FlyInv, Iterations

\* No other iteration's barrier is the one that is expected.
LEMMA ExpectedAnew ==
  ASSUME SoundProgram, PosInv, NEW o, NEW k, Running(o, k), Kind(o) = "expect",
         NEW e \in Ops(body), Kind(e) = "expect", NEW m \in Nat,
         ~(e = o /\ k = m), ~Ran(e, m) => m < prog.buffers,
         Ran(e, m) => ~Ran(e, m + prog.buffers) /\ ~(e = o /\ k = m + prog.buffers)
  PROVE  Buffer(Tag(e), m) # Buffer(Tag(o), k)
<1> SUFFICES ASSUME Buffer(Tag(e), m) = Buffer(Tag(o), k) PROVE FALSE
  OBVIOUS
<1>1. /\ prog.buffers \in Nat \ {0} /\ o \in Ops(body) /\ k \in Nat
      /\ o = <<"expect", Tag(o)>> /\ e = <<"expect", Tag(e)>>
  BY ExpectFacts DEF Running
<1>2. Tag(e) = Tag(o) /\ (m < k => k >= m + prog.buffers) /\ (k < m => m >= k + prog.buffers)
  BY <1>1, SharedBuffer
<1>3. e = o
  BY <1>1, <1>2
<1>4. /\ \A n \in Nat : n < k => Ran(o, n)
      /\ \A n \in Int : n >= k => ~Ran(o, n)
  BY RunningIsNew DEF SoundProgram, SoundSchedule
<1>5. CASE Ran(e, m)
  <2>1. m < k
    BY <1>1, <1>3, <1>4, <1>5
  <2>2. k > m + prog.buffers /\ m + prog.buffers \in Nat
    BY <1>1, <1>2, <1>3, <1>5, <2>1
  <2> QED
    BY <1>3, <1>4, <1>5, <2>2
<1>6. CASE ~Ran(e, m)
  <2>1. m < prog.buffers /\ m >= k
    BY <1>1, <1>3, <1>4, <1>6
  <2>2. k < m
    BY <1>1, <1>3, <2>1
  <2> QED
    BY <1>1, <1>2, <2>1, <2>2
<1> QED
  BY <1>5, <1>6

LEMMA BarrierExpect ==
  ASSUME SoundProgram, PosInv, MemShape, BarrierInv, UNCHANGED input, NEW o, NEW k,
         Running(o, k), Advances(o, k), Kind(o) = "expect", NEW on, k < trip => on, NEW y, y = Buffer(Tag(o), k),
         \A z \in DOMAIN tma.barrier :
            /\ tma'.barrier[z].owed = IF z = y /\ on THEN Owed(Tag(o)) ELSE tma.barrier[z].owed
            /\ tma'.barrier[z].turns = tma.barrier[z].turns
  PROVE  BarrierInv'
<1>0. /\ o \in Ops(body) /\ k \in Nat /\ prog.buffers \in Nat \ {0} /\ Owed(Tag(o)) # {}
  BY ExpectFacts DEF Running
<1>1. ASSUME NEW e \in Ops(body), NEW m \in Nat, Kind(e) = "expect", m < trip
      PROVE  \E bar : /\ bar = tma'.barrier[Buffer(Tag(e), m)]
                      /\ Current(e, m)' => AsExpected(e, m, bar)'
                      /\ ~Ran(e, m)' /\ m < prog.buffers => bar.turns = 0
  <2>1. PICK bar, w, z : z = Buffer(Tag(e), m) /\ bar = tma'.barrier[z] /\ w = WaitOf(e)
    OBVIOUS
  <2>2. w \in Ops(body) /\ Kind(w) = "twait" /\ w # o /\ m \in Int
    BY <1>1, <2>1, ExpectFacts
  <2>3. z \in DOMAIN tma.barrier
    BY <1>1, <2>1, BarrierAt
  <2>4. bar.turns = tma.barrier[z].turns
    BY <2>1, <2>3
  <2>5. ~Ran(e, m)' => ~Ran(e, m)
    BY <2>2, OthersStay
  <2>6. ~Ran(e, m)' /\ m < prog.buffers => bar.turns = 0
    BY <1>1, <2>1, <2>4, <2>5 DEF BarrierInv, Iterations
  <2>7. Ran(WaitOf(e), m)' <=> Ran(WaitOf(e), m)
    <3>1. Ran(w, m)' <=> Ran(w, m)
      BY <2>2, OthersStay
    <3> QED
      BY <2>1, <3>1 DEF WaitOf
  <2>8. \A c \in Ops(body) : Kind(c) = "tmacopy" => (Ran(c, m)' <=> Ran(c, m))
    <3>1. ASSUME NEW c \in Ops(body), Kind(c) = "tmacopy" PROVE Ran(c, m)' <=> Ran(c, m)
      <4>1. c # o
        BY <3>1
      <4> QED
        BY <2>2, <4>1, OthersStay
    <3> QED
      BY <3>1
  <2>9. ASSUME Current(e, m)' PROVE AsExpected(e, m, bar)'
    <3>1. CASE e = o /\ m = k
      <4>1. on /\ z = y
        BY <1>1, <2>1, <3>1
      <4>2. bar.owed = Owed(Tag(e))
        BY <2>1, <2>3, <3>1, <4>1
      <4>3. bar.turns = (m \div prog.buffers) + 0
        <5>1. CASE m < prog.buffers
          <6>1. m \div prog.buffers = 0
            BY <1>0, <5>1, FirstRound
          <6>2. ~Ran(e, m)
            BY <2>2, <3>1, RunningIsNew DEF SoundProgram, SoundSchedule
          <6>3. tma.barrier[z].turns = 0
            BY <1>1, <2>1, <5>1, <6>2 DEF BarrierInv, Iterations
          <6> QED
            BY <2>4, <6>1, <6>3
        <5>2. CASE ~(m < prog.buffers)
          <6>1. PICK l : l = m - prog.buffers
            OBVIOUS
          <6>2. l \in Nat /\ m = l + prog.buffers /\ l < trip
            BY <1>0, <1>1, <5>2, <6>1 DEF PosInv
          <6>3. tma.barrier[Buffer(Tag(o), l)].turns = (l \div prog.buffers) + 1
            BY <3>1, <6>2, ExpectWhenWaited
          <6>4. (l + prog.buffers) % prog.buffers = l % prog.buffers
                /\ (l + prog.buffers) \div prog.buffers = (l \div prog.buffers) + 1
            BY <1>0, <6>2, OnceRound
          <6>5. Buffer(Tag(o), l) = z
            BY <2>1, <3>1, <6>2, <6>4 DEF Buffer
          <6>6. (m \div prog.buffers) \in Nat
            BY <1>0, DivMod
          <6>7. m \div prog.buffers = (l \div prog.buffers) + 1
            BY <6>2, <6>4
          <6> QED
            BY <2>4, <6>3, <6>5, <6>6, <6>7
        <5> QED
          BY <5>1, <5>2
      <4>4. ~Ran(w, m)
        <5>1. 0 \in Int /\ k + 0 <= m /\ Precedes(o, 0, w)
          BY <1>0, <2>1, <3>1, ExpectFacts
        <5> QED
          BY <2>2, <5>1, RunningIsNew DEF SoundProgram, SoundSchedule
      <4>5. Ran(WaitOf(e), m)' => bar.owed = {}
        BY <2>1, <2>7, <4>4
      <4>6. \A c \in Ops(body) : Kind(c) = "tmacopy" /\ ExpectOf(c) = e /\ ~Ran(c, m)' => Tag(c) \in bar.owed
        <5>1. ASSUME NEW c \in Ops(body), Kind(c) = "tmacopy", ExpectOf(c) = e PROVE Tag(c) \in bar.owed
          BY <4>2, <5>1, BulkFacts
        <5> QED
          BY <5>1
      <4>7. bar.turns = (m \div prog.buffers) + (IF bar.owed = {} THEN 1 ELSE 0)
        BY <1>0, <3>1, <4>2, <4>3
      <4>8. bar.owed \subseteq Owed(Tag(e))
        BY <4>2
      <4> QED
        BY <4>5, <4>6, <4>7, <4>8, ExpectedStays
    <3>2. CASE ~(e = o /\ m = k)
      <4>1. Current(e, m) /\ ~(e = o /\ k = m + prog.buffers)
        BY <1>0, <2>9, <3>2, CurrentBefore
      <4>2. z # y
        BY <2>1, <3>2, <4>1, <1>1, ExpectedAnew DEF Current
      <4>3. bar.owed = tma.barrier[z].owed
        BY <2>1, <2>3, <4>2
      <4>4. /\ bar.owed \subseteq Owed(Tag(e))
            /\ bar.turns = (m \div prog.buffers) + (IF bar.owed = {} THEN 1 ELSE 0)
            /\ Ran(WaitOf(e), m) => bar.owed = {}
            /\ \A c \in Ops(body) : Kind(c) = "tmacopy" /\ ExpectOf(c) = e /\ ~Ran(c, m) => Tag(c) \in bar.owed
        BY <1>1, <2>1, <2>4, <4>1, <4>3, BarrierOf
      <4>5. Ran(WaitOf(e), m)' => bar.owed = {}
        BY <2>7, <4>4
      <4>6. \A c \in Ops(body) : Kind(c) = "tmacopy" /\ ExpectOf(c) = e /\ ~Ran(c, m)' => Tag(c) \in bar.owed
        BY <2>8, <4>4
      <4> QED
        BY <4>4, <4>5, <4>6, ExpectedStays
    <3> QED
      BY <3>1, <3>2
  <2> QED
    BY <2>1, <2>6, <2>9
<1> QED
  BY <1>1, BarrierInvAfter
\* What a bulk copy or a copy that runs leaves alone.
LEMMA ElsewhereStays ==
  ASSUME SoundProgram, PosInv, NEW o, NEW k, Running(o, k), IsFill(o), NEW w,
         slot' = slot \/ slot' = [slot EXCEPT ![Buffer(Tag(o), k)] = w],
         NEW c \in Ops(body), NEW m \in Nat, IsFill(c), c # o, Current(c, m)
  PROVE  slot'[Buffer(Tag(c), m)] = slot[Buffer(Tag(c), m)]
<1>1. Ran(c, m) /\ ~Ran(c, m + prog.buffers)
  BY DEF Current
<1>2. Buffer(Tag(c), m) # Buffer(Tag(o), k)
  BY <1>1, FilledAnew
<1>3. CASE slot' = slot
  BY <1>3
<1>4. CASE slot' = [slot EXCEPT ![Buffer(Tag(o), k)] = w]
  BY <1>2, <1>4
<1> QED
  BY <1>3, <1>4

LEMMA BulkWaits ==
  ASSUME SoundProgram, NEW c \in Ops(body), Kind(c) = "tmacopy"
  PROVE  /\ IsFill(c) /\ prog.buffers \in Nat \ {0}
         /\ ExpectOf(c) \in Ops(body) /\ Kind(ExpectOf(c)) = "expect"
         /\ WaitOf(ExpectOf(c)) \in Ops(body) /\ Kind(WaitOf(ExpectOf(c))) = "twait"
<1>1. PICK x : x = ExpectOf(c)
  OBVIOUS
<1>2. IsFill(c) /\ x \in Ops(body) /\ Kind(x) = "expect"
  BY <1>1, BulkFacts
<1>3. prog.buffers \in Nat \ {0} /\ WaitOf(x) \in Ops(body) /\ Kind(WaitOf(x)) = "twait"
  BY <1>2, ExpectFacts
<1> QED
  BY <1>1, <1>2, <1>3

LEMMA TmaSlotCopy ==
  ASSUME SoundProgram, PosInv, MemShape, TmaSlots, UNCHANGED input,
         NEW o, NEW k, Running(o, k), Advances(o, k), Kind(o) = "tmacopy", NEW v, Right(o, k, v),
         NEW e, e.at = Buffer(Tag(o), k), NEW w, w = [it |-> v, landed |-> FALSE, read |-> TRUE],
         \/ k >= trip /\ slot' = slot /\ tma' = tma
         \/ slot' = [slot EXCEPT ![Buffer(Tag(o), k)] = w] /\ tma'.flying = tma.flying \cup {e}
  PROVE  TmaSlots'
<1>1. /\ o \in Ops(body) /\ k \in Nat /\ IsFill(o) /\ prog.buffers \in Nat \ {0} /\ trip \in Nat
      /\ Precedes(o, 0, WaitOf(ExpectOf(o))) /\ WaitOf(ExpectOf(o)) \in Ops(body)
  BY BulkFacts, BulkWaits DEF Running, PosInv
<1>2. Buffer(Tag(o), k) \in DOMAIN slot /\ trip' = trip
  BY <1>1, FillsBuffer, InputSame
<1>3. ASSUME NEW c \in Ops(body), NEW j \in Nat, Kind(c) = "tmacopy", Current(c, j)' PROVE InTmaSlot(c, j)'
  <2>1. PICK u, x : u = WaitOf(ExpectOf(c)) /\ x = Buffer(Tag(c), j)
    OBVIOUS
  <2>2. u \in Ops(body) /\ u # o /\ j \in Int /\ IsFill(c)
    BY <1>3, <2>1, BulkWaits
  <2>3. Ran(WaitOf(ExpectOf(c)), j)' <=> Ran(u, j)
    <3>1. Ran(u, j)' <=> Ran(u, j)
      BY <2>2, OthersStay
    <3>2. WaitOf(ExpectOf(c))' = u
      BY <2>1, StaticStays DEF WaitOf
    <3> QED
      BY <3>1, <3>2
  <2>4. CASE c = o /\ j = k
    <3>0. k < trip
      BY <1>2, <1>3, <2>4 DEF Current
    <3>1. slot'[x] = w /\ e \in tma'.flying /\ e.at = x
      <4>1. ~(k >= trip) /\ k \in Nat
        BY <1>1, <3>0
      <4>2. slot' = [slot EXCEPT ![Buffer(Tag(o), k)] = w] /\ tma'.flying = tma.flying \cup {e}
        BY <4>1
      <4>3. slot'[x] = w
        BY <1>2, <2>1, <2>4, <4>2
      <4> QED
        BY <2>1, <2>4, <4>2, <4>3
    <3>2. v = k
      BY <3>0 DEF Right
    <3>3. slot'[x] # None /\ slot'[x].it = j
      BY <2>4, <3>1, <3>2, NotNone
    <3>4. ~Ran(u, j)
      <4>1. 0 \in Int /\ k + 0 <= j
        BY <1>1, <2>4
      <4> QED
        BY <1>1, <2>1, <2>4, <4>1, RunningIsNew DEF SoundProgram, SoundSchedule
    <3> QED
      BY <2>1, <2>3, <3>1, <3>3, <3>4, InTmaSlotStays
  <2>5. CASE ~(c = o /\ j = k)
    <3>1. Current(c, j) /\ ~(c = o /\ k = j + prog.buffers)
      BY <1>1, <1>3, <2>5, CurrentBefore
    <3>2. Buffer(Tag(c), j) # Buffer(Tag(o), k)
      BY <1>1, <2>2, <3>1, FilledAnew DEF Current
    <3>3. slot'[x] = slot[x] /\ tma.flying \subseteq tma'.flying
      <4>1. CASE slot' = slot /\ tma' = tma
        BY <4>1
      <4>2. CASE slot' = [slot EXCEPT ![Buffer(Tag(o), k)] = w] /\ tma'.flying = tma.flying \cup {e}
        BY <2>1, <3>2, <4>2
      <4> QED
        BY <4>1, <4>2
    <3>4. /\ slot[x] # None /\ slot[x].it = j
          /\ slot[x].landed \/ \E q \in tma.flying : q.at = x
          /\ Ran(u, j) => slot[x].landed
      BY <1>3, <2>1, <3>1, TmaInSlot
    <3> QED
      BY <2>1, <2>3, <3>3, <3>4, InTmaSlotStays
  <2> QED
    BY <2>4, <2>5
<1> QED
  BY <1>3, TmaSlotsAfter

LEMMA FlyTmaCopy ==
  ASSUME SoundProgram, PosInv, MemShape, FlyInv, BarrierInv, UNCHANGED input,
         NEW o, NEW k, Running(o, k), Advances(o, k), Kind(o) = "tmacopy", NEW v, Right(o, k, v),
         NEW e0, e0 = [at |-> Buffer(Tag(o), k), it |-> v, read |-> TRUE, barrier |-> Buffer(GroupOf(Tag(o)), k)],
         tma'.flying \subseteq tma.flying \cup {e0}, tma'.barrier = tma.barrier
  PROVE  FlyInv'
<1>1. /\ o \in Ops(body) /\ k \in Nat /\ IsFill(o) /\ prog.buffers \in Nat \ {0} /\ trip \in Nat
      /\ Precedes(o, 0, WaitOf(ExpectOf(o))) /\ WaitOf(ExpectOf(o)) \in Ops(body)
      /\ ExpectOf(o) \in Ops(body) /\ Kind(ExpectOf(o)) = "expect" /\ Tag(ExpectOf(o)) = GroupOf(Tag(o))
      /\ Precedes(ExpectOf(o), 0, o)
  BY BulkFacts, BulkWaits DEF Running, PosInv
<1>2. PICK q : q = ExpectOf(o)
  OBVIOUS
<1>3. Ran(q, k) /\ ~Ran(o, k)
  <2>1. 0 \in Int /\ k + 0 <= k /\ k \in Int /\ k >= k
    BY <1>1
  <2> QED
    BY <1>1, <1>2, <2>1, RunningNeeds, RunningIsNew DEF SoundProgram, SoundSchedule
<1>4. ASSUME NEW e \in tma.flying PROVE \E c \in Ops(body), m \in Nat : FlyingOf(e, c, m)'
  <2>1. PICK c \in Ops(body), m \in Nat : FlyingOf(e, c, m)
    BY <1>4 DEF FlyInv, Iterations
  <2>2. PICK x, n : x = ExpectOf(c) /\ n = m + prog.buffers
    OBVIOUS
  <2>3. /\ Kind(c) = "tmacopy" /\ Ran(c, m)
        /\ (m < trip => ~Ran(c, n) /\ ~Ran(x, n) /\ Tag(c) \in tma.barrier[e.barrier].owed)
    BY <2>1, <2>2 DEF FlyingOf
  <2>4. x \in Ops(body) /\ x # o /\ n \in Int /\ m \in Int
    BY <1>1, <2>2, <2>3, BulkFacts
  <2>5. Ran(c, m)' /\ (m < trip => ~Ran(x, n)')
    BY <2>3, <2>4, OthersStay
  <2>6. ASSUME m < trip PROVE ~Ran(c, n)'
    <3>1. ~(c = o /\ n = k)
      BY <1>2, <1>3, <2>2, <2>3, <2>6
    <3> QED
      BY <2>3, <2>4, <2>6, <3>1, OthersStay
  <2>7. ExpectOf(c)' = x
    BY <2>2, StaticStays
  <2>8. m < trip => ~Ran(c, n)' /\ ~Ran(ExpectOf(c), n)' /\ Tag(c) \in tma'.barrier[e.barrier].owed
    BY <2>3, <2>5, <2>6, <2>7
  <2> QED
    BY <2>1, <2>2, <2>5, <2>8, FlyingStays
<1>5. \E c \in Ops(body), m \in Nat : FlyingOf(e0, c, m)'
  <2>1. PICK n : n = k + prog.buffers
    OBVIOUS
  <2>2. n \in Int /\ n # k /\ n >= k
    BY <1>1, <2>1
  <2>3. Ran(o, k)' /\ ~Ran(o, n)'
    <3>1. ~Ran(o, n)
      BY <2>2, RunningIsNew DEF SoundProgram, SoundSchedule
    <3> QED
      BY <1>1, <2>2, <3>1, OthersStay
  <2>4. ASSUME k < trip
        PROVE  v = k /\ ~Ran(q, n)' /\ Tag(o) \in tma.barrier[Buffer(GroupOf(Tag(o)), k)].owed
    <3>1. ~Ran(WaitOf(ExpectOf(o)), k)
      <4>1. 0 \in Int /\ k + 0 <= k
        BY <1>1
      <4> QED
        BY <1>1, <4>1, RunningIsNew DEF SoundProgram, SoundSchedule
    <3>2. Current(ExpectOf(o), k)
      BY <1>1, <2>4, <3>1, ExpectIsCurrent
    <3>3. ~Ran(q, n) /\ q # o
      BY <1>1, <1>2, <2>1, <3>2 DEF Current
    <3>4. Tag(o) \in tma.barrier[Buffer(GroupOf(Tag(o)), k)].owed
      <4>1. Buffer(GroupOf(Tag(o)), k) = Buffer(Tag(q), k)
        BY <1>1, <1>2
      <4>2. Current(q, k) /\ q \in Ops(body) /\ Kind(q) = "expect"
        BY <1>1, <1>2, <3>2
      <4> QED
        BY <1>1, <1>2, <1>3, <2>4, <4>1, <4>2, BarrierOf
    <3>5. v = k
      BY <2>4 DEF Right
    <3>6. ~Ran(q, n)'
      BY <1>1, <1>2, <2>2, <3>3, OthersStay
    <3> QED
      BY <3>4, <3>5, <3>6
  <2>5. PICK y, z : y = Buffer(Tag(o), k) /\ z = Buffer(GroupOf(Tag(o)), k)
    OBVIOUS
  <2>6. /\ e0.at = y /\ e0.barrier = z /\ e0.it = v
        /\ e0 = [at |-> y, it |-> e0.it, read |-> TRUE, barrier |-> z]
    BY <2>5
  <2>7. /\ trip' = trip /\ prog' = prog /\ ExpectOf(o)' = q
        /\ Buffer(Tag(o), k)' = y /\ Buffer(GroupOf(Tag(o)), k)' = z
    <3>1. GroupOf(Tag(o))' = GroupOf(Tag(o)) /\ ExpectOf(o)' = ExpectOf(o) /\ Buffer(Tag(o), k)' = Buffer(Tag(o), k)
      BY StaticStays
    <3>2. trip' = trip /\ prog' = prog
      BY InputSame
    <3> QED
      BY <1>2, <2>5, <3>1, <3>2 DEF Buffer
  <2>8. Ran(o, n)' <=> Ran(o, (k + prog.buffers))'
    BY <2>1, <2>7
  <2>9. k < trip => /\ ~Ran(o, k + prog.buffers)' /\ e0.it = k /\ ~Ran(ExpectOf(o), k + prog.buffers)'
                    /\ Tag(o) \in tma'.barrier[e0.barrier].owed
    BY <2>1, <2>3, <2>4, <2>5, <2>6, <2>7
  <2>10. FlyingOf(e0, o, k)'
    BY <2>3, <2>6, <2>7, <2>9 DEF FlyingOf
  <2> QED
    BY <1>1, <2>10
<1> QED
  BY <1>4, <1>5, InputSame DEF FlyInv, Iterations

LEMMA CopySlotsTmaCopy ==
  ASSUME SoundProgram, PosInv, CopySlots, UNCHANGED input, UNCHANGED copies, Landings' = Landings,
         NEW o, NEW k, Running(o, k), Advances(o, k), Kind(o) = "tmacopy", NEW w,
         slot' = slot \/ slot' = [slot EXCEPT ![Buffer(Tag(o), k)] = w]
  PROVE  CopySlots'
<1>1. o \in Ops(body) /\ IsFill(o)
  BY DEF Running, IsFill
<1>2. \A u \in Ops(body), m \in Int : Kind(u) \in {"copy", "commit"} => (Ran(u, m)' <=> Ran(u, m))
  BY DEF Advances
<1>3. ASSUME NEW c \in Ops(body), NEW m \in Nat, Kind(c) = "copy", Current(c, m)
      PROVE  slot'[Buffer(Tag(c), m)] = slot[Buffer(Tag(c), m)]
  BY <1>1, <1>3, ElsewhereStays DEF IsFill
<1> QED
  BY <1>2, <1>3, CopySlotsQuiet

LEMMA TmaSlotsCopy ==
  ASSUME SoundProgram, PosInv, TmaSlots, UNCHANGED input, tma' = tma,
         NEW o, NEW k, Running(o, k), Advances(o, k), Kind(o) = "copy", NEW w,
         slot' = [slot EXCEPT ![Buffer(Tag(o), k)] = w]
  PROVE  TmaSlots'
<1>1. o \in Ops(body) /\ IsFill(o)
  BY DEF Running, IsFill
<1>2. \A u \in Ops(body), m \in Int : Kind(u) \in {"tmacopy", "twait"} => (Ran(u, m)' <=> Ran(u, m))
  BY DEF Advances
<1>3. ASSUME NEW c \in Ops(body), NEW m \in Nat, Kind(c) = "tmacopy", Current(c, m)
      PROVE  slot'[Buffer(Tag(c), m)] = slot[Buffer(Tag(c), m)]
  BY <1>1, <1>3, ElsewhereStays DEF IsFill
<1> QED
  BY <1>2, <1>3, TmaSlotsQuiet
TmaLands(e, left) ==
  /\ slot' = Landed({e})
  /\ tma'.flying = tma.flying \ {e}
  /\ \A z \in DOMAIN tma.barrier :
        /\ z # e.barrier => tma'.barrier[z] = tma.barrier[z]
        /\ z = e.barrier => /\ tma'.barrier[z].owed = left
                            /\ tma'.barrier[z].turns = IF left = {} THEN tma.barrier[z].turns + 1 ELSE tma.barrier[z].turns

LEMMA TmaSlotLand ==
  ASSUME SoundProgram, PosInv, MemShape, FlyInv, TmaSlots, UNCHANGED input, Stays,
         NEW e \in tma.flying, NEW left, TmaLands(e, left)
  PROVE  TmaSlots'
<1>1. ASSUME NEW c \in Ops(body), NEW j \in Nat, Kind(c) = "tmacopy", Current(c, j)' PROVE InTmaSlot(c, j)'
  <2>1. PICK u, x : u = WaitOf(ExpectOf(c)) /\ x = Buffer(Tag(c), j)
    OBVIOUS
  <2>2. u \in Ops(body) /\ j \in Int /\ IsFill(c) /\ prog.buffers \in Nat \ {0}
    BY <1>1, <2>1, BulkWaits
  <2>3. Ran(WaitOf(ExpectOf(c)), j)' <=> Ran(WaitOf(ExpectOf(c)), j)
    <3>1. Ran(u, j)' <=> Ran(u, j)
      BY <2>2 DEF Stays
    <3>2. WaitOf(ExpectOf(c))' = u
      BY <2>1, StaticStays DEF WaitOf
    <3> QED
      BY <2>1, <3>1, <3>2
  <2>4. \A m \in Int : Ran(c, m)' <=> Ran(c, m)
    BY DEF Stays
  <2>5. Current(c, j)
    BY <1>1, <2>2, <2>4, CurrentAfter
  <2>6. x \in DOMAIN slot
    BY <2>1, <2>2, FillsBuffer
  <2>7. /\ slot[x] # None /\ slot[x].it = j
        /\ slot[x].landed \/ \E q \in tma.flying : q.at = x
        /\ Ran(WaitOf(ExpectOf(c)), j) => slot[x].landed
    BY <1>1, <2>1, <2>5, TmaInSlot
  <2>8. CASE e.at = x
    <3>1. PICK cs : cs = {e}
      OBVIOUS
    <3>2. \E q \in cs : q.at = x
      BY <2>8, <3>1
    <3>8. PICK q \in cs : q.at = x /\ Landed(cs)[x] = [it |-> q.it, landed |-> TRUE, read |-> q.read]
      BY <2>6, <3>2, LandedThere, SMTT(60)
    <3>9. q = e /\ slot' = Landed(cs)
      BY <3>1, <3>8 DEF TmaLands
    <3>3. slot'[x] = [it |-> e.it, landed |-> TRUE, read |-> e.read]
      BY <3>8, <3>9
    <3>4. e.it = j
      <4>1. PICK d \in Ops(body), l \in Nat : FlyingOf(e, d, l)
        BY DEF FlyInv, Iterations
      <4>2. IsFill(c) /\ Current(c, j) /\ e.at = Buffer(Tag(c), j)
        BY <2>1, <2>2, <2>5, <2>8
      <4> QED
        BY <4>1, <4>2, FlyingIsCurrent
    <3>5. slot'[x] # None /\ slot'[x].it = j /\ slot'[x].landed
      BY <3>3, <3>4, NotNone
    <3> QED
      BY <2>1, <3>5, InTmaSlotStays
  <2>9. CASE e.at # x
    <3>1. ~(\E q \in {e} : q.at = x)
      BY <2>9
    <3>2. slot'[x] = slot[x]
      BY <2>6, <3>1, LandedElsewhere DEF TmaLands
    <3>3. (\E q \in tma.flying : q.at = x) => \E q \in tma'.flying : q.at = x
      BY <2>9 DEF TmaLands
    <3> QED
      BY <2>1, <2>3, <2>7, <3>2, <3>3, InTmaSlotStays
  <2> QED
    BY <2>8, <2>9
<1> QED
  BY <1>1, TmaSlotsAfter

LEMMA CopySlotsTmaLand ==
  ASSUME SoundProgram, PosInv, MemShape, FlyInv, CopySlots, UNCHANGED input, Stays, UNCHANGED copies, Landings' = Landings,
         NEW e \in tma.flying, NEW left, TmaLands(e, left)
  PROVE  CopySlots'
<1>1. ASSUME NEW c \in Ops(body), NEW m \in Nat, Kind(c) = "copy", Current(c, m)
      PROVE  slot'[Buffer(Tag(c), m)] = slot[Buffer(Tag(c), m)]
  <2>1. PICK d \in Ops(body), l \in Nat : FlyingOf(e, d, l)
    BY DEF FlyInv, Iterations
  <2>2. IsFill(c) /\ d # c
    BY <1>1, <2>1 DEF IsFill, FlyingOf
  <2>3. e.at # Buffer(Tag(c), m)
    BY <1>1, <2>1, <2>2, FlyingIsCurrent
  <2>4. Buffer(Tag(c), m) \in DOMAIN slot
    BY <2>2, FillsBuffer
  <2>5. ~(\E q \in {e} : q.at = Buffer(Tag(c), m))
    BY <2>3
  <2> QED
    BY <2>4, <2>5, LandedElsewhere DEF TmaLands
<1>2. \A u \in Ops(body), m \in Int : Kind(u) \in {"copy", "commit"} => (Ran(u, m)' <=> Ran(u, m))
  BY DEF Stays
<1> QED
  BY <1>1, <1>2, CopySlotsQuiet

LEMMA FlyingHas ==
  ASSUME SoundProgram, MemShape, NEW e, NEW c \in Ops(body), NEW m \in Nat, FlyingOf(e, c, m)
  PROVE  /\ IsFill(c) /\ Kind(c) = "tmacopy" /\ Ran(c, m) /\ prog.buffers \in Nat \ {0}
         /\ e = [at |-> Buffer(Tag(c), m), it |-> e.it, read |-> TRUE, barrier |-> Buffer(GroupOf(Tag(c)), m)]
         /\ e.at = Buffer(Tag(c), m) /\ e.barrier = Buffer(GroupOf(Tag(c)), m)
         /\ e.at[1] = Tag(c) /\ e.barrier = Buffer(Tag(ExpectOf(c)), m) /\ e.barrier \in DOMAIN tma.barrier
         /\ m < trip => /\ ~Ran(c, m + prog.buffers) /\ e.it = m /\ ~Ran(ExpectOf(c), m + prog.buffers)
                        /\ Tag(c) \in tma.barrier[e.barrier].owed
<1>1. /\ Kind(c) = "tmacopy" /\ Ran(c, m)
      /\ e = [at |-> Buffer(Tag(c), m), it |-> e.it, read |-> TRUE, barrier |-> Buffer(GroupOf(Tag(c)), m)]
      /\ m < trip => /\ ~Ran(c, m + prog.buffers) /\ e.it = m /\ ~Ran(ExpectOf(c), m + prog.buffers)
                     /\ Tag(c) \in tma.barrier[e.barrier].owed
  BY DEF FlyingOf
<1>2. PICK x : x = ExpectOf(c)
  OBVIOUS
<1>3. IsFill(c) /\ x \in Ops(body) /\ Kind(x) = "expect" /\ Tag(x) = GroupOf(Tag(c)) /\ prog.buffers \in Nat \ {0}
  BY <1>1, <1>2, BulkFacts, BulkWaits
<1>4. Buffer(Tag(x), m) \in DOMAIN tma.barrier
  BY <1>3, BarrierAt
<1>5. e.at = Buffer(Tag(c), m) /\ e.barrier = Buffer(GroupOf(Tag(c)), m)
  BY <1>1
<1>6. e.at[1] = Tag(c)
  BY <1>5 DEF Buffer
<1> QED
  BY <1>1, <1>2, <1>3, <1>4, <1>5, <1>6

LEMMA FlyTmaLand ==
  ASSUME SoundProgram, PosInv, MemShape, FlyInv, UNCHANGED input, Stays,
         NEW e0 \in tma.flying, TmaLands(e0, tma.barrier[e0.barrier].owed \ {e0.at[1]})
  PROVE  FlyInv'
<1>1. ASSUME NEW e \in tma.flying, e # e0 PROVE \E c \in Ops(body), m \in Nat : FlyingOf(e, c, m)'
  <2>1. PICK c \in Ops(body), m \in Nat : FlyingOf(e, c, m)
    BY <1>1 DEF FlyInv, Iterations
  <2>2. PICK x, n : x = ExpectOf(c) /\ n = m + prog.buffers
    OBVIOUS
  <2>3. /\ Kind(c) = "tmacopy" /\ IsFill(c) /\ Ran(c, m) /\ prog.buffers \in Nat \ {0} /\ e.at = Buffer(Tag(c), m)
        /\ e = [at |-> Buffer(Tag(c), m), it |-> e.it, read |-> TRUE, barrier |-> Buffer(GroupOf(Tag(c)), m)]
        /\ e.barrier \in DOMAIN tma.barrier /\ e.barrier = Buffer(GroupOf(Tag(c)), m)
        /\ (m < trip => ~Ran(c, n) /\ ~Ran(x, n) /\ e.it = m /\ Tag(c) \in tma.barrier[e.barrier].owed)
    BY <2>1, <2>2, FlyingHas
  <2>4. x \in Ops(body) /\ n \in Int /\ m \in Int
    BY <2>2, <2>3, BulkFacts
  <2>5. Ran(c, m)' /\ (m < trip => ~Ran(c, n)' /\ ~Ran(x, n)')
    BY <2>3, <2>4 DEF Stays
  <2>6. ASSUME m < trip PROVE Tag(c) \in tma'.barrier[e.barrier].owed
    <3>1. PICK d \in Ops(body), l \in Nat : FlyingOf(e0, d, l)
      BY DEF FlyInv, Iterations
    <3>6. PICK y : y = l + prog.buffers
      OBVIOUS
    <3>2. /\ IsFill(d) /\ Ran(d, l) /\ e0.at = Buffer(Tag(d), l) /\ e0.barrier = Buffer(GroupOf(Tag(d)), l)
          /\ e0 = [at |-> Buffer(Tag(d), l), it |-> e0.it, read |-> TRUE, barrier |-> Buffer(GroupOf(Tag(d)), l)]
          /\ e0.at[1] = Tag(d) /\ (l < trip => ~Ran(d, y) /\ e0.it = l)
      <4>1. IsFill(d) /\ Ran(d, l) /\ e0.at = Buffer(Tag(d), l) /\ e0.at[1] = Tag(d)
        BY <3>1, FlyingHas
      <4>2. e0.barrier = Buffer(GroupOf(Tag(d)), l)
        BY <3>1, FlyingHas
      <4>3. e0 = [at |-> Buffer(Tag(d), l), it |-> e0.it, read |-> TRUE, barrier |-> Buffer(GroupOf(Tag(d)), l)]
        BY <3>1 DEF FlyingOf
      <4>4. l < trip => ~Ran(d, l + prog.buffers) /\ e0.it = l
        BY <3>1 DEF FlyingOf
      <4> QED
        BY <3>6, <4>1, <4>2, <4>3, <4>4
    <3>3. CASE e.barrier = e0.barrier /\ Tag(c) = Tag(d)
      <4>1. c = d
        BY <2>3, <3>2, <3>3, FillFacts
      <4>2. m % prog.buffers = l % prog.buffers
        BY <2>3, <3>2, <3>3 DEF Buffer
      <4>3. Buffer(Tag(d), l) = Buffer(Tag(c), m)
        BY <4>1, <4>2 DEF Buffer
      <4>4. Current(c, m)
        BY <2>2, <2>3, <2>6 DEF Current
      <4>5. l = m
        BY <2>3, <3>2, <3>6, <4>3, <4>4, LatestInBuffer
      <4>6. e.it = e0.it
        BY <2>3, <2>6, <3>2, <4>5
      <4>7. e = e0
        BY <2>3, <3>2, <4>1, <4>5, <4>6
      <4> QED
        BY <1>1, <4>7
    <3>4. CASE e.barrier = e0.barrier /\ Tag(c) # Tag(d)
      BY <2>3, <2>6, <3>2, <3>4 DEF TmaLands
    <3>5. CASE e.barrier # e0.barrier
      BY <2>3, <2>6, <3>5 DEF TmaLands
    <3> QED
      BY <3>3, <3>4, <3>5
  <2>7. ExpectOf(c)' = x
    BY <2>2, StaticStays
  <2>8. m < trip => ~Ran(c, n)' /\ ~Ran(ExpectOf(c), n)' /\ Tag(c) \in tma'.barrier[e.barrier].owed
    BY <2>5, <2>6, <2>7
  <2> QED
    BY <2>1, <2>2, <2>5, <2>8, FlyingStays
<1>2. \A e \in tma'.flying : e \in tma.flying /\ e # e0
  BY DEF TmaLands
<1> QED
  BY <1>1, <1>2, InputSame DEF FlyInv, Iterations

LEMMA FlyingBarrier ==
  ASSUME SoundProgram, MemShape, NEW e, NEW c \in Ops(body), NEW m \in Nat, FlyingOf(e, c, m)
  PROVE  e.barrier = Buffer(Tag(ExpectOf(c)), m)
<1>1. PICK x : x = ExpectOf(c)
  OBVIOUS
<1>2. Kind(c) = "tmacopy" /\ e.barrier = Buffer(GroupOf(Tag(c)), m)
  BY DEF FlyingOf
<1>3. IsFill(c) /\ Tag(x) = GroupOf(Tag(c))
  BY <1>1, <1>2, BulkFacts, BulkWaits
<1> QED
  BY <1>1, <1>2, <1>3

\* A bulk copy in flight belongs to the turn its barrier is in.
LEMMA FlyingExpected ==
  ASSUME SoundProgram, PosInv, MemShape, NEW e0, NEW d \in Ops(body), NEW l \in Nat, FlyingOf(e0, d, l),
         NEW e \in Ops(body), Kind(e) = "expect", NEW m \in Nat, m < trip, Buffer(Tag(e), m) = e0.barrier,
         Current(e, m) \/ (~Ran(e, m) /\ m < prog.buffers)
  PROVE  e = ExpectOf(d) /\ l = m /\ Current(e, m)
<1>1. PICK x, y : x = ExpectOf(d) /\ y = l + prog.buffers
  OBVIOUS
<1>2. /\ Kind(d) = "tmacopy" /\ Ran(d, l) /\ prog.buffers \in Nat \ {0} /\ e0.barrier = Buffer(Tag(x), l)
      /\ (l < trip => ~Ran(x, y))
  <2>1. Kind(d) = "tmacopy" /\ Ran(d, l) /\ prog.buffers \in Nat \ {0}
    BY FlyingHas
  <2>2. e0.barrier = Buffer(Tag(ExpectOf(d)), l)
    BY FlyingBarrier
  <2>3. l < trip => ~Ran(ExpectOf(d), l + prog.buffers)
    BY DEF FlyingOf
  <2> QED
    BY <1>1, <2>1, <2>2, <2>3
<1>3. x \in Ops(body) /\ Kind(x) = "expect" /\ Precedes(x, 0, d)
  BY <1>1, <1>2, BulkFacts
<1>4. Tag(e) = Tag(x) /\ (m < l => l >= m + prog.buffers) /\ (l < m => m >= l + prog.buffers)
  BY <1>2, SharedBuffer
<1>5. e = x
  <2>1. e = <<"expect", Tag(e)>> /\ x = <<"expect", Tag(x)>>
    BY <1>3, ExpectFacts
  <2> QED
    BY <1>4, <2>1
<1>6. Ran(e, l)
  <2>1. 0 \in Int /\ l + 0 <= l /\ l \in Int
    OBVIOUS
  <2> QED
    BY <1>2, <1>3, <1>5, <2>1, RanNeeds DEF SoundProgram, SoundSchedule
<1>7. CASE Current(e, m)
  <2>1. PICK n, q : n = m + prog.buffers /\ q = l + prog.buffers /\ q = y
    BY <1>1
  <2>2. n \in Nat /\ q \in Nat /\ Ran(e, m) /\ ~Ran(e, n)
    BY <1>2, <1>7, <2>1 DEF Current
  <2>3. l < n
    BY <1>6, <2>2, RanOrder
  <2>4. ~(m < l)
    BY <1>2, <1>4, <2>1, <2>3
  <2>5. ASSUME l < m PROVE FALSE
    <3>1. l < trip
      BY <2>5 DEF PosInv
    <3>2. ~Ran(e, q)
      BY <1>2, <1>5, <2>1, <3>1
    <3>3. m < q
      BY <2>2, <3>2, RanOrder
    <3> QED
      BY <1>2, <1>4, <2>1, <2>5, <3>3
  <2> QED
    BY <1>1, <1>5, <1>7, <2>4, <2>5
<1>8. CASE ~Ran(e, m) /\ m < prog.buffers
  <2>1. l < m
    BY <1>6, <1>8, RanOrder
  <2> QED
    BY <1>2, <1>4, <1>8, <2>1
<1> QED
  BY <1>7, <1>8

LEMMA BarrierTmaLand ==
  ASSUME SoundProgram, PosInv, MemShape, FlyInv, BarrierInv, UNCHANGED input, Stays,
         NEW e0 \in tma.flying, NEW left, left = tma.barrier[e0.barrier].owed \ {e0.at[1]}, TmaLands(e0, left)
  PROVE  BarrierInv'
<1>1. ASSUME NEW e \in Ops(body), NEW m \in Nat, Kind(e) = "expect", m < trip
      PROVE  \E bar : /\ bar = tma'.barrier[Buffer(Tag(e), m)]
                      /\ Current(e, m)' => AsExpected(e, m, bar)'
                      /\ ~Ran(e, m)' /\ m < prog.buffers => bar.turns = 0
  <2>1. PICK bar, w, z : z = Buffer(Tag(e), m) /\ bar = tma'.barrier[z] /\ w = WaitOf(e)
    OBVIOUS
  <2>2. w \in Ops(body) /\ Kind(w) = "twait" /\ m \in Int /\ prog.buffers \in Nat \ {0}
    BY <1>1, <2>1, ExpectFacts
  <2>3. z \in DOMAIN tma.barrier
    BY <1>1, <2>1, BarrierAt
  <2>4. (Ran(e, m)' <=> Ran(e, m)) /\ (Current(e, m)' => Current(e, m))
    <3>1. \A n \in Int : Ran(e, n)' <=> Ran(e, n)
      BY DEF Stays
    <3> QED
      BY <2>2, <3>1, CurrentAfter
  <2>5. Ran(WaitOf(e), m)' <=> Ran(WaitOf(e), m)
    <3>1. Ran(w, m)' <=> Ran(w, m)
      BY <2>2 DEF Stays
    <3> QED
      BY <2>1, <3>1 DEF WaitOf
  <2>6. \A c \in Ops(body) : Ran(c, m)' <=> Ran(c, m)
    BY <2>2 DEF Stays
  <2>7. PICK d \in Ops(body), l \in Nat : FlyingOf(e0, d, l)
    BY DEF FlyInv, Iterations
  <2>8. CASE z # e0.barrier
    <3>1. bar = tma.barrier[z]
      BY <2>1, <2>3, <2>8 DEF TmaLands
    <3>2. ~Ran(e, m)' /\ m < prog.buffers => bar.turns = 0
      BY <1>1, <2>1, <2>4, <3>1 DEF BarrierInv, Iterations
    <3>3. ASSUME Current(e, m)' PROVE AsExpected(e, m, bar)'
      <4>1. /\ bar.owed \subseteq Owed(Tag(e))
            /\ bar.turns = (m \div prog.buffers) + (IF bar.owed = {} THEN 1 ELSE 0)
            /\ Ran(WaitOf(e), m) => bar.owed = {}
            /\ \A c \in Ops(body) : Kind(c) = "tmacopy" /\ ExpectOf(c) = e /\ ~Ran(c, m) => Tag(c) \in bar.owed
        BY <1>1, <2>1, <2>4, <3>1, <3>3, BarrierOf
      <4>2. Ran(WaitOf(e), m)' => bar.owed = {}
        BY <2>5, <4>1
      <4>3. \A c \in Ops(body) : Kind(c) = "tmacopy" /\ ExpectOf(c) = e /\ ~Ran(c, m)' => Tag(c) \in bar.owed
        BY <2>6, <4>1
      <4> QED
        BY <4>1, <4>2, <4>3, ExpectedStays
    <3> QED
      BY <2>1, <3>2, <3>3
  <2>9. CASE z = e0.barrier
    <3>1. ~(~Ran(e, m)' /\ m < prog.buffers)
      <4>1. ASSUME ~Ran(e, m), m < prog.buffers PROVE FALSE
        <5>1. Current(e, m)
          BY <1>1, <2>1, <2>7, <2>9, <4>1, FlyingExpected
        <5> QED
          BY <4>1, <5>1 DEF Current
      <4> QED
        BY <2>4, <4>1
    <3>2. ASSUME Current(e, m)' PROVE AsExpected(e, m, bar)'
      <4>1. Current(e, m)
        BY <2>4, <3>2
      <4>2. e = ExpectOf(d) /\ l = m
        BY <1>1, <2>1, <2>7, <2>9, <4>1, FlyingExpected
      <4>3. Kind(d) = "tmacopy" /\ IsFill(d) /\ Ran(d, m) /\ e0.at[1] = Tag(d) /\ Tag(d) \in tma.barrier[z].owed
        BY <1>1, <2>7, <2>9, <4>2, FlyingHas
      <4>4. /\ tma.barrier[z].owed \subseteq Owed(Tag(e))
            /\ tma.barrier[z].turns = (m \div prog.buffers) + (IF tma.barrier[z].owed = {} THEN 1 ELSE 0)
            /\ Ran(WaitOf(e), m) => tma.barrier[z].owed = {}
            /\ \A c \in Ops(body) : Kind(c) = "tmacopy" /\ ExpectOf(c) = e /\ ~Ran(c, m) => Tag(c) \in tma.barrier[z].owed
        BY <1>1, <2>1, <4>1, BarrierOf
      <4>5. /\ bar.owed = left /\ left = tma.barrier[z].owed \ {Tag(d)}
            /\ bar.turns = IF left = {} THEN tma.barrier[z].turns + 1 ELSE tma.barrier[z].turns
        BY <2>1, <2>3, <2>9, <4>3 DEF TmaLands
      <4>6. bar.turns = (m \div prog.buffers) + (IF bar.owed = {} THEN 1 ELSE 0)
        <5>1. tma.barrier[z].turns = (m \div prog.buffers) + 0 /\ (m \div prog.buffers) \in Nat
          BY <2>2, <4>3, <4>4, DivMod
        <5>2. CASE left = {}
          BY <4>5, <5>1, <5>2
        <5>3. CASE left # {}
          BY <4>5, <5>1, <5>3
        <5> QED
          BY <5>2, <5>3
      <4>7. Ran(WaitOf(e), m)' => bar.owed = {}
        BY <2>5, <4>3, <4>4
      <4>8. ASSUME NEW c \in Ops(body), Kind(c) = "tmacopy", ExpectOf(c) = e, ~Ran(c, m)' PROVE Tag(c) \in bar.owed
        <5>1. ~Ran(c, m) /\ IsFill(c)
          BY <2>6, <4>8, BulkFacts
        <5>2. Tag(c) # Tag(d)
          BY <4>3, <5>1, FillFacts
        <5> QED
          BY <4>4, <4>5, <4>8, <5>1, <5>2
      <4>9. bar.owed \subseteq Owed(Tag(e))
        BY <4>4, <4>5
      <4> QED
        BY <4>6, <4>7, <4>8, <4>9, ExpectedStays
    <3> QED
      BY <2>1, <3>1, <3>2
  <2> QED
    BY <2>8, <2>9
<1> QED
  BY <1>1, BarrierInvAfter
\* A wait for a parity passes when the copies of its own turn have landed.
LEMMA WaitPasses ==
  ASSUME SoundProgram, PosInv, BarrierInv, NEW o, NEW k \in Nat, k < trip,
         tma.barrier[Buffer(Tag(o), k)].turns % 2 # (k \div prog.buffers) % 2,
         NEW e \in Ops(body), Kind(e) = "expect", WaitOf(e) = o, Current(e, k)
  PROVE  tma.barrier[Buffer(Tag(e), k)].owed = {}
<1>1. PICK z : z = Buffer(Tag(e), k)
  OBVIOUS
<1>2. Tag(o) = Tag(e)
  BY DEF WaitOf, Tag
<1>3. tma.barrier[z].turns = (k \div prog.buffers) + (IF tma.barrier[z].owed = {} THEN 1 ELSE 0)
  BY <1>1, BarrierOf
<1>4. prog.buffers \in Nat \ {0}
  BY ExpectFacts
<1>5. (k \div prog.buffers) \in Nat
  BY <1>4, DivMod
<1>6. tma.barrier[z].owed # {} => tma.barrier[z].turns = (k \div prog.buffers)
  BY <1>3, <1>5
<1>7. tma.barrier[z].turns % 2 # (k \div prog.buffers) % 2
  BY <1>1, <1>2
<1> QED
  BY <1>1, <1>6, <1>7

LEMMA BarrierTmaWait ==
  ASSUME SoundProgram, PosInv, BarrierInv, UNCHANGED input, tma' = tma,
         NEW o, NEW k, Running(o, k), Advances(o, k), Kind(o) = "twait",
         tma.barrier[Buffer(Tag(o), k)].turns % 2 # (k \div prog.buffers) % 2
  PROVE  BarrierInv'
<1>0. o \in Ops(body) /\ k \in Nat
  BY DEF Running
<1>1. ASSUME NEW e \in Ops(body), NEW m \in Nat, Kind(e) = "expect", m < trip
      PROVE  \E bar : /\ bar = tma'.barrier[Buffer(Tag(e), m)]
                      /\ Current(e, m)' => AsExpected(e, m, bar)'
                      /\ ~Ran(e, m)' /\ m < prog.buffers => bar.turns = 0
  <2>1. PICK bar, w, z : z = Buffer(Tag(e), m) /\ bar = tma.barrier[z] /\ w = WaitOf(e)
    OBVIOUS
  <2>2. w \in Ops(body) /\ Kind(w) = "twait" /\ m \in Int /\ prog.buffers \in Nat \ {0} /\ e # o
    BY <1>1, <2>1, ExpectFacts
  <2>3. ~Ran(e, m)' /\ m < prog.buffers => bar.turns = 0
    <3>1. ~Ran(e, m)' => ~Ran(e, m)
      BY <2>2, OthersStay
    <3> QED
      BY <1>1, <2>1, <3>1 DEF BarrierInv, Iterations
  <2>4. ASSUME Current(e, m)' PROVE AsExpected(e, m, bar)'
    <3>1. Current(e, m)
      BY <2>2, <2>4, CurrentBefore
    <3>2. /\ bar.owed \subseteq Owed(Tag(e))
          /\ bar.turns = (m \div prog.buffers) + (IF bar.owed = {} THEN 1 ELSE 0)
          /\ Ran(WaitOf(e), m) => bar.owed = {}
          /\ \A c \in Ops(body) : Kind(c) = "tmacopy" /\ ExpectOf(c) = e /\ ~Ran(c, m) => Tag(c) \in bar.owed
      BY <1>1, <2>1, <3>1, BarrierOf
    <3>3. Ran(WaitOf(e), m)' => bar.owed = {}
      <4>1. CASE w = o /\ m = k
        <5>1. tma.barrier[Buffer(Tag(e), m)].owed = {}
          BY <1>1, <2>1, <3>1, <4>1, WaitPasses
        <5> QED
          BY <2>1, <5>1
      <4>2. CASE ~(w = o /\ m = k)
        <5>1. Ran(w, m)' => Ran(w, m)
          BY <2>2, <4>2, OthersStay
        <5> QED
          BY <2>1, <3>2, <5>1 DEF WaitOf
      <4> QED
        BY <4>1, <4>2
    <3>4. \A c \in Ops(body) : Kind(c) = "tmacopy" /\ ExpectOf(c) = e /\ ~Ran(c, m)' => Tag(c) \in bar.owed
      <4>1. \A c \in Ops(body) : Kind(c) = "tmacopy" /\ ~Ran(c, m)' => ~Ran(c, m)
        BY <2>2 DEF Advances
      <4> QED
        BY <3>2, <4>1
    <3> QED
      BY <3>2, <3>3, <3>4, ExpectedStays
  <2> QED
    BY <2>1, <2>3, <2>4
<1> QED
  BY <1>1, BarrierInvAfter

\* A bulk copy that has not landed is owed.
LEMMA OwedInFlight ==
  ASSUME SoundProgram, PosInv, FlyInv, TmaSlots, NEW c \in Ops(body), Kind(c) = "tmacopy", NEW j \in Nat, Current(c, j),
         ~slot[Buffer(Tag(c), j)].landed
  PROVE  /\ tma.barrier[Buffer(Tag(ExpectOf(c)), j)].owed # {}
         /\ ~Ran(WaitOf(ExpectOf(c)), j)
<1>1. PICK x : x = Buffer(Tag(c), j)
  OBVIOUS
<1>2. /\ slot[x].landed \/ \E e \in tma.flying : e.at = x
      /\ Ran(WaitOf(ExpectOf(c)), j) => slot[x].landed
  BY <1>1, TmaInSlot
<1>3. PICK e \in tma.flying : e.at = x
  BY <1>1, <1>2
<1>4. PICK d \in Ops(body), l \in Nat : FlyingOf(e, d, l)
  BY DEF FlyInv, Iterations
<1>5. IsFill(c) /\ Tag(ExpectOf(c)) = GroupOf(Tag(c))
  BY BulkFacts
<1>6. e.at = Buffer(Tag(c), j)
  BY <1>1, <1>3
<1>7. /\ d = c /\ l = j /\ e.barrier = Buffer(GroupOf(Tag(d)), l) /\ Tag(d) \in tma.barrier[e.barrier].owed
  BY <1>4, <1>5, <1>6, FlyingIsCurrent
<1> QED
  BY <1>1, <1>2, <1>5, <1>7

LEMMA TmaSlotWait ==
  ASSUME SoundProgram, PosInv, BarrierInv, FlyInv, TmaSlots, UNCHANGED input, tma' = tma, slot' = slot,
         NEW o, NEW k, Running(o, k), Advances(o, k), Kind(o) = "twait",
         tma.barrier[Buffer(Tag(o), k)].turns % 2 # (k \div prog.buffers) % 2
  PROVE  TmaSlots'
<1>0. o \in Ops(body) /\ k \in Nat
  BY DEF Running
<1>1. ASSUME NEW c \in Ops(body), NEW j \in Nat, Kind(c) = "tmacopy", Current(c, j)' PROVE InTmaSlot(c, j)'
  <2>1. PICK q, u, x : q = ExpectOf(c) /\ u = WaitOf(q) /\ x = Buffer(Tag(c), j)
    OBVIOUS
  <2>2. u \in Ops(body) /\ j \in Int /\ IsFill(c) /\ prog.buffers \in Nat \ {0} /\ q \in Ops(body) /\ Kind(q) = "expect"
        /\ Tag(q) = GroupOf(Tag(c)) /\ c # o
    BY <1>1, <2>1, BulkWaits, BulkFacts
  <2>3. WaitOf(ExpectOf(c))' = u
    BY <2>1, StaticStays DEF WaitOf
  <2>4. Current(c, j)
    BY <1>1, <2>2, CurrentBefore
  <2>5. /\ slot[x] # None /\ slot[x].it = j
        /\ slot[x].landed \/ \E e \in tma.flying : e.at = x
        /\ Ran(WaitOf(ExpectOf(c)), j) => slot[x].landed
    BY <1>1, <2>1, <2>4, TmaInSlot
  <2>6. ASSUME u = o, j = k, ~slot[x].landed PROVE FALSE
    <3>1. tma.barrier[Buffer(Tag(q), j)].owed # {}
      BY <1>1, <2>1, <2>4, <2>6, OwedInFlight
    <3>3. j < trip
      BY <2>4 DEF Current
    <3>4. Current(q, j)
      <4>1. Ran(c, j) /\ ~Ran(u, j)
        <5>1. j >= k /\ j \in Int
          BY <1>0, <2>2, <2>6
        <5> QED
          BY <2>4, <2>6, <5>1, RunningIsNew DEF SoundProgram, SoundSchedule, Current
      <4> QED
        BY <1>1, <2>1, <3>3, <4>1, ExpectIsCurrent
    <3>5. tma.barrier[Buffer(Tag(q), j)].owed = {}
      BY <1>0, <2>1, <2>2, <2>6, <3>3, <3>4, WaitPasses
    <3> QED
      BY <3>1, <3>5
  <2>7. Ran(WaitOf(ExpectOf(c)), j)' => slot'[x].landed
    <3>1. CASE u = o /\ j = k
      BY <2>6, <3>1
    <3>2. CASE ~(u = o /\ j = k)
      <4>1. Ran(u, j)' => Ran(u, j)
        BY <2>2, <3>2, OthersStay
      <4> QED
        BY <2>1, <2>3, <2>5, <4>1
    <3> QED
      BY <3>1, <3>2
  <2> QED
    BY <2>1, <2>5, <2>7, InTmaSlotStays
<1> QED
  BY <1>1, TmaSlotsAfter

-----------------------------------------------------------------------------
(***************************************************************************)
(* Who reads a buffer finds its iteration in it, at once or while a dot is *)
(* in flight.                                                              *)
(***************************************************************************)
\* A reader finds its iteration in the buffer until the next copy into it runs.
LEMMA ViewFull ==
  ASSUME SoundProgram, PosInv, MemShape, GroupInv, SlotInv, NEW c, IsFill(c), NEW u \in Readers(Tag(c)),
         NEW k \in Nat, k < trip, Ran(u, k) \/ Running(u, k), ~Ran(c, k + prog.buffers)
  PROVE  LET x == Buffer(Tag(c), k) IN slot[x] # None /\ slot[x].it = k /\ slot[x].landed
<1>1. c \in Ops(body) /\ u \in Ops(body)
  BY FillFacts
<1>2. PICK x : x = Buffer(Tag(c), k)
  OBVIOUS
<1>3. CASE Kind(c) = "copy"
  <2>1. Ran(CommitOf(c), k) /\ Ran(c, k) /\ CommitNumber(c, k) <= Landings
    BY <1>1, <1>3, LandedWhenRead
  <2>2. Current(c, k)
    BY <2>1 DEF Current
  <2>3. InSlot(c, k, Landings)
    BY <1>1, <1>3, <2>2, CopyInSlot DEF SlotInv
  <2>4. /\ slot[x] # None /\ slot[x].it = k
        /\ \/ slot[x].landed
           \/ ~Ran(CommitOf(c), k) /\ \E e \in copies.open : e.at = x
           \/ \E i \in 1..Len(copies.groups) : (\E e \in copies.groups[i] : e.at = x)
                                             /\ (Ran(CommitOf(c), k) => i + Landings <= CommitNumber(c, k))
    BY <1>2, <2>3 DEF InSlot, FullOf
  <2>5. ASSUME NEW i \in 1..Len(copies.groups), i + Landings <= CommitNumber(c, k) PROVE FALSE
    <3>1. i \in Int /\ i >= 1 /\ Landings \in Int /\ CommitNumber(c, k) \in Int
      BY <1>1, <1>3, LandingsTyped, CommitNumberTyped
    <3> QED
      BY <2>1, <2>5, <3>1
  <2>6. slot[x].landed
    BY <2>1, <2>4, <2>5
  <2> QED
    BY <1>2, <2>4, <2>6
<1>4. CASE Kind(c) = "tmacopy"
  <2>1. PICK w : w = WaitOf(ExpectOf(c))
    OBVIOUS
  <2>2. w \in Ops(body) /\ Precedes(w, 0, u) /\ Precedes(c, 0, w)
    BY <1>1, <1>4, <2>1, BulkWaits, BulkFacts
  <2>3. 0 \in Int /\ k + 0 <= k /\ k \in Int
    OBVIOUS
  <2>4. Ran(w, k)
    BY <1>1, <2>2, <2>3, RanNeeds, RunningNeeds DEF SoundProgram, SoundSchedule
  <2>5. Ran(c, k)
    BY <1>1, <2>2, <2>3, <2>4, RanNeeds DEF SoundProgram, SoundSchedule
  <2>6. Current(c, k)
    BY <2>5 DEF Current
  <2>7. /\ slot[x] # None /\ slot[x].it = k
        /\ Ran(WaitOf(ExpectOf(c)), k) => slot[x].landed
    BY <1>1, <1>2, <1>4, <2>6, TmaInSlot DEF SlotInv
  <2> QED
    BY <1>2, <2>1, <2>4, <2>7
<1> QED
  BY <1>3, <1>4 DEF IsFill

\* Who reads a view reads a buffer that something fills.
LEMMA ViewHasFill ==
  ASSUME SoundProgram, NEW o \in Ops(body), NEW r \in AllRefs(body, o), Kind(r.def) = "view"
  PROVE  /\ r.dist = 0
         /\ \E c \in Ops(body) : IsFill(c) /\ Tag(c) = Tag(r.def) /\ o \in Readers(Tag(c))
<1>1. r.dist = 0 /\ \E c \in Ops(body) : IsFill(c) /\ Tag(c) = Tag(r.def)
  BY DEF SoundProgram, SoundSchedule, RingIsLongEnough
<1>2. PICK c \in Ops(body) : IsFill(c) /\ Tag(c) = Tag(r.def)
  BY <1>1
<1>3. o \in Readers(Tag(c))
  BY <1>2 DEF Readers
<1> QED
  BY <1>1, <1>2, <1>3

\* ... and finds it full while it runs.
LEMMA ViewOfRunning ==
  ASSUME SoundProgram, PosInv, MemShape, GroupInv, SlotInv, NEW o, NEW k, Running(o, k), k < trip,
         NEW r \in AllRefs(body, o), Kind(r.def) = "view"
  PROVE  LET x == Buffer(Tag(r.def), k) IN slot[x] # None /\ slot[x].it = k /\ slot[x].landed
<1>1. o \in Ops(body) /\ k \in Nat
  BY DEF Running
<1>2. PICK c \in Ops(body) : IsFill(c) /\ Tag(c) = Tag(r.def) /\ o \in Readers(Tag(c))
  BY <1>1, ViewHasFill
<1>3. prog.buffers \in Nat \ {0} /\ Precedes(o, prog.buffers, c)
  BY <1>2, FillFacts
<1>4. PICK n : n = k + prog.buffers
  OBVIOUS
<1>5. n \in Nat /\ k + prog.buffers <= n /\ prog.buffers \in Int
  BY <1>1, <1>3, <1>4
<1>6. ~Ran(c, n)
  BY <1>2, <1>3, <1>5, RunningIsNew DEF SoundProgram, SoundSchedule
<1> QED
  BY <1>1, <1>2, <1>4, <1>6, ViewFull

LEMMA AsyncFacts ==
  ASSUME SoundProgram, NEW d \in Ops(body), IsAsync(d)
  PROVE  /\ prog.stage[d] = prog.max /\ Kind(d) = "dot" /\ prog.max \in Nat /\ Place(d) \in Nat /\ Place(d) >= 1
         /\ Place(d) <= Len(prog.kernel) /\ Len(prog.kernel) \in Nat
         /\ \A k \in Int : Turn(d, k) = k
<1>1. prog.stage[d] = prog.max /\ Kind(d) = "dot"
  BY DEF SoundProgram, SoundSchedule, DotsRetire, IsAsync, IsHopper
<1>2. prog.max \in Nat /\ Place(d) \in Nat /\ Place(d) >= 1 /\ Place(d) <= Len(prog.kernel) /\ Len(prog.kernel) \in Nat
  BY Typed DEF SoundProgram, SoundSchedule
<1> QED
  BY <1>1, <1>2 DEF Turn

\* A dot is retired before what must not start earlier.
LEMMA RetiredBefore ==
  ASSUME SoundProgram, PosInv, DotsInv, part # "prologue", NEW d \in Ops(body), IsAsync(d), NEW u \in Ops(body),
         NEW later \in Nat, NEW k \in Nat, NEW m, m = k + later, Ran(u, m) \/ Running(u, m),
         \E t \in 0..(later + prog.max), i \in Steps : RetiresBy(d, 0, t, i) /\ Before(t, i, Turn(u, later), Place(u))
  PROVE  1 + DotsBefore(k, Place(d)) <= Retired
<1>1. PICK t \in 0..(later + prog.max), i \in Steps : RetiresBy(d, 0, t, i) /\ Before(t, i, Turn(u, later), Place(u))
  OBVIOUS
<1>2. prog.max \in Nat /\ t \in Nat /\ i \in Int /\ m \in Int /\ Len(prog.async) \in Nat
  BY <1>1, Typed DEF SoundProgram, SoundSchedule, Steps, DotsRetire
<1>3. RetiresBy(d, k, t + k, i)
  BY <1>1, <1>2, RetiresShift DEF SoundProgram, SoundSchedule
<1>4. PICK T, U, V : T = t + k /\ U = Turn(u, later) /\ V = Turn(u, m)
  OBVIOUS
<1>5. U \in Int /\ V \in Int /\ V = U + k /\ Place(u) \in Int /\ T \in Nat /\ T \in Int
  <2>1. U \in Int /\ U = later + prog.stage[u] - prog.max /\ prog.stage[u] \in Int /\ Place(u) \in Int
    BY <1>4, TurnIs DEF SoundProgram, SoundSchedule
  <2>2. V \in Int /\ V = m + prog.stage[u] - prog.max
    <3>1. V = Turn(u, m) /\ m \in Int
      BY <1>2, <1>4
    <3>2. Turn(u, m) \in Int /\ Turn(u, m) = m + prog.stage[u] - prog.max
      BY <3>1, TurnIs DEF SoundProgram, SoundSchedule
    <3> QED
      BY <3>1, <3>2
  <2>3. V = U + k
    <3>1. PICK s, x : s = prog.stage[u] /\ x = prog.max
      OBVIOUS
    <3>2. s \in Int /\ x \in Int /\ U = later + s - x /\ V = (k + later) + s - x
      BY <1>2, <2>1, <2>2, <3>1
    <3> QED
      BY <3>2
  <2>4. T \in Nat
    BY <1>2, <1>4
  <2> QED
    BY <2>1, <2>2, <2>3, <2>4
<1>6. Before(T, i, V, Place(u))
  <2>1. Before(t, i, U, Place(u))
    BY <1>1, <1>4
  <2>2. T = t + k
    BY <1>4
  <2> QED
    BY <1>2, <1>5, <2>1, <2>2 DEF Before
<1>7. NowTurn \in Int /\ NowPlace \in Int
  BY NowTyped DEF SoundProgram, SoundSchedule
<1>8. Before(T, i, NowTurn, NowPlace)
  <2>1. CASE Ran(u, m)
    <3>1. Before(V, Place(u), NowTurn, NowPlace)
      BY <1>4, <2>1 DEF Ran, Reached
    <3> QED
      BY <1>2, <1>5, <1>6, <1>7, <3>1, BeforeIsOrder
  <2>2. CASE Running(u, m)
    BY <1>4, <1>6, <2>2 DEF Running
  <2> QED
    BY <2>1, <2>2
<1> QED
  BY <1>3, <1>4, <1>5, <1>8 DEF DotsInv, Iterations, Reached

LEMMA DotInFlight ==
  ASSUME SoundProgram, PosInv, MemShape, DotsInv, NEW i \in DOMAIN dots
  PROVE  /\ part # "prologue" /\ i \in Nat /\ i >= 1
         /\ \E d \in Ops(body), k \in Nat :
              /\ dots[i].op = d /\ dots[i].it = k
              /\ IsAsync(d) /\ Ran(d, k) /\ k < trip
              /\ dots[i].reads = {Buffer(Tag(r.def), k) : r \in {q \in Refs(body, d) : Kind(q.def) = "view"}}
              /\ 1 + DotsBefore(k, Place(d)) = Retired + i
              /\ ~(1 + DotsBefore(k, Place(d)) <= Retired)
<1>1. DOMAIN dots = 1..Len(dots) /\ Len(dots) \in Nat
  BY DEF MemShape
<1>2. part # "prologue"
  <2>1. ASSUME part = "prologue" PROVE FALSE
    <3>1. dots = <<>>
      BY <2>1 DEF DotsInv
    <3> QED
      BY <3>1
  <2> QED
    BY <2>1
<1>3. i \in 1..Len(dots) /\ i \in Nat /\ i >= 1
  BY <1>1
<1>4. PICK d \in Ops(body), k \in Nat :
         /\ dots[i].op = d /\ dots[i].it = k
         /\ IsAsync(d) /\ Ran(d, k) /\ k < trip
         /\ dots[i].reads = {Buffer(Tag(r.def), k) : r \in {q \in Refs(body, d) : Kind(q.def) = "view"}}
         /\ 1 + DotsBefore(k, Place(d)) = Retired + i
  BY <1>2, <1>3 DEF DotsInv, Iterations
<1>5. Issued \in Int
  <2>1. /\ Issued = pos.turn * DotsPerTurn + Cardinality(KernelDots(pos.i)) /\ pos.turn \in Nat /\ pos.i \in Nat
        /\ pos.i >= 1 /\ pos.i <= Len(prog.kernel) + 1
    BY <1>2, NowInKernel DEF SoundProgram, SoundSchedule
  <2>2. pos.turn * DotsPerTurn \in Nat /\ Cardinality(KernelDots(pos.i)) \in Nat
    BY <2>1, DotsInKernel DEF SoundProgram, SoundSchedule
  <2> QED
    BY <2>1, <2>2
<1>6. Retired \in Int
  BY <1>1, <1>5 DEF Retired
<1>7. ~(1 + DotsBefore(k, Place(d)) <= Retired)
  BY <1>3, <1>4, <1>6
<1> QED
  BY <1>2, <1>3, <1>4, <1>7

LEMMA RetiresInTime ==
  ASSUME SoundProgram, NEW d \in Ops(body), IsAsync(d)
  PROVE  /\ \A c \in Ops(body) : IsFill(c) /\ d \in Readers(Tag(c)) =>
              \E t \in 0..(prog.buffers + prog.max), i \in Steps :
                 RetiresBy(d, 0, t, i) /\ Before(t, i, Turn(c, prog.buffers), Place(c))
         /\ \A o \in Ops(body) : \A r \in AllRefs(body, o) : r.def \in prog.flow[d] =>
              \/ IsHopper(body, o) /\ r = Last(body.args[o])
              \/ Kind(o) = "if" /\ o \in prog.syncs /\ r \notin Refs(body, o)
              \/ HandsOn(o, r)
              \/ \E t \in 0..(r.dist + prog.max), i \in Steps :
                    RetiresBy(d, 0, t, i) /\ Before(t, i, Turn(o, r.dist), Place(o))
BY DEF SoundProgram, SoundSchedule, DotsRetire

\* What a dot in flight reads is not filled again.
LEMMA NotRefilled ==
  ASSUME SoundProgram, PosInv, MemShape, DotsInv, NEW i \in DOMAIN dots, NEW d \in Ops(body), NEW k \in Nat,
         part # "prologue", IsAsync(d), ~(1 + DotsBefore(k, Place(d)) <= Retired),
         NEW c \in Ops(body), IsFill(c), d \in Readers(Tag(c))
  PROVE  ~Ran(c, k + prog.buffers)
<1>1. prog.buffers \in Nat
  BY FillFacts
<1>2. PICK m, b : m = k + b /\ b = prog.buffers
  OBVIOUS
<1>3. \E t \in 0..(b + prog.max), j \in Steps : RetiresBy(d, 0, t, j) /\ Before(t, j, Turn(c, b), Place(c))
  BY <1>2, RetiresInTime
<1> SUFFICES ASSUME Ran(c, m) PROVE FALSE
  BY <1>2
<1> QED
  BY <1>1, <1>2, <1>3, RetiredBefore

LEMMA DotsKeep ==
  ASSUME SoundProgram, PosInv, MemShape, GroupInv, SlotInv, DotsInv
  PROVE  DotsKeepTheirBuffers
<1>1. ASSUME NEW i \in DOMAIN dots, NEW x \in dots[i].reads
      PROVE  slot[x] # None /\ slot[x].it = dots[i].it /\ slot[x].landed
  <2>1. part # "prologue"
    BY <1>1, DotInFlight
  <2>2. PICK d \in Ops(body), k \in Nat :
              /\ dots[i].op = d /\ dots[i].it = k
              /\ IsAsync(d) /\ Ran(d, k) /\ k < trip
              /\ dots[i].reads = {Buffer(Tag(r.def), k) : r \in {q \in Refs(body, d) : Kind(q.def) = "view"}}
              /\ 1 + DotsBefore(k, Place(d)) = Retired + i
              /\ ~(1 + DotsBefore(k, Place(d)) <= Retired)
    BY <1>1, DotInFlight
  <2>3. PICK r \in Refs(body, d) : Kind(r.def) = "view" /\ x = Buffer(Tag(r.def), k)
    BY <1>1, <2>2
  <2>4. r \in AllRefs(body, d)
    BY <2>3 DEF AllRefs
  <2>5. PICK c \in Ops(body) : IsFill(c) /\ Tag(c) = Tag(r.def) /\ d \in Readers(Tag(c))
    BY <2>3, <2>4, ViewHasFill
  <2>6. ~Ran(c, k + prog.buffers)
    BY <1>1, <2>1, <2>2, <2>5, NotRefilled
  <2>7. x = Buffer(Tag(c), k)
    BY <2>3, <2>5
  <2> QED
    BY <2>2, <2>5, <2>6, <2>7, ViewFull
<1> QED
  BY <1>1 DEF DotsKeepTheirBuffers

-----------------------------------------------------------------------------
(***************************************************************************)
(* The dots in flight: as many as were issued and have not retired, the    *)
(* oldest first.                                                           *)
(***************************************************************************)
\* Entry i of the dots in flight, where R dots have retired.
IsDot(e, d, k) ==
  /\ e.op = d /\ e.it = k /\ IsAsync(d) /\ k < trip
  /\ e.reads = {Buffer(Tag(r.def), k) : r \in {q \in Refs(body, d) : Kind(q.def) = "view"}}

LEMMA DotsInvAfter ==
  ASSUME UNCHANGED input, part' # "prologue", NEW R, Retired' = R, R >= 0,
         \A i \in 1..Len(dots') : \E d \in Ops(body), k \in Nat :
            IsDot(dots'[i], d, k) /\ Ran(d, k)' /\ 1 + DotsBefore(k, Place(d)) = R + i,
         \A d \in Ops(body), k \in Nat, t \in Nat, i \in Steps :
            IsAsync(d) /\ RetiresBy(d, k, t, i) /\ Reached(t, i)' => 1 + DotsBefore(k, Place(d)) <= R
  PROVE  DotsInv'
<1>1. /\ prog' = prog /\ trip' = trip /\ body' = body
      /\ \A l, n : Buffer(l, n)' = Buffer(l, n)
      /\ \A o : IsAsync(o)' = IsAsync(o)
      /\ \A t, i : DotsBefore(t, i)' = DotsBefore(t, i)
      /\ \A d, k, t, i : RetiresBy(d, k, t, i)' <=> RetiresBy(d, k, t, i)
      /\ Steps' = Steps
  BY StaticStays, InputSame
<1>2. \A o : Place(o)' = Place(o)
  BY ProgramStays
<1>3. ASSUME NEW i \in 1..Len(dots')
      PROVE  \E d \in Ops(body), k \in Nat :
         /\ dots'[i].op = d /\ dots'[i].it = k
         /\ IsAsync(d)' /\ Ran(d, k)' /\ k < trip'
         /\ dots'[i].reads = {Buffer(Tag(r.def), k)' : r \in {q \in Refs(body, d) : Kind(q.def) = "view"}}
         /\ 1 + DotsBefore(k, Place(d))' = R + i
  <2>1. PICK d \in Ops(body), k \in Nat : IsDot(dots'[i], d, k) /\ Ran(d, k)' /\ 1 + DotsBefore(k, Place(d)) = R + i
    BY <1>3
  <2>2. DotsBefore(k, Place(d))' = DotsBefore(k, Place(d))
    BY <1>1 DEF DotsBefore, KernelDots, IsAsync, body, Place
  <2>3. {Buffer(Tag(r.def), k)' : r \in {q \in Refs(body, d) : Kind(q.def) = "view"}}
        = {Buffer(Tag(r.def), k) : r \in {q \in Refs(body, d) : Kind(q.def) = "view"}}
    BY <1>1 DEF Buffer
  <2> QED
    BY <1>1, <2>1, <2>2, <2>3 DEF IsDot
<1>4. ASSUME NEW d \in Ops(body), NEW k \in Nat, NEW t \in Nat, NEW i \in Steps,
             IsAsync(d)', RetiresBy(d, k, t, i)', Reached(t, i)'
      PROVE  1 + DotsBefore(k, Place(d))' <= R
  <2>1. DotsBefore(k, Place(d))' = DotsBefore(k, Place(d))
    BY <1>1 DEF DotsBefore, KernelDots, IsAsync, body, Place
  <2>2. IsAsync(d) /\ RetiresBy(d, k, t, i)
    BY <1>1, <1>4
  <2> QED
    BY <1>4, <2>1, <2>2
<1> QED
  BY <1>1, <1>3, <1>4 DEF DotsInv, Iterations

LEMMA DotsTyped ==
  ASSUME SoundProgram, PosInv, MemShape, DotsInv, part # "prologue"
  PROVE  /\ Issued \in Nat /\ Retired \in Int /\ Retired >= 0 /\ Len(dots) \in Nat /\ Retired = Issued - Len(dots)
         /\ \A i \in 1..Len(dots) : \E d \in Ops(body), k \in Nat :
              IsDot(dots[i], d, k) /\ Ran(d, k) /\ 1 + DotsBefore(k, Place(d)) = Retired + i
         /\ \A d \in Ops(body), k \in Nat, t \in Nat, i \in Steps :
              IsAsync(d) /\ RetiresBy(d, k, t, i) /\ Reached(t, i) => 1 + DotsBefore(k, Place(d)) <= Retired
<1>1. /\ Issued = pos.turn * DotsPerTurn + Cardinality(KernelDots(pos.i)) /\ pos.turn \in Nat /\ pos.i \in Nat
      /\ pos.i >= 1 /\ pos.i <= Len(prog.kernel) + 1
  BY NowInKernel DEF SoundProgram, SoundSchedule
<1>2. pos.turn * DotsPerTurn \in Nat /\ Cardinality(KernelDots(pos.i)) \in Nat
  BY <1>1, DotsInKernel DEF SoundProgram, SoundSchedule
<1>3. Issued \in Nat /\ Len(dots) \in Nat /\ Retired = Issued - Len(dots)
  BY <1>1, <1>2 DEF MemShape, Retired
<1>4. Retired \in Int
  BY <1>3
<1> QED
  BY <1>3, <1>4 DEF DotsInv, Iterations, IsDot

LEMMA RetiredAfter ==
  ASSUME UNCHANGED input, NEW n, Issued' = n
  PROVE  Retired' = n - Len(dots')
BY DEF Retired

LEMMA DotsQuiet ==
  ASSUME SoundProgram, PosInv, MemShape, DotsInv, UNCHANGED input, UNCHANGED dots,
         part # "prologue", part' # "prologue", Issued' = Issued,
         \A u \in Ops(body), m \in Int : Ran(u, m) => Ran(u, m)',
         \A t \in Nat, i \in Steps : Kind(prog.kernel[i]) = "dotwait" /\ Reached(t, i)' => Reached(t, i)
  PROVE  DotsInv'
<1>1. PICK R, n : R = Retired /\ n = Issued
  OBVIOUS
<1>2. Retired' = R /\ R >= 0
  <2>1. Retired' = n - Len(dots')
    BY <1>1, RetiredAfter
  <2> QED
    BY <1>1, <2>1, DotsTyped
<1>3. \A i \in 1..Len(dots') : \E d \in Ops(body), k \in Nat :
         IsDot(dots'[i], d, k) /\ Ran(d, k)' /\ 1 + DotsBefore(k, Place(d)) = R + i
  <2>1. ASSUME NEW i \in 1..Len(dots)
        PROVE  \E d \in Ops(body), k \in Nat : IsDot(dots[i], d, k) /\ Ran(d, k)' /\ 1 + DotsBefore(k, Place(d)) = R + i
    <3>1. PICK d \in Ops(body), k \in Nat : IsDot(dots[i], d, k) /\ Ran(d, k) /\ 1 + DotsBefore(k, Place(d)) = Retired + i
      BY <2>1, DotsTyped
    <3>2. Ran(d, k)'
      BY <3>1
    <3> QED
      BY <1>1, <3>1, <3>2
  <2> QED
    BY <2>1
<1>4. ASSUME NEW d \in Ops(body), NEW k \in Nat, NEW t \in Nat, NEW i \in Steps,
             IsAsync(d), RetiresBy(d, k, t, i), Reached(t, i)'
      PROVE  1 + DotsBefore(k, Place(d)) <= R
  <2>1. Kind(prog.kernel[i]) = "dotwait"
    BY <1>4 DEF RetiresBy
  <2>2. Reached(t, i)
    BY <1>4, <2>1
  <2> QED
    BY <1>1, <1>4, <2>2, DotsTyped
<1> QED
  BY <1>2, <1>3, <1>4, DotsInvAfter

LEMMA DotsRetireStep ==
  ASSUME SoundProgram, PosInv, MemShape, DotsInv, UNCHANGED input, Stays, part' = part, part # "prologue",
         Issued' = Issued, NowTurn' = NowTurn, NowPlace' = NowPlace, dots # <<>>, dots' = Tail(dots)
  PROVE  DotsInv'
<1>1. PICK R, n, l : R = Retired + 1 /\ n = Issued /\ l = Len(dots)
  OBVIOUS
<1>2. /\ l \in Nat /\ l >= 1 /\ Len(dots') = l - 1 /\ dots' = [i \in 1..(l - 1) |-> dots[i + 1]]
  BY <1>1, TailIsShorter DEF MemShape
<1>3. /\ n \in Nat /\ Retired \in Int /\ Retired >= 0 /\ Retired = n - l
  BY <1>1, DotsTyped
<1>4. Retired' = R /\ R >= 0
  <2>1. Retired' = n - Len(dots')
    BY <1>1, RetiredAfter
  <2> QED
    BY <1>1, <1>2, <1>3, <2>1
<1>5. ASSUME NEW i \in 1..Len(dots')
      PROVE  \E d \in Ops(body), k \in Nat : IsDot(dots'[i], d, k) /\ Ran(d, k)' /\ 1 + DotsBefore(k, Place(d)) = R + i
  <2>1. PICK j : j = i + 1
    OBVIOUS
  <2>2. i \in Int /\ j \in 1..Len(dots) /\ dots'[i] = dots[j] /\ R + i = Retired + j
    BY <1>1, <1>2, <1>3, <2>1
  <2>3. PICK d \in Ops(body), k \in Nat : IsDot(dots[j], d, k) /\ Ran(d, k) /\ 1 + DotsBefore(k, Place(d)) = Retired + j
    BY <2>2, DotsTyped
  <2>4. Ran(d, k)'
    BY <2>3 DEF Stays
  <2> QED
    BY <2>2, <2>3, <2>4
<1>6. ASSUME NEW d \in Ops(body), NEW k \in Nat, NEW t \in Nat, NEW i \in Steps,
             IsAsync(d), RetiresBy(d, k, t, i), Reached(t, i)'
      PROVE  1 + DotsBefore(k, Place(d)) <= R
  <2>1. Reached(t, i)
    BY <1>6 DEF Reached, Before
  <2>2. 1 + DotsBefore(k, Place(d)) <= Retired
    BY <1>6, <2>1, DotsTyped
  <2>3. DotsBefore(k, Place(d)) \in Nat
    <3>1. Place(d) \in Nat /\ Place(d) >= 1 /\ Place(d) <= Len(prog.kernel) + 1
      BY AsyncFacts, <1>6
    <3>2. DotsBefore(k, Place(d)) = k * DotsPerTurn + Cardinality(KernelDots(Place(d)))
          /\ k * DotsPerTurn \in Nat /\ Cardinality(KernelDots(Place(d))) \in Nat
      BY <3>1, DotsInKernel DEF SoundProgram, SoundSchedule
    <3> QED
      BY <3>2
  <2> QED
    BY <1>1, <1>3, <2>2, <2>3
<1> QED
  BY <1>4, <1>5, <1>6, DotsInvAfter

LEMMA DotsWaitedStep ==
  ASSUME SoundProgram, PosInv, MemShape, DotsInv, UNCHANGED input, Stays, part' = part, part = "kernel",
         pos.i \in Steps, NowTurn' = NowTurn, NowPlace' = NowPlace + 1, dots' = dots, Issued' = Issued,
         Len(dots) <= DotsLeft(pos.i)
  PROVE  DotsInv'
<1>1. PICK R, n : R = Retired /\ n = Issued
  OBVIOUS
<1>2. Retired' = R /\ R >= 0
  <2>1. Retired' = n - Len(dots')
    BY <1>1, RetiredAfter
  <2> QED
    BY <1>1, <2>1, DotsTyped
<1>3. \A i \in 1..Len(dots') : \E d \in Ops(body), k \in Nat :
         IsDot(dots'[i], d, k) /\ Ran(d, k)' /\ 1 + DotsBefore(k, Place(d)) = R + i
  <2>1. ASSUME NEW i \in 1..Len(dots)
        PROVE  \E d \in Ops(body), k \in Nat : IsDot(dots[i], d, k) /\ Ran(d, k)' /\ 1 + DotsBefore(k, Place(d)) = R + i
    <3>1. PICK d \in Ops(body), k \in Nat : IsDot(dots[i], d, k) /\ Ran(d, k) /\ 1 + DotsBefore(k, Place(d)) = Retired + i
      BY <2>1, DotsTyped
    <3>2. Ran(d, k)'
      BY <3>1 DEF Stays
    <3> QED
      BY <1>1, <3>1, <3>2
  <2> QED
    BY <2>1
<1>4. ASSUME NEW d \in Ops(body), NEW k \in Nat, NEW t \in Nat, NEW i \in Steps,
             IsAsync(d), RetiresBy(d, k, t, i), Reached(t, i)'
      PROVE  1 + DotsBefore(k, Place(d)) <= R
  <2>1. NowTurn = pos.turn /\ NowPlace = pos.i /\ pos.i \in Nat /\ pos.turn \in Nat
    BY NowInKernel DEF SoundProgram, SoundSchedule
  <2>2. Before(t, i, pos.turn, pos.i + 1)
    BY <1>4, <2>1 DEF Reached, Before
  <2>3. i \in Int
    BY DEF Steps
  <2>4. CASE Before(t, i, pos.turn, pos.i)
    <3>1. Reached(t, i)
      BY <2>1, <2>4 DEF Reached
    <3> QED
      BY <1>1, <1>4, <3>1, DotsTyped
  <2>5. CASE t = pos.turn /\ i = pos.i
    <3>1. 1 + DotsBefore(k, Place(d)) + DotsLeft(i) <= DotsBefore(t, i)
      BY <1>4 DEF RetiresBy
    <3>2. DotsBefore(t, i) = Issued
      BY <2>1, <2>5 DEF Issued
    <3>3. DotsBefore(k, Place(d)) \in Nat
      <4>1. Place(d) \in Nat /\ Place(d) >= 1 /\ Place(d) <= Len(prog.kernel) + 1
        BY AsyncFacts, <1>4
      <4>2. DotsBefore(k, Place(d)) = k * DotsPerTurn + Cardinality(KernelDots(Place(d)))
            /\ k * DotsPerTurn \in Nat /\ Cardinality(KernelDots(Place(d))) \in Nat
        BY <4>1, DotsInKernel DEF SoundProgram, SoundSchedule
      <4> QED
        BY <4>2
    <3>4. DotsLeft(i) \in Nat
      BY DEF DotsLeft, SoundProgram, SoundSchedule, DotsRetire
    <3>5. Issued \in Nat /\ Len(dots) \in Nat /\ Retired = Issued - Len(dots)
      BY DotsTyped
    <3> QED
      BY <1>1, <2>5, <3>1, <3>2, <3>3, <3>4, <3>5
  <2> QED
    BY <2>1, <2>2, <2>3, <2>4, <2>5 DEF Before
<1> QED
  BY <1>2, <1>3, <1>4, DotsInvAfter

\* What an instruction that is no wait for dots reaches.
LEMMA GiveReaches ==
  ASSUME SoundProgram, PosInv, part # "prologue", NEW v, Give(v), NEW kinds, At(kinds), "dotwait" \notin kinds,
         NEW t \in Nat, NEW i \in Steps, Kind(prog.kernel[i]) = "dotwait", Reached(t, i)'
  PROVE  Reached(t, i)
<1>1. /\ part' = part /\ pos'.i = pos.i + 1 /\ pos'.turn = pos.turn /\ UNCHANGED input
  BY PosAfterGive
<1>2. NowTurn' = pos.turn /\ NowPlace' = pos.i + 1
  BY <1>1, NowAfter
<1>3. NowTurn = pos.turn /\ NowPlace = pos.i /\ pos.i \in Nat /\ pos.turn \in Nat
  BY NowInKernel DEF SoundProgram, SoundSchedule
<1>4. Kind(prog.kernel[pos.i]) # "dotwait"
  BY InstrIsNow DEF SoundProgram, SoundSchedule
<1>5. Before(t, i, pos.turn, pos.i + 1)
  BY <1>2 DEF Reached, Before
<1>6. i \in Int /\ i # pos.i
  BY <1>4 DEF Steps
<1> QED
  BY <1>3, <1>5, <1>6 DEF Reached, Before

LEMMA DotsGive ==
  ASSUME SoundProgram, PosInv, MemShape, DotsInv, NEW v, Give(v), NEW kinds, At(kinds), "dotwait" \notin kinds,
         UNCHANGED dots, ~IsAsync(Instr.op)
  PROVE  DotsInv'
<1>1. /\ part' = part /\ UNCHANGED input /\ PosInv'
  BY PosAfterGive
<1>2. CASE part = "prologue"
  BY <1>1, <1>2 DEF DotsInv
<1>3. CASE part # "prologue"
  <2>1. Issued \in Nat
    BY <1>3, DotsTyped
  <2>2. Issued' = Issued
    BY <1>3, <2>1, GiveCommits DEF SoundProgram, SoundSchedule
  <2>3. Advances(Instr.op, Instr.it)
    BY GiveAdvances DEF SoundProgram, SoundSchedule
  <2>4. \A u \in Ops(body), m \in Int : Ran(u, m) => Ran(u, m)'
    BY <2>3 DEF Advances
  <2>5. \A t \in Nat, i \in Steps : Kind(prog.kernel[i]) = "dotwait" /\ Reached(t, i)' => Reached(t, i)
    BY <1>3, GiveReaches
  <2> QED
    BY <1>1, <1>3, <2>2, <2>4, <2>5, DotsQuiet
<1> QED
  BY <1>2, <1>3

LEMMA AsyncIsLate ==
  ASSUME SoundProgram, PosInv, NEW kinds, At(kinds), "dotwait" \notin kinds, IsAsync(Instr.op)
  PROVE  /\ part = "kernel" /\ Instr.it = pos.turn /\ pos.turn < trip /\ Place(Instr.op) = pos.i /\ pos.i \in Steps
         /\ Instr.op = prog.kernel[pos.i]
<1>1. PICK o, k : o = Instr.op /\ k = Instr.it
  OBVIOUS
<1>2. /\ o \in Ops(body) /\ k \in Nat /\ Turn(o, k) = NowTurn /\ Place(o) = NowPlace
      /\ (part = "prologue" => IsEarly)
      /\ part # "prologue" => part = "kernel" /\ pos.turn < trip /\ o = prog.kernel[pos.i] /\ pos.i \in Steps
  BY <1>1, InstrIsNow DEF SoundProgram, SoundSchedule
<1>3. Turn(o, k) = k
  <2>1. k \in Int /\ IsAsync(o)
    BY <1>1, <1>2
  <2> QED
    BY <1>2, <2>1, AsyncFacts
<1>4. part # "prologue"
  BY <1>2, <1>3, NowTyped DEF SoundProgram, SoundSchedule
<1>5. NowTurn = pos.turn /\ NowPlace = pos.i
  BY <1>4, NowInKernel DEF SoundProgram, SoundSchedule
<1> QED
  BY <1>1, <1>2, <1>3, <1>4, <1>5

LEMMA DotsDot ==
  ASSUME SoundProgram, PosInv, MemShape, DotsInv, NEW v, Give(v), At({"dot"}), IsAsync(Instr.op),
         NEW e, IsDot(e, Instr.op, Instr.it), dots' = Append(dots, e)
  PROVE  DotsInv'
<1>1. /\ part' = part /\ UNCHANGED input /\ PosInv'
  BY PosAfterGive
<1>2. PICK o, k, l, n, R : o = Instr.op /\ k = Instr.it /\ l = Len(dots) /\ n = Issued /\ R = Retired
  OBVIOUS
<1>3. /\ part = "kernel" /\ k = pos.turn /\ Place(o) = pos.i /\ pos.i \in Steps
  BY <1>2, AsyncIsLate
<1>4. part # "prologue" /\ o \in Ops(body) /\ k \in Nat
  BY <1>2, <1>3, InstrIsNow DEF SoundProgram, SoundSchedule
<1>5. /\ Len(dots') = l + 1 /\ l \in Nat
      /\ dots' = [i \in 1..(l + 1) |-> IF i = l + 1 THEN e ELSE dots[i]]
  <2>1. Len(dots) \in Nat /\ dots = [i \in 1..Len(dots) |-> dots[i]]
    BY DEF MemShape
  <2>2. /\ Len(Append(dots, e)) = Len(dots) + 1
        /\ Append(dots, e) = [i \in 1..(Len(dots) + 1) |-> IF i = Len(dots) + 1 THEN e ELSE dots[i]]
    BY <2>1, AppendIsLonger
  <2>3. /\ Len(dots') = Len(dots) + 1
        /\ dots' = [i \in 1..(Len(dots) + 1) |-> IF i = Len(dots) + 1 THEN e ELSE dots[i]]
    BY <2>2
  <2> QED
    BY <1>2, <2>1, <2>3
<1>6. n \in Nat /\ R \in Int /\ R >= 0 /\ R = n - l
  BY <1>2, <1>4, DotsTyped
<1>7. Issued' = n + 1
  BY <1>2, <1>4, GiveCommits DEF SoundProgram, SoundSchedule
<1>8. Retired' = R /\ R >= 0
  <2>1. PICK q : q = n + 1
    OBVIOUS
  <2>2. Retired' = q - Len(dots')
    BY <1>1, <1>7, <2>1, RetiredAfter
  <2> QED
    BY <1>5, <1>6, <2>1, <2>2
<1>9. Advances(o, k)
  BY <1>2, GiveAdvances DEF SoundProgram, SoundSchedule
<1>10. n = DotsBefore(k, Place(o))
  <2>1. NowTurn = k /\ NowPlace = Place(o)
    BY <1>3, <1>4, NowInKernel DEF SoundProgram, SoundSchedule
  <2> QED
    BY <1>2, <2>1 DEF Issued
<1>11. ASSUME NEW i \in 1..Len(dots')
       PROVE  \E d \in Ops(body), m \in Nat : IsDot(dots'[i], d, m) /\ Ran(d, m)' /\ 1 + DotsBefore(m, Place(d)) = R + i
  <2>1. CASE i = l + 1
    <3>1. dots'[i] = e
      BY <1>5, <2>1
    <3>2. Ran(o, k)'
      BY <1>4, <1>9 DEF Advances
    <3>3. 1 + DotsBefore(k, Place(o)) = R + i
      BY <1>5, <1>6, <1>10, <2>1
    <3> QED
      BY <1>2, <1>4, <3>1, <3>2, <3>3
  <2>2. CASE i # l + 1
    <3>1. i \in 1..Len(dots) /\ dots'[i] = dots[i]
      BY <1>2, <1>5, <2>2
    <3>2. PICK d \in Ops(body), m \in Nat : IsDot(dots[i], d, m) /\ Ran(d, m) /\ 1 + DotsBefore(m, Place(d)) = Retired + i
      BY <1>4, <3>1, DotsTyped
    <3>3. Ran(d, m)'
      BY <1>9, <3>2 DEF Advances
    <3> QED
      BY <1>2, <3>1, <3>2, <3>3
  <2> QED
    BY <2>1, <2>2
<1>12. ASSUME NEW d \in Ops(body), NEW m \in Nat, NEW t \in Nat, NEW i \in Steps,
              IsAsync(d), RetiresBy(d, m, t, i), Reached(t, i)'
       PROVE  1 + DotsBefore(m, Place(d)) <= R
  <2>1. Kind(prog.kernel[i]) = "dotwait"
    BY <1>12 DEF RetiresBy
  <2>2. Reached(t, i)
    BY <1>4, <1>12, <2>1, GiveReaches
  <2> QED
    BY <1>2, <1>4, <1>12, <2>2, DotsTyped
<1>13. part' # "prologue"
  BY <1>1, <1>3
<1> QED
  BY <1>1, <1>8, <1>11, <1>12, <1>13, DotsInvAfter

-----------------------------------------------------------------------------
(***************************************************************************)
(* The value that an operation computes is right.                          *)
(***************************************************************************)
\* The refs an operation computes its value from: those inside an if only when it is taken,
\* and then no dot is in flight if it begins with a wait.
Takes(refs) ==
  /\ refs \subseteq AllRefs(body, Instr.op)
  /\ Kind(Instr.op) = "idx" => refs \subseteq Refs(body, Instr.op)
  /\ Kind(Instr.op) = "if" /\ Instr.op \in prog.syncs /\ dots # <<>> => refs \subseteq Refs(body, Instr.op)

LEMMA RunningNow ==
  ASSUME SoundProgram, PosInv, NEW kinds, At(kinds), "dotwait" \notin kinds
  PROVE  /\ Running(Instr.op, Instr.it) /\ Instr.op \in Ops(body) /\ Instr.it \in Nat /\ Kind(Instr.op) \in kinds
         /\ Instr.it < trip => Instr.on
BY InstrIsNow DEF SoundProgram, SoundSchedule, Running

LEMMA DotGood ==
  ASSUME SoundProgram, PosInv, MemShape, DotsInv, NEW kinds, At(kinds), "dotwait" \notin kinds,
         NEW refs, Takes(refs), NEW r \in refs,
         NEW i \in DOMAIN dots, r.def \in prog.flow[dots[i].op], dots[i].it = Instr.it - r.dist
  PROVE  HandsOn(Instr.op, r) \/ (IsHopper(body, Instr.op) /\ r = Last(body.args[Instr.op]))
<1>1. PICK o, n : o = Instr.op /\ n = Instr.it
  OBVIOUS
<1>2. Running(o, n) /\ o \in Ops(body) /\ n \in Nat /\ r \in AllRefs(body, o)
  BY <1>1, RunningNow DEF Takes
<1>3. part # "prologue"
  BY DotInFlight
<1>4. PICK d \in Ops(body), k \in Nat :
              /\ dots[i].op = d /\ dots[i].it = k
              /\ IsAsync(d) /\ Ran(d, k) /\ k < trip
              /\ 1 + DotsBefore(k, Place(d)) = Retired + i
              /\ ~(1 + DotsBefore(k, Place(d)) <= Retired)
  BY DotInFlight
<1>5. dots # <<>>
  OBVIOUS
<1>6. r.def \in prog.flow[d] /\ k = n - r.dist
  BY <1>1, <1>4
<1>7. (r.dist = 0 \/ r.dist = 1) /\ r.dist \in Nat
  BY <1>2, ReferenceFacts DEF SoundProgram, SoundSchedule
<1>8. \/ IsHopper(body, o) /\ r = Last(body.args[o])
      \/ Kind(o) = "if" /\ o \in prog.syncs /\ r \notin Refs(body, o)
      \/ HandsOn(o, r)
      \/ \E t \in 0..(r.dist + prog.max), j \in Steps :
            RetiresBy(d, 0, t, j) /\ Before(t, j, Turn(o, r.dist), Place(o))
  BY <1>2, <1>4, <1>6, RetiresInTime
<1>9. ~(Kind(o) = "if" /\ o \in prog.syncs /\ r \notin Refs(body, o))
  BY <1>1, <1>5 DEF Takes
<1>10. ~(\E t \in 0..(r.dist + prog.max), j \in Steps :
            RetiresBy(d, 0, t, j) /\ Before(t, j, Turn(o, r.dist), Place(o)))
  <2>1. PICK later : later = r.dist
    OBVIOUS
  <2>2. later \in Nat /\ n = k + later
    BY <1>2, <1>4, <1>6, <1>7, <2>1
  <2> SUFFICES ASSUME \E t \in 0..(later + prog.max), j \in Steps :
                        RetiresBy(d, 0, t, j) /\ Before(t, j, Turn(o, later), Place(o))
               PROVE FALSE
    BY <2>1
  <2>3. 1 + DotsBefore(k, Place(d)) <= Retired
    BY <1>2, <1>3, <1>4, <2>2, RetiredBefore
  <2> QED
    BY <1>4, <2>3
<1> QED
  BY <1>1, <1>8, <1>9, <1>10

LEMMA ValueRight ==
  ASSUME SoundProgram, PosInv, MemShape, FlowInv, GroupInv, SlotInv, DotsInv,
         NEW kinds, At(kinds), "dotwait" \notin kinds, NEW refs, Takes(refs)
  PROVE  Right(Instr.op, Instr.it, Value(Instr, refs))
<1>1. PICK o, n : o = Instr.op /\ n = Instr.it
  OBVIOUS
<1>2. Running(o, n) /\ o \in Ops(body) /\ n \in Nat
  BY <1>1, RunningNow
<1>3. ASSUME Kind(o) = "idx" \/ n < trip, NEW r \in refs PROVE Good(Instr, r)
  <2>1. r \in AllRefs(body, o)
    BY <1>1 DEF Takes
  <2>2. Kind(r.def) = "idx" \/ n < trip
    <3>1. CASE Kind(o) = "idx"
      <4>1. r \in Refs(body, o)
        BY <1>1, <3>1 DEF Takes
      <4> QED
        BY <1>2, <3>1, <4>1 DEF SoundProgram, SoundSchedule, IndicesStandAlone
    <3> QED
      BY <1>3, <3>1
  <2>3. Operand(Instr, r) = Instr.it - r.dist
    BY <1>1, <2>1, <2>2, OperandRight DEF SoundProgram, SoundSchedule, FlowInv
  <2>4. ASSUME Kind(r.def) = "view"
        PROVE  /\ slot[Buffer(Tag(r.def), Instr.it)] # None /\ slot[Buffer(Tag(r.def), Instr.it)].it = Instr.it
               /\ slot[Buffer(Tag(r.def), Instr.it)].landed
    <3>1. n < trip
      BY <2>2, <2>4
    <3> QED
      BY <1>1, <1>2, <2>1, <2>4, <3>1, ViewOfRunning
  <2>5. ASSUME \E i \in DOMAIN dots : dots[i].it = Instr.it - r.dist /\ r.def \in prog.flow[dots[i].op]
        PROVE  HandsOn(Instr.op, r) \/ (IsHopper(body, Instr.op) /\ r = Last(body.args[Instr.op]))
    BY <1>3, <2>5, DotGood
  <2> QED
    BY <2>3, <2>4, <2>5 DEF Good
<1> QED
  BY <1>1, <1>3 DEF Right, Value

\* The indices of the ring are right even past the end of the loop.
LEMMA IndexRight ==
  ASSUME SoundProgram, PosInv, FlowInv, NEW kinds, At(kinds), "dotwait" \notin kinds,
         NEW r \in Refs(body, Instr.op), Kind(r.def) = "idx", r.dist = 0
  PROVE  Operand(Instr, r) = Instr.it
<1>1. Instr.it \in Nat /\ r \in AllRefs(body, Instr.op)
  BY RunningNow DEF AllRefs
<1>2. Operand(Instr, r) = Instr.it - r.dist
  BY <1>1, OperandRight DEF SoundProgram, SoundSchedule, FlowInv
<1> QED
  BY <1>1, <1>2

LEMMA RefsAreTaken == Takes(Refs(body, Instr.op))
BY DEF Takes, AllRefs

-----------------------------------------------------------------------------
(***************************************************************************)
(* The effects: each is done once an iteration.                            *)
(***************************************************************************)
\* What each effect has done.
LEMMA EffectFacts ==
  ASSUME SoundProgram, NEW e \in Effects(source)
  PROVE  /\ e \in Ops(body) /\ prog.stage[e] = prog.max /\ prog.max \in Nat
         /\ Place(e) \in Nat /\ 1 <= Place(e) /\ Place(e) <= Len(prog.kernel) /\ prog.kernel[Place(e)] = e
         /\ Len(prog.kernel) \in Nat
         /\ \A k \in Int : Turn(e, k) = k
<1>1. e \in Ops(body) /\ prog.stage[e] = prog.max
  BY DEF SoundProgram, SoundSchedule, EffectsComeLast
<1> QED
  BY <1>1, Typed DEF SoundProgram, SoundSchedule, Turn

LEMMA DidAfter ==
  ASSUME UNCHANGED input, DidInv, DOMAIN did' = DOMAIN did, NEW t, NEW i,
         \A e \in Effects(source) : did'[e] = t + (IF Place(e) < i THEN 1 ELSE 0),
         part' = "prologue" => \A e \in Effects(source) : did'[e] = 0,
         part' # "prologue" => pos'.turn = t /\ pos'.i = i
  PROVE  DidInv'
<1>1. source' = source /\ prog' = prog
  BY InputSame
<1>2. Effects(source)' = Effects(source)
  BY <1>1 DEF Effects
<1>3. \A o : Place(o)' = Place(o)
  BY ProgramStays
<1> QED
  BY <1>1, <1>2, <1>3 DEF DidInv

\* An effect runs in the kernel only, in the turn of its iteration.
LEMMA EffectIsNow ==
  ASSUME SoundProgram, PosInv, NEW kinds, At(kinds), "dotwait" \notin kinds, Instr.op \in Effects(source)
  PROVE  /\ part = "kernel" /\ Instr.it = pos.turn /\ pos.turn < trip /\ Place(Instr.op) = pos.i /\ Instr.on
         /\ pos.turn \in Nat
<1>1. PICK o, k : o = Instr.op /\ k = Instr.it
  OBVIOUS
<1>2. /\ o \in Ops(body) /\ k \in Nat /\ Turn(o, k) = NowTurn /\ Place(o) = NowPlace
      /\ (part = "prologue" => IsEarly) /\ (k < trip => Instr.on)
      /\ part # "prologue" => part = "kernel" /\ pos.turn < trip
  BY <1>1, InstrIsNow DEF SoundProgram, SoundSchedule
<1>3. Turn(o, k) = k
  BY <1>1, <1>2, EffectFacts
<1>4. part # "prologue"
  BY <1>2, <1>3, NowTyped DEF SoundProgram, SoundSchedule
<1>5. NowTurn = pos.turn /\ NowPlace = pos.i /\ pos.turn \in Nat
  BY <1>4, NowInKernel DEF SoundProgram, SoundSchedule
<1> QED
  BY <1>1, <1>2, <1>3, <1>4, <1>5

\* An operation is at one place only.
LEMMA PlaceOfOther ==
  ASSUME SoundProgram, PosInv, part # "prologue", NEW kinds, At(kinds), "dotwait" \notin kinds,
         NEW e \in Effects(source), e # Instr.op
  PROVE  Place(e) # pos.i
<1>1. Instr.op = prog.kernel[pos.i]
  BY InstrIsNow DEF SoundProgram, SoundSchedule
<1> QED
  BY <1>1, EffectFacts

LEMMA DidGive ==
  ASSUME SoundProgram, PosInv, DidInv, NEW v, Give(v), NEW kinds, At(kinds), "dotwait" \notin kinds,
         Right(Instr.op, Instr.it, v)
  PROVE  /\ DidInv'
         /\ Instr.op \notin Effects(source) => did' = did
         /\ Instr.op \in Effects(source) => did' = [did EXCEPT ![Instr.op] = @ + 1] /\ did[Instr.op] = pos.turn
<1>1. /\ part' = part /\ pos'.i = pos.i + 1 /\ pos'.turn = pos.turn /\ UNCHANGED input /\ pos.i \in Nat
  BY PosAfterGive
<1>2. DOMAIN did = Effects(source)
  BY DEF DidInv
<1>3. PICK o : o = Instr.op
  OBVIOUS
<1>4. ASSUME o \in Effects(source)
      PROVE  did' = [did EXCEPT ![o] = @ + 1] /\ did[o] = pos.turn /\ part = "kernel" /\ Place(o) = pos.i
  <2>1. /\ part = "kernel" /\ Instr.it = pos.turn /\ pos.turn < trip /\ Place(o) = pos.i /\ Instr.on
        /\ pos.turn \in Nat
    BY <1>3, <1>4, EffectIsNow
  <2>2. v = Instr.it
    BY <2>1 DEF Right
  <2>3. did[o] = pos.turn + 0
    BY <1>1, <1>2, <1>4, <2>1 DEF DidInv
  <2>4. did' = [did EXCEPT ![o] = IF v = Instr.it /\ did[o] = Instr.it THEN did[o] + 1 ELSE Wrong]
    BY <1>2, <1>3, <1>4, <2>1 DEF Give
  <2>5. did[o] = pos.turn
    BY <2>1, <2>3
  <2> QED
    BY <2>1, <2>2, <2>4, <2>5
<1>5. ASSUME o \notin Effects(source) PROVE did' = did
  BY <1>2, <1>3, <1>5 DEF Give
<1>6. DidInv'
  <2>1. CASE part = "prologue"
    <3>1. o \notin Effects(source)
      BY <1>4, <2>1
    <3>2. source' = source
      BY <1>1, InputSame
    <3>3. Effects(source)' = Effects(source)
      BY <3>2 DEF Effects
    <3> QED
      BY <1>1, <1>5, <2>1, <3>1, <3>3 DEF DidInv
  <2>2. CASE part # "prologue"
    <3>1. pos.turn \in Nat
      BY NowInKernel, <2>2 DEF SoundProgram, SoundSchedule
    <3>2. DOMAIN did' = DOMAIN did
      BY <1>4, <1>5
    <3>3. ASSUME NEW e \in Effects(source)
          PROVE  did'[e] = pos.turn + (IF Place(e) < pos.i + 1 THEN 1 ELSE 0)
      <4>1. did[e] = pos.turn + (IF Place(e) < pos.i THEN 1 ELSE 0)
        BY <1>2, <2>2 DEF DidInv
      <4>2. Place(e) \in Nat
        BY EffectFacts
      <4>3. CASE e = o
        <5>1. did'[e] = pos.turn + 1 /\ Place(e) = pos.i
          BY <1>2, <1>4, <4>3
        <5> QED
          BY <1>1, <5>1
      <4>4. CASE e # o
        <5>1. Place(e) # pos.i
          BY <1>3, <2>2, <4>4, PlaceOfOther
        <5>2. did'[e] = did[e]
          BY <1>2, <1>4, <1>5, <4>4
        <5> QED
          BY <1>1, <4>1, <4>2, <5>1, <5>2
      <4> QED
        BY <4>3, <4>4
    <3> QED
      BY <1>1, <1>2, <2>2, <3>2, <3>3, DidAfter
  <2> QED
    BY <2>1, <2>2
<1> QED
  BY <1>3, <1>4, <1>5, <1>6

LEMMA FlowGive ==
  ASSUME SoundProgram, PosInv, FlowInv, NEW v, Give(v), NEW kinds, At(kinds), "dotwait" \notin kinds,
         Right(Instr.op, Instr.it, v)
  PROVE  FlowInv'
<1>1. CASE part = "prologue"
  BY <1>1, GiveFlowInPrologue DEF SoundProgram, SoundSchedule
<1>2. CASE part # "prologue"
  BY <1>2, GiveFlowInKernel DEF SoundProgram, SoundSchedule
<1> QED
  BY <1>1, <1>2

LEMMA MemShapeAfter ==
  ASSUME UNCHANGED input, MemShape,
         slot' = [x \in DOMAIN slot |-> slot'[x]],
         copies' = [open |-> copies'.open, groups |-> copies'.groups],
         Len(copies'.groups) \in Nat, copies'.groups = [i \in 1..Len(copies'.groups) |-> copies'.groups[i]],
         tma' = [flying |-> tma'.flying, barrier |-> tma'.barrier],
         tma'.barrier = [x \in DOMAIN tma.barrier |-> [turns |-> tma'.barrier[x].turns, owed |-> tma'.barrier[x].owed]],
         Len(dots') \in Nat, dots' = [i \in 1..Len(dots') |-> dots'[i]]
  PROVE  MemShape'
<1>1. prog' = prog
  BY InputSame
<1>2. /\ DOMAIN slot = Buffers({Tag(l) : l \in ToSet(prog.loads)})
      /\ DOMAIN tma.barrier = Buffers({Tag(g[1]) : g \in ToSet(prog.groups)})
  BY DEF MemShape
<1>3. /\ Buffers({Tag(l) : l \in ToSet(prog.loads)})' = Buffers({Tag(l) : l \in ToSet(prog.loads)})
      /\ Buffers({Tag(g[1]) : g \in ToSet(prog.groups)})' = Buffers({Tag(g[1]) : g \in ToSet(prog.groups)})
  BY <1>1 DEF Buffers
<1> QED
  BY <1>2, <1>3 DEF MemShape

-----------------------------------------------------------------------------
(***************************************************************************)
(* Every step keeps all of it: first those of the operations.              *)
(***************************************************************************)
FlightInv == GroupInv /\ SlotInv /\ FlyInv /\ BarrierInv
LoopInv == PosInv /\ FlowInv /\ MemShape /\ FlightInv /\ DotsInv /\ DidInv
MemoryKinds == {"copy", "commit", "wait", "expect", "tmacopy", "twait"}

LEMMA GiveStep ==
  ASSUME SoundProgram, LoopInv, NEW v, Give(v), NEW kinds, At(kinds), "dotwait" \notin kinds,
         NEW refs, Takes(refs), v = Value(Instr, refs)
  PROVE  /\ PosInv' /\ FlowInv' /\ DidInv' /\ UNCHANGED input /\ part' = part
         /\ Running(Instr.op, Instr.it) /\ Advances(Instr.op, Instr.it) /\ Right(Instr.op, Instr.it, v)
         /\ Instr.op \in Ops(body) /\ Instr.it \in Nat /\ Kind(Instr.op) \in kinds
         /\ Instr.it < trip => Instr.on
         /\ Committed' = Committed + (IF IsCommit(Instr.op) THEN 1 ELSE 0) /\ Committed \in Nat
<1>1. Right(Instr.op, Instr.it, v)
  BY ValueRight DEF LoopInv, FlightInv
<1>2. PosInv' /\ UNCHANGED input /\ part' = part
  BY PosAfterGive DEF LoopInv
<1>3. FlowInv' /\ DidInv'
  BY <1>1, FlowGive, DidGive DEF LoopInv
<1>4. /\ Running(Instr.op, Instr.it) /\ Advances(Instr.op, Instr.it)
      /\ Instr.op \in Ops(body) /\ Instr.it \in Nat /\ Kind(Instr.op) \in kinds
      /\ Instr.it < trip => Instr.on
  BY GiveAdvances, RunningNow DEF LoopInv, SoundProgram, SoundSchedule
<1>5. Committed' = Committed + (IF IsCommit(Instr.op) THEN 1 ELSE 0) /\ Committed \in Nat
  BY GiveCommits, CommittedTyped DEF LoopInv, SoundProgram, SoundSchedule
<1> QED
  BY <1>1, <1>2, <1>3, <1>4, <1>5

LEMMA ShapeWithin ==
  ASSUME MemShape
  PROVE  /\ slot = [x \in DOMAIN slot |-> slot[x]]
         /\ copies = [open |-> copies.open, groups |-> copies.groups]
         /\ Len(copies.groups) \in Nat /\ copies.groups = [i \in 1..Len(copies.groups) |-> copies.groups[i]]
         /\ tma = [flying |-> tma.flying, barrier |-> tma.barrier]
         /\ tma.barrier = [x \in DOMAIN tma.barrier |-> [turns |-> tma.barrier[x].turns, owed |-> tma.barrier[x].owed]]
         /\ Len(dots) \in Nat /\ dots = [i \in 1..Len(dots) |-> dots[i]]
<1>1. /\ DOMAIN slot = Buffers({Tag(l) : l \in ToSet(prog.loads)})
      /\ DOMAIN tma.barrier = Buffers({Tag(g[1]) : g \in ToSet(prog.groups)})
  BY DEF MemShape
<1> QED
  BY <1>1 DEF MemShape

\* An instruction that is none of the memory's.
LEMMA MemoryQuiet ==
  ASSUME SoundProgram, PosInv, MemShape, FlightInv, UNCHANGED input, UNCHANGED <<slot, copies, tma>>, Committed' = Committed,
         \A u \in Ops(body), m \in Int : Kind(u) \in MemoryKinds => (Ran(u, m)' <=> Ran(u, m))
  PROVE  FlightInv' /\ (UNCHANGED dots => MemShape')
<1>1. GroupInv' /\ Landings' = Landings
  BY GroupQuiet DEF FlightInv, MemoryKinds
<1>2. CopySlots'
  BY <1>1, CopySlotsQuiet DEF FlightInv, SlotInv, MemoryKinds
<1>3. TmaSlots'
  BY TmaSlotsQuiet DEF FlightInv, SlotInv, MemoryKinds
<1>4. FlyInv'
  BY FlyQuiet DEF FlightInv, MemoryKinds
<1>5. BarrierInv'
  BY BarrierQuiet DEF FlightInv, MemoryKinds
<1>6. UNCHANGED dots => MemShape'
  BY ShapeWithin, MemShapeAfter
<1> QED
  BY <1>1, <1>2, <1>3, <1>4, <1>5, <1>6 DEF FlightInv, SlotInv

LEMMA ComputeKeeps ==
  ASSUME SoundProgram, LoopInv, NEW v, Give(v), NEW kinds, At(kinds), "dotwait" \notin kinds, "dot" \notin kinds,
         kinds \cap MemoryKinds = {}, NEW refs, Takes(refs), v = Value(Instr, refs), UNCHANGED memory
  PROVE  LoopInv'
<1>1. /\ PosInv' /\ FlowInv' /\ DidInv' /\ UNCHANGED input
      /\ Advances(Instr.op, Instr.it) /\ Kind(Instr.op) \in kinds
      /\ Committed' = Committed + (IF IsCommit(Instr.op) THEN 1 ELSE 0) /\ Committed \in Nat
  BY GiveStep
<1>2. Kind(Instr.op) \notin MemoryKinds /\ ~IsCommit(Instr.op) /\ ~IsAsync(Instr.op)
  BY <1>1 DEF MemoryKinds, IsCommit, IsAsync, IsHopper
<1>3. Committed' = Committed
  BY <1>1, <1>2
<1>4. \A u \in Ops(body), m \in Int : Kind(u) \in MemoryKinds => (Ran(u, m)' <=> Ran(u, m))
  BY <1>1, <1>2 DEF Advances
<1>5. UNCHANGED <<slot, copies, tma>> /\ UNCHANGED dots
  BY DEF memory
<1>6. FlightInv' /\ MemShape'
  BY <1>1, <1>3, <1>4, <1>5, MemoryQuiet DEF LoopInv
<1>7. DotsInv'
  BY <1>2, <1>5, DotsGive DEF LoopInv
<1> QED
  BY <1>1, <1>6, <1>7 DEF LoopInv

LEMMA ComputeStep ==
  ASSUME SoundProgram, LoopInv, Compute
  PROVE  LoopInv'
<1>1. PICK kinds : kinds = {"arith", "idx", "view", "lload", "alloc", "load", "tma", "store"}
  OBVIOUS
<1>2. /\ At(kinds) /\ Give(Value(Instr, Refs(body, Instr.op))) /\ UNCHANGED memory
  BY <1>1 DEF Compute
<1>3. "dotwait" \notin kinds /\ "dot" \notin kinds /\ kinds \cap MemoryKinds = {}
  BY <1>1 DEF MemoryKinds
<1> QED
  BY <1>2, <1>3, RefsAreTaken, ComputeKeeps

LEMMA IfStep ==
  ASSUME SoundProgram, LoopInv, If
  PROVE  LoopInv'
<1>1. PICK taken \in {TRUE, FALSE} :
        /\ taken /\ Instr.op \in prog.syncs => dots = <<>>
        /\ Give(Value(Instr, Refs(body, Instr.op) \cup (IF taken /\ Instr.on THEN body.inner[Instr.op] ELSE {})))
  BY DEF If
<1>2. PICK refs : refs = Refs(body, Instr.op) \cup (IF taken /\ Instr.on THEN body.inner[Instr.op] ELSE {})
  OBVIOUS
<1>3. PICK kinds : kinds = {"if"}
  OBVIOUS
<1>4. At(kinds) /\ Give(Value(Instr, refs)) /\ UNCHANGED memory
  BY <1>1, <1>2, <1>3 DEF If
<1>5. "dotwait" \notin kinds /\ "dot" \notin kinds /\ kinds \cap MemoryKinds = {}
  BY <1>3 DEF MemoryKinds
<1>6. Kind(Instr.op) = "if"
  BY <1>3, <1>4 DEF At
<1>7. Takes(refs)
  <2>1. refs \subseteq AllRefs(body, Instr.op)
    BY <1>2 DEF AllRefs
  <2>2. ASSUME Instr.op \in prog.syncs, dots # <<>> PROVE refs \subseteq Refs(body, Instr.op)
    BY <1>1, <1>2, <2>2
  <2> QED
    BY <1>6, <2>1, <2>2 DEF Takes
<1> QED
  BY <1>4, <1>5, <1>7, ComputeKeeps
LEMMA DotStep ==
  ASSUME SoundProgram, LoopInv, Dot
  PROVE  LoopInv'
<1>1. PICK v, e : v = Value(Instr, Refs(body, Instr.op))
              /\ e = [op |-> Instr.op, it |-> Instr.it,
                      reads |-> {Buffer(Tag(r.def), Instr.it) : r \in {q \in Refs(body, Instr.op) : Kind(q.def) = "view"}}]
  OBVIOUS
<1>2. /\ At({"dot"}) /\ Give(v) /\ UNCHANGED <<slot, copies, tma>>
      /\ dots' = IF IsAsync(Instr.op) THEN Append(dots, e) ELSE dots
  BY <1>1 DEF Dot, IsAsync
<1>3. /\ PosInv' /\ FlowInv' /\ DidInv' /\ UNCHANGED input
      /\ Advances(Instr.op, Instr.it) /\ Kind(Instr.op) \in {"dot"}
      /\ Committed' = Committed + (IF IsCommit(Instr.op) THEN 1 ELSE 0) /\ Committed \in Nat
  BY <1>1, <1>2, RefsAreTaken, GiveStep
<1>4. Committed' = Committed /\ Kind(Instr.op) \notin MemoryKinds
  BY <1>3 DEF IsCommit, MemoryKinds
<1>5. \A u \in Ops(body), m \in Int : Kind(u) \in MemoryKinds => (Ran(u, m)' <=> Ran(u, m))
  BY <1>3, <1>4 DEF Advances
<1>6. FlightInv'
  BY <1>2, <1>3, <1>4, <1>5, MemoryQuiet DEF LoopInv
<1>7. DotsInv' /\ MemShape'
  <2>1. CASE IsAsync(Instr.op)
    <3>1. dots' = Append(dots, e)
      BY <1>2, <2>1
    <3>2. Instr.it < trip
      BY <1>2, <2>1, AsyncIsLate DEF LoopInv
    <3>3. IsDot(e, Instr.op, Instr.it)
      BY <1>1, <2>1, <3>2 DEF IsDot
    <3>4. DotsInv'
      BY <1>2, <2>1, <3>1, <3>3, DotsDot DEF LoopInv
    <3>5. Len(dots) \in Nat /\ dots = [i \in 1..Len(dots) |-> dots[i]]
      BY ShapeWithin DEF LoopInv
    <3>6. PICK s : s = Append(dots, e)
      OBVIOUS
    <3>7. Len(s) = Len(dots) + 1 /\ s = [i \in 1..(Len(dots) + 1) |-> IF i = Len(dots) + 1 THEN e ELSE dots[i]]
      BY <3>5, <3>6, AppendIsLonger
    <3>8. Len(s) \in Nat /\ s = [i \in 1..Len(s) |-> s[i]]
      BY <3>5, <3>7
    <3>9. dots' = s
      BY <3>1, <3>6
    <3>10. Len(dots') \in Nat /\ dots' = [i \in 1..Len(dots') |-> dots'[i]]
      BY <3>8, <3>9
    <3>11. MemShape'
      BY <1>2, <1>3, <3>10, ShapeWithin, MemShapeAfter DEF LoopInv
    <3> QED
      BY <3>4, <3>11
  <2>2. CASE ~IsAsync(Instr.op)
    <3>1. UNCHANGED dots
      BY <1>2, <2>2
    <3>2. DotsInv'
      BY <1>2, <2>2, <3>1, DotsGive DEF LoopInv
    <3>3. MemShape'
      BY <1>2, <1>3, <1>4, <1>5, <3>1, MemoryQuiet DEF LoopInv
    <3> QED
      BY <3>2, <3>3
  <2> QED
    BY <2>1, <2>2
<1> QED
  BY <1>3, <1>6, <1>7 DEF LoopInv

\* What every instruction of the memory keeps.
LEMMA MemoryGive ==
  ASSUME SoundProgram, LoopInv, NEW kind \in MemoryKinds, NEW v, Give(v), At({kind}), v = Value(Instr, Refs(body, Instr.op)),
         UNCHANGED dots
  PROVE  /\ PosInv' /\ FlowInv' /\ DidInv' /\ DotsInv' /\ UNCHANGED input
         /\ Running(Instr.op, Instr.it) /\ Advances(Instr.op, Instr.it) /\ Right(Instr.op, Instr.it, v)
         /\ Instr.op \in Ops(body) /\ Instr.it \in Nat /\ Kind(Instr.op) = kind
         /\ Instr.it < trip => Instr.on
         /\ kind # "commit" => Committed' = Committed
         /\ kind = "commit" => Committed' = Committed + 1
<1>1. "dotwait" \notin {kind}
  BY DEF MemoryKinds
<1>2. /\ PosInv' /\ FlowInv' /\ DidInv' /\ UNCHANGED input
      /\ Running(Instr.op, Instr.it) /\ Advances(Instr.op, Instr.it) /\ Right(Instr.op, Instr.it, v)
      /\ Instr.op \in Ops(body) /\ Instr.it \in Nat /\ Kind(Instr.op) \in {kind}
      /\ Instr.it < trip => Instr.on
      /\ Committed' = Committed + (IF IsCommit(Instr.op) THEN 1 ELSE 0) /\ Committed \in Nat
  BY <1>1, RefsAreTaken, GiveStep
<1>3. ~IsAsync(Instr.op)
  BY <1>2 DEF IsAsync, IsHopper, MemoryKinds
<1>4. DotsInv'
  BY <1>1, <1>3, DotsGive DEF LoopInv
<1> QED
  BY <1>2, <1>4 DEF IsCommit

\* Kinds that do not run stay.
LEMMA OtherKinds ==
  ASSUME NEW o, NEW k, Advances(o, k), NEW kinds, Kind(o) \notin kinds
  PROVE  \A u \in Ops(body), m \in Int : Kind(u) \in kinds => (Ran(u, m)' <=> Ran(u, m))
BY DEF Advances

LEMMA InsertOperand ==
  ASSUME SoundProgram, LoopInv, NEW kind, At({kind}), kind # "dotwait", NEW d \in {Insert, Extract, Phase},
         Ref(d) \in Refs(body, Instr.op)
  PROVE  Operand(Instr, Ref(d)) = Instr.it
<1>1. Kind(Ref(d).def) = "idx" /\ Ref(d).dist = 0
  BY DEF Ref, Insert, Extract, Phase, Kind
<1>2. "dotwait" \notin {kind}
  OBVIOUS
<1> QED
  BY <1>1, <1>2, IndexRight DEF LoopInv

LEMMA CopyStepKeeps ==
  ASSUME SoundProgram, LoopInv, Copy
  PROVE  LoopInv'
<1>1. PICK v, o, k, on, x : /\ v = Value(Instr, Refs(body, Instr.op)) /\ o = Instr.op /\ k = Instr.it /\ on = Instr.on
                            /\ x = Buffer(Tag(Instr.op), Operand(Instr, Ref(Insert)))
  OBVIOUS
<1>2. /\ At({"copy"}) /\ Give(v) /\ UNCHANGED <<tma, dots>>
      /\ slot' = [slot EXCEPT ![x] = [it |-> v, landed |-> FALSE, read |-> on]]
      /\ copies' = [copies EXCEPT !.open = @ \cup {[at |-> x, it |-> v, read |-> on]}]
  BY <1>1 DEF Copy
<1>3. /\ PosInv' /\ FlowInv' /\ DidInv' /\ DotsInv' /\ UNCHANGED input
      /\ Running(o, k) /\ Advances(o, k) /\ Right(o, k, v) /\ o \in Ops(body) /\ Kind(o) = "copy"
      /\ Committed' = Committed
  BY <1>1, <1>2, MemoryGive DEF MemoryKinds
<1>4. x = Buffer(Tag(o), k)
  <2>1. Ref(Insert) \in Refs(body, Instr.op)
    BY <1>1, <1>3 DEF SoundProgram, SoundSchedule, RingIsLongEnough, IsFill
  <2>2. Operand(Instr, Ref(Insert)) = Instr.it
    BY <1>2, <2>1, InsertOperand
  <2> QED
    BY <1>1, <2>2
<1>5. copies = [open |-> copies.open, groups |-> copies.groups] /\ PosInv /\ MemShape /\ GroupInv /\ CopySlots /\ TmaSlots
      /\ FlyInv /\ BarrierInv
  BY DEF LoopInv, MemShape, FlightInv, SlotInv
<1>6. copies' = [open |-> copies.open \cup {[at |-> x, it |-> v, read |-> on]}, groups |-> copies.groups]
  BY <1>2, <1>5
<1>7. GroupInv' /\ Landings' = Landings
  BY <1>3, <1>4, <1>5, <1>6, GroupCopy
<1>8. CopySlots'
  BY <1>2, <1>3, <1>4, <1>5, <1>6, <1>7, SlotCopy
<1>9. TmaSlots'
  <2>1. PICK w : w = [it |-> v, landed |-> FALSE, read |-> on]
    OBVIOUS
  <2>2. slot' = [slot EXCEPT ![Buffer(Tag(o), k)] = w]
    BY <1>2, <1>4, <2>1
  <2> QED
    BY <1>2, <1>3, <1>5, <2>2, TmaSlotsCopy
<1>10. FlyInv'
  BY <1>2, <1>3, <1>5, OtherKinds, FlyQuiet
<1>11. BarrierInv'
  <2>1. \A u \in Ops(body), m \in Int : Kind(u) \in {"expect", "twait"} => (Ran(u, m)' <=> Ran(u, m))
    BY <1>3, OtherKinds
  <2>2. \A u \in Ops(body), m \in Int : Kind(u) = "tmacopy" => (Ran(u, m) => Ran(u, m)')
    BY <1>3 DEF Advances
  <2> QED
    BY <1>2, <1>3, <1>5, <2>1, <2>2, BarrierQuiet
<1>12. MemShape'
  <2>1. slot' = [y \in DOMAIN slot |-> slot'[y]]
    BY <1>2
  <2>2. copies' = [open |-> copies'.open, groups |-> copies'.groups] /\ copies'.groups = copies.groups
    BY <1>6
  <2> QED
    BY <1>2, <1>3, <1>5, <2>1, <2>2, ShapeWithin, MemShapeAfter
<1> QED
  BY <1>3, <1>7, <1>8, <1>9, <1>10, <1>11, <1>12 DEF LoopInv, FlightInv, SlotInv

LEMMA CommitStepKeeps ==
  ASSUME SoundProgram, LoopInv, Commit
  PROVE  LoopInv'
<1>1. PICK v, o, k : v = Value(Instr, Refs(body, Instr.op)) /\ o = Instr.op /\ k = Instr.it
  OBVIOUS
<1>2. /\ At({"commit"}) /\ Give(v) /\ UNCHANGED <<slot, tma, dots>>
      /\ copies' = [open |-> {}, groups |-> Append(copies.groups, copies.open)]
  BY <1>1 DEF Commit
<1>3. /\ PosInv' /\ FlowInv' /\ DidInv' /\ DotsInv' /\ UNCHANGED input
      /\ Running(o, k) /\ Advances(o, k) /\ o \in Ops(body) /\ Kind(o) = "commit"
      /\ Committed' = Committed + 1
  BY <1>1, <1>2, MemoryGive DEF MemoryKinds
<1>5. PosInv /\ MemShape /\ GroupInv /\ CopySlots /\ TmaSlots /\ FlyInv /\ BarrierInv
  BY DEF LoopInv, FlightInv, SlotInv
<1>7. GroupInv' /\ Landings' = Landings
  BY <1>2, <1>3, <1>5, GroupCommit
<1>8. CopySlots'
  BY <1>2, <1>3, <1>5, <1>7, SlotCommit
<1>9. TmaSlots'
  BY <1>2, <1>3, <1>5, OtherKinds, TmaSlotsQuiet
<1>10. FlyInv'
  BY <1>2, <1>3, <1>5, OtherKinds, FlyQuiet
<1>11. BarrierInv'
  <2>1. \A u \in Ops(body), m \in Int : Kind(u) \in {"expect", "twait"} => (Ran(u, m)' <=> Ran(u, m))
    BY <1>3, OtherKinds
  <2>2. \A u \in Ops(body), m \in Int : Kind(u) = "tmacopy" => (Ran(u, m) => Ran(u, m)')
    BY <1>3 DEF Advances
  <2> QED
    BY <1>2, <1>3, <1>5, <2>1, <2>2, BarrierQuiet
<1>12. MemShape'
  <2>1. Len(copies.groups) \in Nat /\ copies.groups = [i \in 1..Len(copies.groups) |-> copies.groups[i]]
    BY <1>5, ShapeWithin
  <2>2. PICK s, n : s = Append(copies.groups, copies.open) /\ n = Len(copies.groups)
    OBVIOUS
  <2>3. Len(s) = n + 1 /\ s = [i \in 1..(n + 1) |-> IF i = n + 1 THEN copies.open ELSE copies.groups[i]]
    BY <2>1, <2>2, AppendIsLonger
  <2>4. Len(s) \in Nat /\ s = [i \in 1..Len(s) |-> s[i]]
    BY <2>1, <2>2, <2>3
  <2>5. copies' = [open |-> {}, groups |-> s]
    BY <1>2, <2>2
  <2>6. /\ copies' = [open |-> copies'.open, groups |-> copies'.groups]
        /\ Len(copies'.groups) \in Nat /\ copies'.groups = [i \in 1..Len(copies'.groups) |-> copies'.groups[i]]
    BY <2>4, <2>5
  <2> QED
    BY <1>2, <1>3, <1>5, <2>6, ShapeWithin, MemShapeAfter
<1> QED
  BY <1>3, <1>7, <1>8, <1>9, <1>10, <1>11, <1>12 DEF LoopInv, FlightInv, SlotInv

LEMMA WaitStepKeeps ==
  ASSUME SoundProgram, LoopInv, Wait
  PROVE  LoopInv'
<1>1. PICK v, o, k : v = Value(Instr, Refs(body, Instr.op)) /\ o = Instr.op /\ k = Instr.it
  OBVIOUS
<1>2. /\ At({"wait"}) /\ Give(v) /\ UNCHANGED <<slot, copies, tma, dots>>
      /\ Instr.wait # NoWait => Len(copies.groups) <= Instr.wait
  BY <1>1 DEF Wait, memory
<1>3. /\ PosInv' /\ FlowInv' /\ DidInv' /\ DotsInv' /\ UNCHANGED input
      /\ Advances(o, k) /\ o \in Ops(body) /\ Kind(o) = "wait" /\ Committed' = Committed
  BY <1>1, <1>2, MemoryGive DEF MemoryKinds
<1>5. PosInv /\ MemShape /\ GroupInv /\ CopySlots /\ TmaSlots /\ FlyInv /\ BarrierInv
  BY DEF LoopInv, FlightInv, SlotInv
<1>6. Advances(Instr.op, Instr.it) /\ copies' = copies
  BY <1>1, <1>2, <1>3
<1>7. GroupInv' /\ Landings' = Landings
  BY <1>2, <1>3, <1>5, <1>6, GroupWait
<1>8. CopySlots'
  BY <1>2, <1>3, <1>5, <1>7, OtherKinds, CopySlotsQuiet
<1>9. TmaSlots'
  BY <1>2, <1>3, <1>5, OtherKinds, TmaSlotsQuiet
<1>10. FlyInv'
  BY <1>2, <1>3, <1>5, OtherKinds, FlyQuiet
<1>11. BarrierInv'
  <2>1. \A u \in Ops(body), m \in Int : Kind(u) \in {"expect", "twait"} => (Ran(u, m)' <=> Ran(u, m))
    BY <1>3, OtherKinds
  <2>2. \A u \in Ops(body), m \in Int : Kind(u) = "tmacopy" => (Ran(u, m) => Ran(u, m)')
    BY <1>3 DEF Advances
  <2> QED
    BY <1>2, <1>3, <1>5, <2>1, <2>2, BarrierQuiet
<1>12. MemShape'
  BY <1>2, <1>3, <1>5, ShapeWithin, MemShapeAfter
<1> QED
  BY <1>3, <1>7, <1>8, <1>9, <1>10, <1>11, <1>12 DEF LoopInv, FlightInv, SlotInv
\* The barrier that an expect sets.
Sets(on, y, owed) == tma' = IF on THEN [tma EXCEPT !.barrier[y].owed = owed] ELSE tma
LEMMA ExpectSets ==
  ASSUME MemShape, NEW on, NEW y, NEW owed, Sets(on, y, owed)
  PROVE  /\ tma' = [flying |-> tma'.flying, barrier |-> tma'.barrier] /\ tma'.flying = tma.flying
         /\ tma'.barrier = [z \in DOMAIN tma.barrier |-> [turns |-> tma'.barrier[z].turns, owed |-> tma'.barrier[z].owed]]
         /\ \A z \in DOMAIN tma.barrier :
              /\ tma'.barrier[z].owed = IF z = y /\ on THEN owed ELSE tma.barrier[z].owed
              /\ tma'.barrier[z].turns = tma.barrier[z].turns
<1> USE DEF Sets
<1>1. PICK f, b : f = tma.flying /\ b = tma.barrier
  OBVIOUS
<1>2. /\ tma = [flying |-> f, barrier |-> b]
      /\ b = [z \in DOMAIN b |-> [turns |-> b[z].turns, owed |-> b[z].owed]]
  BY <1>1, ShapeWithin
<1>3. CASE ~on
  BY <1>1, <1>2, <1>3
<1>4. CASE on /\ y \notin DOMAIN b
  <2>1. tma' = [flying |-> f, barrier |-> b]
    BY <1>1, <1>2, <1>4
  <2> QED
    BY <1>1, <1>2, <1>4, <2>1
<1>5. CASE on /\ y \in DOMAIN b
  <2>1. PICK c : c = [b EXCEPT ![y].owed = owed]
    OBVIOUS
  <2>2. tma' = [flying |-> f, barrier |-> c]
    BY <1>1, <1>2, <1>5, <2>1
  <2>3. /\ DOMAIN c = DOMAIN b
        /\ \A z \in DOMAIN b : c[z] = [turns |-> b[z].turns, owed |-> IF z = y THEN owed ELSE b[z].owed]
    BY <1>2, <1>5, <2>1
  <2>4. c = [z \in DOMAIN b |-> [turns |-> c[z].turns, owed |-> c[z].owed]]
    <3>1. c = [z \in DOMAIN b |-> c[z]]
      BY <2>1
    <3>2. \A z \in DOMAIN b : c[z] = [turns |-> c[z].turns, owed |-> c[z].owed]
      BY <2>3
    <3> QED
      BY <3>1, <3>2
  <2>5. tma'.flying = f /\ tma'.barrier = c
    BY <2>2
  <2>6. \A z \in DOMAIN b : c[z].owed = (IF z = y THEN owed ELSE b[z].owed) /\ c[z].turns = b[z].turns
    BY <2>3
  <2>7. tma' = [flying |-> tma'.flying, barrier |-> tma'.barrier] /\ tma'.flying = tma.flying
    BY <1>1, <2>2, <2>5
  <2>8. tma'.barrier = [z \in DOMAIN tma.barrier |-> [turns |-> tma'.barrier[z].turns, owed |-> tma'.barrier[z].owed]]
    BY <1>1, <2>4, <2>5
  <2>9. \A z \in DOMAIN tma.barrier :
              /\ tma'.barrier[z].owed = IF z = y /\ on THEN owed ELSE tma.barrier[z].owed
              /\ tma'.barrier[z].turns = tma.barrier[z].turns
    BY <1>1, <1>5, <2>5, <2>6
  <2> QED
    BY <2>7, <2>8, <2>9
<1> QED
  BY <1>1, <1>3, <1>4, <1>5

LEMMA ExpectStepKeeps ==
  ASSUME SoundProgram, LoopInv, Expect
  PROVE  LoopInv'
<1>1. PICK v, o, k, on, y : /\ v = Value(Instr, Refs(body, Instr.op)) /\ o = Instr.op /\ k = Instr.it /\ on = Instr.on
                            /\ y = Buffer(Tag(Instr.op), Operand(Instr, Ref(Insert)))
  OBVIOUS
<1>2. /\ At({"expect"}) /\ Give(v) /\ UNCHANGED <<slot, copies, dots>>
      /\ tma' = IF on THEN [tma EXCEPT !.barrier[y].owed = Owed(Tag(o))] ELSE tma
  BY <1>1 DEF Expect, Owed
<1>3. /\ PosInv' /\ FlowInv' /\ DidInv' /\ DotsInv' /\ UNCHANGED input
      /\ Running(o, k) /\ Advances(o, k) /\ o \in Ops(body) /\ Kind(o) = "expect"
      /\ Committed' = Committed /\ (k < trip => on)
  BY <1>1, <1>2, MemoryGive DEF MemoryKinds
<1>4. y = Buffer(Tag(o), k)
  <2>1. Ref(Insert) \in Refs(body, Instr.op)
    BY <1>1, <1>3 DEF SoundProgram, SoundSchedule, BulkCopiesLand
  <2>2. Operand(Instr, Ref(Insert)) = Instr.it
    BY <1>2, <2>1, InsertOperand
  <2> QED
    BY <1>1, <2>2
<1>5. PosInv /\ MemShape /\ GroupInv /\ CopySlots /\ TmaSlots /\ FlyInv /\ BarrierInv
  BY DEF LoopInv, FlightInv, SlotInv
<1>6. /\ tma' = [flying |-> tma'.flying, barrier |-> tma'.barrier] /\ tma'.flying = tma.flying
      /\ tma'.barrier = [z \in DOMAIN tma.barrier |-> [turns |-> tma'.barrier[z].turns, owed |-> tma'.barrier[z].owed]]
      /\ \A z \in DOMAIN tma.barrier :
           /\ tma'.barrier[z].owed = IF z = y /\ on THEN Owed(Tag(o)) ELSE tma.barrier[z].owed
           /\ tma'.barrier[z].turns = tma.barrier[z].turns
  <2>1. PICK q : q = Owed(Tag(o))
    OBVIOUS
  <2>2. Sets(on, y, q)
    BY <1>2, <2>1 DEF Sets
  <2>3. MemShape
    BY <1>5
  <2>4. /\ tma' = [flying |-> tma'.flying, barrier |-> tma'.barrier] /\ tma'.flying = tma.flying
        /\ tma'.barrier = [z \in DOMAIN tma.barrier |-> [turns |-> tma'.barrier[z].turns, owed |-> tma'.barrier[z].owed]]
        /\ \A z \in DOMAIN tma.barrier :
             /\ tma'.barrier[z].owed = IF z = y /\ on THEN q ELSE tma.barrier[z].owed
             /\ tma'.barrier[z].turns = tma.barrier[z].turns
    BY <2>2, <2>3, ExpectSets
  <2> QED
    BY <2>1, <2>4
<1>7. GroupInv' /\ Landings' = Landings
  BY <1>2, <1>3, <1>5, OtherKinds, GroupQuiet
<1>8. CopySlots'
  BY <1>2, <1>3, <1>5, <1>7, OtherKinds, CopySlotsQuiet
<1>9. TmaSlots'
  BY <1>2, <1>3, <1>5, <1>6, OtherKinds, TmaSlotsQuiet
<1>10. FlyInv'
  <2>1. \A z \in DOMAIN tma.barrier : tma'.barrier[z].owed = IF z = y /\ on THEN Owed(Tag(o)) ELSE tma.barrier[z].owed
    BY <1>6
  <2> QED
    BY <1>3, <1>4, <1>5, <1>6, <2>1, FlyExpect
<1>11. BarrierInv'
  BY <1>3, <1>4, <1>5, <1>6, BarrierExpect
<1>12. MemShape'
  BY <1>2, <1>3, <1>5, <1>6, ShapeWithin, MemShapeAfter
<1> QED
  BY <1>3, <1>7, <1>8, <1>9, <1>10, <1>11, <1>12 DEF LoopInv, FlightInv, SlotInv

LEMMA TmaCopyStepKeeps ==
  ASSUME SoundProgram, LoopInv, TmaCopy
  PROVE  LoopInv'
<1>1. PICK v, o, k, on, n : /\ v = Value(Instr, Refs(body, Instr.op)) /\ o = Instr.op /\ k = Instr.it /\ on = Instr.on
                            /\ n = Operand(Instr, Ref(Insert))
  OBVIOUS
<1>0. PICK x, y, w, e : /\ x = Buffer(Tag(o), k) /\ y = Buffer(GroupOf(Tag(o)), k)
                        /\ w = [it |-> v, landed |-> FALSE, read |-> TRUE]
                        /\ e = [at |-> x, it |-> v, read |-> TRUE, barrier |-> y]
  OBVIOUS
<1>2. /\ At({"tmacopy"}) /\ Give(v) /\ UNCHANGED <<copies, dots>>
      /\ slot' = IF on THEN [slot EXCEPT ![Buffer(Tag(o), n)] = w] ELSE slot
      /\ tma' = IF ~on THEN tma
                ELSE [tma EXCEPT !.flying = @ \cup {[at |-> Buffer(Tag(o), n), it |-> v, read |-> TRUE,
                                                    barrier |-> Buffer(GroupOf(Tag(o)), n)]}]
  BY <1>0, <1>1 DEF TmaCopy
<1>3. /\ PosInv' /\ FlowInv' /\ DidInv' /\ DotsInv' /\ UNCHANGED input
      /\ Running(o, k) /\ Advances(o, k) /\ Right(o, k, v) /\ o \in Ops(body) /\ Kind(o) = "tmacopy"
      /\ Committed' = Committed /\ (k < trip => on) /\ k \in Nat
  BY <1>1, <1>2, MemoryGive DEF MemoryKinds
<1>4. n = k
  <2>1. Ref(Insert) \in Refs(body, Instr.op)
    BY <1>1, <1>3 DEF SoundProgram, SoundSchedule, RingIsLongEnough, IsFill
  <2> QED
    BY <1>1, <1>2, <2>1, InsertOperand
<1>5. PosInv /\ MemShape /\ GroupInv /\ CopySlots /\ TmaSlots /\ FlyInv /\ BarrierInv
  BY DEF LoopInv, FlightInv, SlotInv
<1>6. PICK f, b : f = tma.flying /\ b = tma.barrier /\ tma = [flying |-> f, barrier |-> b]
  BY <1>5, ShapeWithin
<1>14. /\ slot' = IF on THEN [slot EXCEPT ![x] = w] ELSE slot
       /\ tma' = IF ~on THEN tma ELSE [flying |-> f \cup {e}, barrier |-> b]
  <2>1. slot' = IF on THEN [slot EXCEPT ![x] = w] ELSE slot
    BY <1>0, <1>2, <1>4
  <2>2. CASE on
    <3>1. tma' = [tma EXCEPT !.flying = @ \cup {e}]
      BY <1>0, <1>2, <1>4, <2>2
    <3>2. tma' = [flying |-> f \cup {e}, barrier |-> b]
      BY <1>6, <3>1
    <3> QED
      BY <2>1, <2>2, <3>2
  <2>3. CASE ~on
    BY <1>2, <2>1, <2>3
  <2> QED
    BY <2>2, <2>3
<1>15. /\ tma'.flying \subseteq tma.flying \cup {e} /\ tma'.barrier = tma.barrier
       /\ tma' = [flying |-> tma'.flying, barrier |-> tma'.barrier]
       /\ slot' = [z \in DOMAIN slot |-> slot'[z]]
       /\ slot' = slot \/ slot' = [slot EXCEPT ![x] = w]
       /\ \/ k >= trip /\ slot' = slot /\ tma' = tma
          \/ slot' = [slot EXCEPT ![x] = w] /\ tma'.flying = tma.flying \cup {e}
  <2>1. CASE on
    <3>1. slot' = [slot EXCEPT ![x] = w] /\ tma' = [flying |-> f \cup {e}, barrier |-> b]
      BY <1>14, <2>1
    <3>2. tma'.flying = f \cup {e} /\ tma'.barrier = b
      BY <3>1
    <3> QED
      BY <1>6, <3>1, <3>2
  <2>2. CASE ~on
    <3>1. k >= trip
      BY <1>3, <1>5, <2>2 DEF PosInv
    <3>2. slot' = slot /\ tma' = tma
      BY <1>14, <2>2
    <3>3. slot = [z \in DOMAIN slot |-> slot[z]]
      BY <1>5, ShapeWithin
    <3> QED
      BY <1>6, <3>1, <3>2, <3>3
  <2> QED
    BY <2>1, <2>2
<1>7. GroupInv' /\ Landings' = Landings
  BY <1>2, <1>3, <1>5, OtherKinds, GroupQuiet
<1>8. CopySlots'
  BY <1>0, <1>2, <1>3, <1>5, <1>7, <1>15, CopySlotsTmaCopy
<1>9. TmaSlots'
  <2>1. e.at = Buffer(Tag(o), k)
    BY <1>0
  <2>2. \/ k >= trip /\ slot' = slot /\ tma' = tma
        \/ slot' = [slot EXCEPT ![Buffer(Tag(o), k)] = w] /\ tma'.flying = tma.flying \cup {e}
    BY <1>0, <1>15
  <2>3. w = [it |-> v, landed |-> FALSE, read |-> TRUE]
    BY <1>0
  <2> QED
    BY <1>3, <1>5, <2>1, <2>2, <2>3, TmaSlotCopy
<1>10. FlyInv'
  <2>1. e = [at |-> Buffer(Tag(o), k), it |-> v, read |-> TRUE, barrier |-> Buffer(GroupOf(Tag(o)), k)]
    BY <1>0
  <2> QED
    BY <1>3, <1>5, <1>15, <2>1, FlyTmaCopy
<1>11. BarrierInv'
  <2>1. \A u \in Ops(body), m \in Int : Kind(u) \in {"expect", "twait"} => (Ran(u, m)' <=> Ran(u, m))
    BY <1>3, OtherKinds
  <2>2. \A u \in Ops(body), m \in Int : Kind(u) = "tmacopy" => (Ran(u, m) => Ran(u, m)')
    BY <1>3 DEF Advances
  <2> QED
    BY <1>3, <1>5, <1>15, <2>1, <2>2, BarrierQuiet
<1>12. MemShape'
  BY <1>2, <1>3, <1>5, <1>15, ShapeWithin, MemShapeAfter
<1> QED
  BY <1>3, <1>7, <1>8, <1>9, <1>10, <1>11, <1>12 DEF LoopInv, FlightInv, SlotInv

LEMMA TmaWaitStepKeeps ==
  ASSUME SoundProgram, LoopInv, TmaWait
  PROVE  LoopInv'
<1>1. PICK v, o, k, n, p : /\ v = Value(Instr, Refs(body, Instr.op)) /\ o = Instr.op /\ k = Instr.it
                           /\ n = Operand(Instr, Ref(Extract)) /\ p = Operand(Instr, Ref(Phase))
  OBVIOUS
<1>2. /\ At({"twait"}) /\ Give(v) /\ UNCHANGED <<slot, copies, tma, dots>>
      /\ tma.barrier[Buffer(Tag(o), n)].turns % 2 # (p \div prog.buffers) % 2
  BY <1>1 DEF TmaWait, memory
<1>3. /\ PosInv' /\ FlowInv' /\ DidInv' /\ DotsInv' /\ UNCHANGED input
      /\ Running(o, k) /\ Advances(o, k) /\ o \in Ops(body) /\ Kind(o) = "twait"
      /\ Committed' = Committed
  BY <1>1, <1>2, MemoryGive DEF MemoryKinds
<1>4. n = k /\ p = k
  <2>1. Ref(Extract) \in Refs(body, Instr.op) /\ Ref(Phase) \in Refs(body, Instr.op)
    BY <1>1, <1>3 DEF SoundProgram, SoundSchedule, BulkCopiesLand
  <2> QED
    BY <1>1, <1>2, <2>1, InsertOperand
<1>5. PosInv /\ MemShape /\ GroupInv /\ CopySlots /\ TmaSlots /\ FlyInv /\ BarrierInv
  BY DEF LoopInv, FlightInv, SlotInv
<1>6. tma.barrier[Buffer(Tag(o), k)].turns % 2 # (k \div prog.buffers) % 2
  BY <1>2, <1>4
<1>7. GroupInv' /\ Landings' = Landings
  BY <1>2, <1>3, <1>5, OtherKinds, GroupQuiet
<1>8. CopySlots'
  BY <1>2, <1>3, <1>5, <1>7, OtherKinds, CopySlotsQuiet
<1>13. tma' = tma /\ slot' = slot
  BY <1>2
<1>9. TmaSlots'
  BY <1>3, <1>5, <1>6, <1>13, TmaSlotWait
<1>10. FlyInv'
  BY <1>3, <1>5, <1>13, OtherKinds, FlyQuiet
<1>11. BarrierInv'
  BY <1>3, <1>5, <1>6, <1>13, BarrierTmaWait
<1>12. MemShape'
  BY <1>2, <1>3, <1>5, ShapeWithin, MemShapeAfter
<1> QED
  BY <1>3, <1>7, <1>8, <1>9, <1>10, <1>11, <1>12 DEF LoopInv, FlightInv, SlotInv

-----------------------------------------------------------------------------
(***************************************************************************)
(* The steps that run no operation.                                        *)
(***************************************************************************)
\* A step that runs no operation and leaves the memory alone.
LEMMA MemoryStays ==
  ASSUME SoundProgram, LoopInv, UNCHANGED input, UNCHANGED memory, Stays, Committed' = Committed
  PROVE  FlightInv' /\ MemShape'
<1>1. UNCHANGED <<slot, copies, tma>> /\ UNCHANGED dots
  BY DEF memory
<1>2. \A u \in Ops(body), m \in Int : Kind(u) \in MemoryKinds => (Ran(u, m)' <=> Ran(u, m))
  BY DEF Stays
<1>3. PosInv /\ MemShape /\ FlightInv
  BY DEF LoopInv
<1> QED
  BY <1>1, <1>2, <1>3, MemoryQuiet

LEMMA DidStays ==
  ASSUME SoundProgram, DidInv, UNCHANGED <<input, did>>, part # "prologue", part' # "prologue",
         pos'.turn = pos.turn, pos'.i = pos.i
  PROVE  DidInv'
<1>1. \A e \in Effects(source) : did'[e] = pos.turn + (IF Place(e) < pos.i THEN 1 ELSE 0)
  BY DEF DidInv
<1> QED
  BY <1>1, DidAfter

LEMMA DotWaitedKeeps ==
  ASSUME SoundProgram, LoopInv, DotWaited
  PROVE  LoopInv'
<1>1. /\ Stays /\ PosInv' /\ UNCHANGED input /\ NowTurn' = NowTurn /\ NowPlace' = NowPlace + 1
      /\ part = "kernel" /\ part' = part /\ pos.i \in Steps /\ Kind(prog.kernel[pos.i]) = "dotwait"
      /\ NowTurn = pos.turn /\ NowPlace = pos.i /\ pos' = [i |-> pos.i + 1, turn |-> pos.turn]
      /\ Instr.op = prog.kernel[pos.i]
  BY DotWaitedStays DEF LoopInv, SoundProgram, SoundSchedule
<1>2. FlowInv'
  BY DotWaitedFlow DEF LoopInv, SoundProgram, SoundSchedule
<1>3. UNCHANGED memory /\ did' = did /\ Len(dots) <= DotsLeft(pos.i) /\ dots' = dots
  <2>1. UNCHANGED memory /\ did' = did /\ Len(dots) <= (IF Instr.op = DotWaitSome THEN Len(prog.async) ELSE 0)
    BY DEF DotWaited
  <2> QED
    BY <1>1, <2>1 DEF DotsLeft, memory
<1>4. ~IsCommit(prog.kernel[pos.i]) /\ ~IsAsync(prog.kernel[pos.i])
  BY <1>1 DEF IsCommit, IsAsync, IsHopper
<1>5. Committed' = Committed /\ Issued' = Issued
  <2>1. /\ Committed' = Committed + (IF IsCommit(prog.kernel[pos.i]) THEN 1 ELSE 0)
        /\ Issued' = Issued + (IF IsAsync(prog.kernel[pos.i]) THEN 1 ELSE 0)
    BY <1>1, KernelCounts DEF LoopInv, SoundProgram, SoundSchedule
  <2>2. Committed \in Nat
    BY CommittedTyped DEF LoopInv, SoundProgram, SoundSchedule
  <2>3. Issued \in Nat
    BY <1>1, DotsTyped DEF LoopInv
  <2> QED
    BY <1>4, <2>1, <2>2, <2>3
<1>6. FlightInv' /\ MemShape'
  BY <1>1, <1>3, <1>5, MemoryStays
<1>7. DotsInv'
  BY <1>1, <1>3, <1>5, DotsWaitedStep DEF LoopInv
<1>8. DidInv'
  <2>1. ASSUME NEW e \in Effects(source)
        PROVE  did'[e] = pos.turn + (IF Place(e) < pos.i + 1 THEN 1 ELSE 0)
    <3>1. did[e] = pos.turn + (IF Place(e) < pos.i THEN 1 ELSE 0)
      BY <1>1 DEF LoopInv, DidInv
    <3>2. prog.kernel[pos.i] \notin Ops(body)
      BY <1>1 DEF SoundProgram, SoundSchedule, OrderIsKept
    <3>3. Place(e) \in Nat /\ e \in Ops(body) /\ prog.kernel[Place(e)] = e
      BY EffectFacts
    <3>4. Place(e) # pos.i
      BY <3>2, <3>3
    <3>5. pos.i \in Nat
      BY DEF LoopInv, PosInv
    <3>6. Place(e) < pos.i + 1 <=> Place(e) < pos.i
      BY <3>3, <3>4, <3>5
    <3> QED
      BY <1>3, <3>1, <3>6
  <2>2. DidInv /\ pos'.turn = pos.turn /\ pos'.i = pos.i + 1 /\ DOMAIN did' = DOMAIN did
    BY <1>1, <1>3 DEF LoopInv
  <2> QED
    BY <1>1, <2>1, <2>2, DidAfter
<1> QED
  BY <1>1, <1>2, <1>6, <1>7, <1>8 DEF LoopInv

LEMMA EnterKeeps ==
  ASSUME SoundProgram, LoopInv, EnterKernel
  PROVE  LoopInv'
<1>1. /\ Stays /\ PosInv' /\ UNCHANGED input /\ NowTurn' = NowTurn /\ NowPlace' = NowPlace
      /\ NowTurn = 0 /\ NowPlace = 1
  BY EnterStays DEF LoopInv, SoundProgram, SoundSchedule
<1>2. FlowInv'
  BY EnterFlow DEF LoopInv, SoundProgram, SoundSchedule
<1>3. UNCHANGED memory /\ did' = did /\ dots' = dots /\ part = "prologue" /\ part' = "kernel" /\ pos' = [i |-> 1, turn |-> 0]
  BY DEF EnterKernel, memory
<1>4. Committed' = Committed /\ Issued' = Issued
  BY <1>1, CountsSame
<1>5. FlightInv' /\ MemShape'
  BY <1>1, <1>3, <1>4, MemoryStays
<1>6. DotsInv'
  <2>1. dots = <<>>
    BY <1>3 DEF LoopInv, DotsInv
  <2>2. Issued = 0
    <3>1. DotsBefore(0, 1) = 0 * DotsPerTurn + Cardinality(KernelDots(1)) /\ 0 * DotsPerTurn \in Nat
      BY Typed, DotsInKernel DEF SoundProgram, SoundSchedule
    <3>2. Cardinality(KernelDots(1)) = 0 /\ DotsPerTurn \in Nat
      BY NoneAtFirst, PerTurnTyped DEF SoundProgram, SoundSchedule
    <3>3. 0 * DotsPerTurn = 0
      BY <3>2
    <3> QED
      BY <1>1, <3>1, <3>2, <3>3 DEF Issued
  <2>3. Retired' = 0
    <3>1. Retired' = 0 - Len(dots')
      BY <1>1, <1>4, <2>2, RetiredAfter
    <3>2. dots' = <<>>
      BY <1>3, <2>1
    <3>3. Len(<<>>) = 0
      OBVIOUS
    <3>4. Len(dots') = 0
      BY <3>2, <3>3
    <3> QED
      BY <3>1, <3>4
  <2>4. \A i \in 1..Len(dots') : FALSE
    BY <1>3, <2>1
  <2>5. ASSUME NEW d \in Ops(body), NEW k \in Nat, NEW t \in Nat, NEW i \in Steps,
               IsAsync(d), RetiresBy(d, k, t, i), Reached(t, i)'
        PROVE  FALSE
    <3>1. Before(t, i, NowTurn', NowPlace')
      BY <2>5 DEF Reached, Before
    <3>2. Before(t, i, 0, 1)
      BY <1>1, <3>1
    <3> QED
      BY <3>2 DEF Before, Steps
  <2>6. part' # "prologue"
    BY <1>3
  <2> QED
    BY <1>1, <2>3, <2>4, <2>5, <2>6, DotsInvAfter
<1>7. DidInv'
  <2>1. ASSUME NEW e \in Effects(source)
        PROVE  did'[e] = 0 + (IF Place(e) < 1 THEN 1 ELSE 0)
    <3>1. did[e] = 0
      BY <1>3 DEF LoopInv, DidInv
    <3>2. Place(e) \in Nat /\ 1 <= Place(e)
      BY EffectFacts
    <3> QED
      BY <1>3, <3>1, <3>2
  <2>2. DidInv /\ pos'.turn = 0 /\ pos'.i = 1 /\ DOMAIN did' = DOMAIN did
    BY <1>3 DEF LoopInv
  <2> QED
    BY <1>1, <1>3, <2>1, <2>2, DidAfter
<1> QED
  BY <1>1, <1>2, <1>5, <1>6, <1>7 DEF LoopInv

LEMMA NextTurnKeeps ==
  ASSUME SoundProgram, LoopInv, NextTurn
  PROVE  LoopInv'
<1>1. /\ Stays /\ PosInv' /\ UNCHANGED input /\ NowTurn' = NowTurn + 1 /\ NowPlace' = 1
      /\ NowPlace = Len(prog.kernel) + 1 /\ NowTurn = pos.turn /\ pos.turn \in Nat /\ pos.turn < trip
  BY NextTurnStays DEF LoopInv, SoundProgram, SoundSchedule
<1>2. FlowInv'
  BY NextTurnFlow DEF LoopInv, SoundProgram, SoundSchedule
<1>3. /\ UNCHANGED memory /\ did' = did /\ dots' = dots /\ part = "kernel" /\ part' = part
      /\ pos' = [i |-> 1, turn |-> pos.turn + 1] /\ pos.i > Len(prog.kernel)
  BY DEF NextTurn, memory
<1>4. Committed' = Committed /\ Issued' = Issued
  BY NextTurnCounts DEF LoopInv, SoundProgram, SoundSchedule
<1>5. FlightInv' /\ MemShape'
  BY <1>1, <1>3, <1>4, MemoryStays
<1>6. DotsInv'
  <2>1. \A u \in Ops(body), m \in Int : Ran(u, m) => Ran(u, m)'
    BY <1>1 DEF Stays
  <2>2. ASSUME NEW t \in Nat, NEW i \in Steps, Reached(t, i)'
        PROVE  Reached(t, i)
    <3>1. Before(t, i, NowTurn', NowPlace')
      BY <2>2 DEF Reached, Before
    <3>2. Before(t, i, pos.turn + 1, 1)
      BY <1>1, <3>1
    <3>3. i \in Nat /\ i >= 1 /\ i < Len(prog.kernel) + 1 /\ Len(prog.kernel) \in Nat
      BY Typed DEF Steps, SoundProgram, SoundSchedule
    <3>4. Before(t, i, pos.turn, Len(prog.kernel) + 1)
      BY <1>1, <3>2, <3>3 DEF Before
    <3> QED
      BY <1>1, <3>4 DEF Reached
  <2> QED
    BY <1>1, <1>3, <1>4, <2>1, <2>2, DotsQuiet DEF LoopInv
<1>7. DidInv'
  <2>1. ASSUME NEW e \in Effects(source)
        PROVE  did'[e] = pos.turn + 1 + (IF Place(e) < 1 THEN 1 ELSE 0)
    <3>1. did[e] = pos.turn + (IF Place(e) < pos.i THEN 1 ELSE 0)
      BY <1>3 DEF LoopInv, DidInv
    <3>2. Place(e) \in Nat /\ 1 <= Place(e) /\ Place(e) <= Len(prog.kernel) /\ Len(prog.kernel) \in Nat
      BY EffectFacts
    <3>3. pos.i \in Nat
      BY DEF LoopInv, PosInv
    <3>4. Place(e) < pos.i /\ ~(Place(e) < 1)
      BY <1>3, <3>2, <3>3
    <3> QED
      BY <1>1, <1>3, <3>1, <3>4
  <2>2. DidInv /\ pos'.turn = pos.turn + 1 /\ pos'.i = 1 /\ DOMAIN did' = DOMAIN did
    BY <1>3 DEF LoopInv
  <2> QED
    BY <1>1, <1>3, <2>1, <2>2, DidAfter
<1> QED
  BY <1>1, <1>2, <1>5, <1>6, <1>7 DEF LoopInv

LEMMA LeaveKeeps ==
  ASSUME SoundProgram, LoopInv, Leave
  PROVE  LoopInv'
<1>1. Stays /\ PosInv' /\ UNCHANGED input /\ NowTurn' = NowTurn /\ NowPlace' = NowPlace
  BY LeaveStays DEF LoopInv, SoundProgram, SoundSchedule
<1>2. FlowInv'
  BY LeaveFlow DEF LoopInv, SoundProgram, SoundSchedule
<1>3. /\ UNCHANGED memory /\ did' = did /\ dots' = dots /\ part = "kernel" /\ part' = "done" /\ pos' = pos
  BY DEF Leave, memory
<1>4. Committed' = Committed /\ Issued' = Issued
  BY <1>1, CountsSame
<1>5. FlightInv' /\ MemShape'
  BY <1>1, <1>3, <1>4, MemoryStays
<1>6. DotsInv'
  <2>1. \A u \in Ops(body), m \in Int : Ran(u, m) => Ran(u, m)'
    BY <1>1 DEF Stays
  <2>2. ASSUME NEW t \in Nat, NEW i \in Steps, Reached(t, i)'
        PROVE  Reached(t, i)
    <3>1. Before(t, i, NowTurn', NowPlace')
      BY <2>2 DEF Reached, Before
    <3> QED
      BY <1>1, <3>1 DEF Reached
  <2> QED
    BY <1>1, <1>3, <1>4, <2>1, <2>2, DotsQuiet DEF LoopInv
<1>7. DidInv'
  BY <1>1, <1>3, DidStays DEF LoopInv
<1> QED
  BY <1>1, <1>2, <1>5, <1>6, <1>7 DEF LoopInv

-----------------------------------------------------------------------------
(***************************************************************************)
(* The steps of the hardware.                                              *)
(***************************************************************************)
LEMMA DidWaits ==
  ASSUME DidInv, UNCHANGED <<input, part, pos, did>>
  PROVE  DidInv'
<1>1. source' = source
  BY InputSame
<1>2. Effects(source)' = Effects(source)
  BY <1>1 DEF Effects
<1>3. \A o : Place(o)' = Place(o)
  BY ProgramStays
<1> QED
  BY <1>2, <1>3 DEF DidInv

\* While the hardware works, the program stands still.
LEMMA ProgramWaits ==
  ASSUME SoundProgram, LoopInv, UNCHANGED <<input, part, pos, env, did, results>>
  PROVE  /\ PosInv' /\ FlowInv' /\ DidInv' /\ UNCHANGED input
         /\ Stays /\ NowTurn' = NowTurn /\ NowPlace' = NowPlace /\ Committed' = Committed /\ Issued' = Issued
         /\ UNCHANGED dots => DotsInv'
<1>1. Stays /\ NowTurn' = NowTurn /\ NowPlace' = NowPlace /\ PosInv'
  BY HardwareStays DEF LoopInv
<1>2. FlowInv'
  BY FlowSame DEF LoopInv
<1>3. DidInv'
  BY DidWaits DEF LoopInv
<1>4. Committed' = Committed /\ Issued' = Issued
  BY <1>1, CountsSame
<1>5. ASSUME UNCHANGED dots PROVE DotsInv'
  <2>1. CASE part = "prologue"
    BY <1>5, <2>1 DEF LoopInv, DotsInv
  <2>2. CASE part # "prologue"
    <3>1. \A u \in Ops(body), m \in Int : Ran(u, m) => Ran(u, m)'
      BY <1>1 DEF Stays
    <3>2. ASSUME NEW t \in Nat, NEW i \in Steps, Reached(t, i)'
          PROVE  Reached(t, i)
      <4>1. Before(t, i, NowTurn', NowPlace')
        BY <3>2 DEF Reached, Before
      <4> QED
        BY <1>1, <4>1 DEF Reached
    <3> QED
      BY <1>4, <1>5, <2>2, <3>1, <3>2, DotsQuiet DEF LoopInv
  <2> QED
    BY <2>1, <2>2
<1> QED
  BY <1>1, <1>2, <1>3, <1>4, <1>5

LEMMA StutterKeeps ==
  ASSUME SoundProgram, LoopInv, UNCHANGED vars
  PROVE  LoopInv'
<1>1. UNCHANGED <<input, part, pos, env, did, results>> /\ UNCHANGED memory /\ UNCHANGED dots
  BY DEF vars, memory
<1>2. /\ PosInv' /\ FlowInv' /\ DidInv' /\ UNCHANGED input
      /\ Stays /\ Committed' = Committed /\ DotsInv'
  BY <1>1, ProgramWaits
<1>3. FlightInv' /\ MemShape'
  BY <1>1, <1>2, MemoryStays
<1> QED
  BY <1>2, <1>3 DEF LoopInv

LEMMA RetireKeeps ==
  ASSUME SoundProgram, LoopInv, Retire
  PROVE  LoopInv'
<1>1. UNCHANGED <<input, part, pos, env, did, results>> /\ UNCHANGED <<slot, copies, tma>>
      /\ dots # <<>> /\ dots' = Tail(dots)
  BY DEF Retire
<1>2. /\ PosInv' /\ FlowInv' /\ DidInv' /\ UNCHANGED input
      /\ Stays /\ Committed' = Committed /\ Issued' = Issued /\ NowTurn' = NowTurn /\ NowPlace' = NowPlace
  BY <1>1, ProgramWaits
<1>3. part # "prologue" /\ part' = part
  BY <1>1 DEF LoopInv, DotsInv
<1>4. DotsInv'
  BY <1>1, <1>2, <1>3, DotsRetireStep DEF LoopInv
<1>5. PosInv /\ MemShape /\ FlightInv
  BY DEF LoopInv
<1>6. \A u \in Ops(body), m \in Int : Kind(u) \in MemoryKinds => (Ran(u, m)' <=> Ran(u, m))
  BY <1>2 DEF Stays
<1>7. FlightInv'
  BY <1>1, <1>2, <1>5, <1>6, MemoryQuiet
<1>8. MemShape'
  <2>1. Len(dots) \in Nat /\ dots = [i \in 1..Len(dots) |-> dots[i]]
    BY <1>5, ShapeWithin
  <2>2. PICK s, n : s = Tail(dots) /\ n = Len(dots)
    OBVIOUS
  <2>3. n \in Nat /\ n >= 1 /\ Len(s) = n - 1 /\ s = [i \in 1..(n - 1) |-> dots[i + 1]]
    BY <1>1, <2>1, <2>2, TailIsShorter
  <2>4. Len(s) \in Nat /\ s = [i \in 1..Len(s) |-> s[i]]
    BY <2>3
  <2>5. dots' = s
    BY <1>1, <2>2
  <2>6. Len(dots') \in Nat /\ dots' = [i \in 1..Len(dots') |-> dots'[i]]
    BY <2>4, <2>5
  <2> QED
    BY <1>1, <1>2, <1>5, <2>6, ShapeWithin, MemShapeAfter
<1> QED
  BY <1>2, <1>4, <1>7, <1>8 DEF LoopInv

LEMMA LandKeeps ==
  ASSUME SoundProgram, LoopInv, Land
  PROVE  LoopInv'
<1>1. /\ UNCHANGED <<input, part, pos, env, did, results>> /\ UNCHANGED <<tma, dots>>
      /\ copies.groups # <<>> /\ slot' = Landed(Head(copies.groups))
      /\ copies' = [copies EXCEPT !.groups = Tail(@)]
  BY DEF Land
<1>2. /\ PosInv' /\ FlowInv' /\ DidInv' /\ UNCHANGED input /\ DotsInv'
      /\ Stays /\ Committed' = Committed
  BY <1>1, ProgramWaits
<1>3. PosInv /\ MemShape /\ GroupInv /\ CopySlots /\ TmaSlots /\ FlyInv /\ BarrierInv
  BY DEF LoopInv, FlightInv, SlotInv
<1>4. copies' = [open |-> copies.open, groups |-> Tail(copies.groups)]
  <2>1. copies = [open |-> copies.open, groups |-> copies.groups]
    BY <1>3, ShapeWithin
  <2>2. PICK a, b : a = copies.open /\ b = copies.groups /\ copies = [open |-> a, groups |-> b]
    BY <2>1
  <2>3. copies' = [open |-> a, groups |-> Tail(b)]
    BY <1>1, <2>2
  <2> QED
    BY <2>2, <2>3
<1>5. GroupInv' /\ Landings' = Landings + 1
  BY <1>1, <1>2, <1>3, <1>4, GroupLand
<1>6. /\ CopySlots'
      /\ \A d \in Ops(body), m \in Nat : Kind(d) = "tmacopy" /\ Current(d, m) =>
              slot'[Buffer(Tag(d), m)] = slot[Buffer(Tag(d), m)]
  BY <1>1, <1>2, <1>3, <1>4, <1>5, SlotLand
<1>7. \A u \in Ops(body), m \in Int : Ran(u, m)' <=> Ran(u, m)
  BY <1>2 DEF Stays
<1>8. TmaSlots'
  BY <1>1, <1>2, <1>3, <1>6, <1>7, TmaSlotsQuiet
<1>9. FlyInv'
  BY <1>1, <1>2, <1>3, <1>7, FlyQuiet
<1>10. BarrierInv'
  BY <1>1, <1>2, <1>3, <1>7, BarrierQuiet
<1>11. MemShape'
  <2>1. Len(copies.groups) \in Nat /\ copies.groups = [i \in 1..Len(copies.groups) |-> copies.groups[i]]
    BY <1>3, ShapeWithin
  <2>2. PICK s, n : s = Tail(copies.groups) /\ n = Len(copies.groups)
    OBVIOUS
  <2>3. n \in Nat /\ n >= 1 /\ Len(s) = n - 1 /\ s = [i \in 1..(n - 1) |-> copies.groups[i + 1]]
    BY <1>1, <2>1, <2>2, TailIsShorter
  <2>4. Len(s) \in Nat /\ s = [i \in 1..Len(s) |-> s[i]]
    BY <2>3
  <2>5. PICK a : a = copies.open
    OBVIOUS
  <2>6. copies' = [open |-> a, groups |-> s]
    BY <1>4, <2>2, <2>5
  <2>7. copies' = [open |-> copies'.open, groups |-> copies'.groups] /\ copies'.groups = s
    BY <2>6
  <2>8. Len(copies'.groups) \in Nat /\ copies'.groups = [i \in 1..Len(copies'.groups) |-> copies'.groups[i]]
    BY <2>4, <2>7
  <2>9. slot' = [x \in DOMAIN slot |-> slot'[x]]
    BY <1>1 DEF Landed
  <2> QED
    BY <1>1, <1>2, <1>3, <2>7, <2>8, <2>9, ShapeWithin, MemShapeAfter
<1> QED
  BY <1>2, <1>5, <1>6, <1>8, <1>9, <1>10, <1>11 DEF LoopInv, FlightInv, SlotInv

LEMMA TmaLandKeeps ==
  ASSUME SoundProgram, LoopInv, TmaLand
  PROVE  LoopInv'
<1>1. PICK e \in tma.flying :
        /\ slot' = Landed({e})
        /\ tma' = [flying |-> tma.flying \ {e},
                   barrier |-> [tma.barrier EXCEPT ![e.barrier] =
                      [turns |-> IF tma.barrier[e.barrier].owed \ {e.at[1]} = {} THEN @.turns + 1 ELSE @.turns,
                       owed |-> tma.barrier[e.barrier].owed \ {e.at[1]}]]]
        /\ UNCHANGED <<input, part, pos, env, copies, dots, did, results>>
  BY DEF TmaLand
<1>2. /\ PosInv' /\ FlowInv' /\ DidInv' /\ UNCHANGED input /\ DotsInv'
      /\ Stays /\ Committed' = Committed
  <2>1. UNCHANGED <<input, part, pos, env, did, results>> /\ UNCHANGED dots
    BY <1>1
  <2> QED
    BY <2>1, ProgramWaits
<1>3. PosInv /\ MemShape /\ GroupInv /\ CopySlots /\ TmaSlots /\ FlyInv /\ BarrierInv
  BY DEF LoopInv, FlightInv, SlotInv
<1>4. PICK left : left = tma.barrier[e.barrier].owed \ {e.at[1]}
  OBVIOUS
<1>5. PICK b, c, y : /\ b = tma.barrier /\ y = e.barrier
                     /\ c = [b EXCEPT ![y] = [turns |-> IF left = {} THEN @.turns + 1 ELSE @.turns, owed |-> left]]
  OBVIOUS
<1>6. tma' = [flying |-> tma.flying \ {e}, barrier |-> c]
  BY <1>1, <1>4, <1>5
<1>7. /\ DOMAIN c = DOMAIN b /\ c = [z \in DOMAIN b |-> c[z]]
      /\ \A z \in DOMAIN b : /\ z # y => c[z] = b[z]
                             /\ z = y => c[z] = [turns |-> IF left = {} THEN b[z].turns + 1 ELSE b[z].turns, owed |-> left]
  BY <1>5
<1>8. tma'.flying = tma.flying \ {e} /\ tma'.barrier = c
  BY <1>6
<1>9. TmaLands(e, left)
  <2>1. \A z \in DOMAIN b : z = y => /\ c[z].owed = left
                                     /\ c[z].turns = IF left = {} THEN b[z].turns + 1 ELSE b[z].turns
    BY <1>7
  <2>2. slot' = Landed({e}) /\ tma'.flying = tma.flying \ {e}
    BY <1>1, <1>8
  <2>3. ASSUME NEW z \in DOMAIN tma.barrier
        PROVE  /\ z # e.barrier => tma'.barrier[z] = tma.barrier[z]
               /\ z = e.barrier => /\ tma'.barrier[z].owed = left
                                   /\ tma'.barrier[z].turns = IF left = {} THEN tma.barrier[z].turns + 1 ELSE tma.barrier[z].turns
    <3>1. z \in DOMAIN b /\ tma.barrier[z] = b[z] /\ tma'.barrier[z] = c[z] /\ (z = y <=> z = e.barrier)
      BY <1>5, <1>8
    <3>2. CASE z = y
      BY <2>1, <3>1, <3>2
    <3>3. CASE z # y
      BY <1>7, <3>1, <3>3
    <3> QED
      BY <3>2, <3>3
  <2> QED
    BY <2>2, <2>3 DEF TmaLands
<1>10. \A u \in Ops(body), m \in Int : Ran(u, m)' <=> Ran(u, m)
  BY <1>2 DEF Stays
<1>11. copies' = copies /\ dots' = dots
  BY <1>1
<1>12. GroupInv' /\ Landings' = Landings
  BY <1>2, <1>3, <1>10, <1>11, GroupQuiet
<1>13. CopySlots'
  BY <1>2, <1>3, <1>9, <1>11, <1>12, CopySlotsTmaLand
<1>14. TmaSlots'
  BY <1>2, <1>3, <1>9, TmaSlotLand
<1>15. FlyInv'
  BY <1>2, <1>3, <1>4, <1>9, FlyTmaLand
<1>16. BarrierInv'
  BY <1>2, <1>3, <1>4, <1>9, BarrierTmaLand
<1>17. MemShape'
  <2>1. b = [z \in DOMAIN b |-> [turns |-> b[z].turns, owed |-> b[z].owed]]
    BY <1>3, <1>5, ShapeWithin
  <2>2. \A z \in DOMAIN b : c[z] = [turns |-> c[z].turns, owed |-> c[z].owed]
    <3>1. TAKE z \in DOMAIN b
    <3>2. CASE z # y
      BY <1>7, <2>1, <3>2
    <3>3. CASE z = y
      BY <1>7, <3>3
    <3> QED
      BY <3>2, <3>3
  <2>3. c = [z \in DOMAIN b |-> [turns |-> c[z].turns, owed |-> c[z].owed]]
    BY <1>7, <2>2
  <2>4. tma' = [flying |-> tma'.flying, barrier |-> tma'.barrier]
    BY <1>6, <1>8
  <2>5. tma'.barrier = [z \in DOMAIN tma.barrier |-> [turns |-> tma'.barrier[z].turns, owed |-> tma'.barrier[z].owed]]
    BY <1>5, <1>8, <2>3
  <2>6. slot' = [x \in DOMAIN slot |-> slot'[x]]
    BY <1>1 DEF Landed
  <2> QED
    BY <1>2, <1>3, <1>11, <2>4, <2>5, <2>6, ShapeWithin, MemShapeAfter
<1> QED
  BY <1>2, <1>12, <1>13, <1>14, <1>15, <1>16, <1>17 DEF LoopInv, FlightInv, SlotInv

LEMMA LoopInvStep ==
  ASSUME SoundProgram, LoopInv, [Next]_vars
  PROVE  LoopInv'
<1>1. CASE Run
  BY <1>1, CopyStepKeeps, CommitStepKeeps, WaitStepKeeps, ExpectStepKeeps, TmaCopyStepKeeps, TmaWaitStepKeeps,
     DotStep, DotWaitedKeeps, IfStep, ComputeStep, EnterKeeps, NextTurnKeeps, LeaveKeeps DEF Run
<1>2. CASE Hardware
  BY <1>2, LandKeeps, TmaLandKeeps, RetireKeeps DEF Hardware
<1>3. CASE Done \/ UNCHANGED vars
  BY <1>3, StutterKeeps DEF Done
<1> QED
  BY <1>1, <1>2, <1>3 DEF Next

-----------------------------------------------------------------------------
(***************************************************************************)
(* The invariant holds at first, and what follows from it.                 *)
(***************************************************************************)
LEMMA InitFacts ==
  ASSUME SoundProgram, Init
  PROVE  PosInv /\ MemShape /\ part = "prologue" /\ pos.i = 1
<1>1. part = "prologue" /\ pos = [i |-> 1, turn |-> 0] /\ trip \in Nat
  BY TripAssumption DEF Init
<1>2. Len(prog.prologue) \in Nat
  BY DEF SoundProgram, SoundSchedule, PrologueIsComplete
<1>3. PosInv
  BY <1>1, <1>2 DEF PosInv
<1>4. copies = [open |-> {}, groups |-> <<>>] /\ dots = <<>>
  BY DEF Init
<1>5. Len(<<>>) = 0 /\ <<>> = [i \in 1..0 |-> <<>>[i]]
  OBVIOUS
<1>6. copies.groups = <<>> /\ copies = [open |-> copies.open, groups |-> copies.groups]
  BY <1>4
<1>7. /\ Len(copies.groups) \in Nat /\ copies.groups = [i \in 1..Len(copies.groups) |-> copies.groups[i]]
      /\ Len(dots) \in Nat /\ dots = [i \in 1..Len(dots) |-> dots[i]]
  BY <1>4, <1>5, <1>6
<1>8. slot = [x \in Buffers({Tag(l) : l \in ToSet(prog.loads)}) |-> slot[x]]
  BY DEF Init
<1>9. PICK D : D = Buffers({Tag(g[1]) : g \in ToSet(prog.groups)})
  OBVIOUS
<1>10. tma = [flying |-> {}, barrier |-> [x \in D |-> [turns |-> 0, owed |-> {}]]]
  BY <1>9 DEF Init
<1>11. /\ tma = [flying |-> tma.flying, barrier |-> tma.barrier]
       /\ tma.barrier = [x \in D |-> [turns |-> tma.barrier[x].turns, owed |-> tma.barrier[x].owed]]
  BY <1>10
<1>12. MemShape
  BY <1>6, <1>7, <1>8, <1>9, <1>11 DEF MemShape
<1> QED
  BY <1>1, <1>3, <1>12

\* At first nothing has run.
LEMMA NothingRan ==
  ASSUME SoundProgram, PosInv, part = "prologue", pos.i = 1, NEW o \in Ops(body), NEW k \in Nat
  PROVE  ~Ran(o, k)
<1>0. OrderIsKept /\ PrologueIsComplete
  BY DEF SoundProgram, SoundSchedule
<1>1. SUFFICES ASSUME Ran(o, k) PROVE FALSE
  OBVIOUS
<1>2. Before(Turn(o, k), Place(o), NowTurn, NowPlace)
  BY <1>1 DEF Ran, Reached
<1>3. Turn(o, k) \in Int /\ Place(o) \in Nat /\ Place(o) >= 1
  BY <1>0, TurnIs, Typed
<1>4. Len(prog.prologue) \in Nat
  BY <1>0 DEF PrologueIsComplete
<1>5. NowTurn \in Int /\ NowPlace \in Nat /\ (IsEarly => NowTurn < 0) /\ (~IsEarly => NowTurn = 0 /\ NowPlace = 1)
  BY <1>0, NowTyped
<1>6. Turn(o, k) < 0
  BY <1>2, <1>3, <1>5 DEF Before
<1>7. PICK j \in Early : prog.prologue[j].op = o /\ prog.prologue[j].it = k
  BY <1>0, <1>6, EarlyHas
<1>8. 1 \in Early /\ IsEarly
  BY <1>4, <1>7 DEF Early, IsEarly
<1>9. NowTurn = Turn(prog.prologue[1].op, prog.prologue[1].it) /\ NowPlace = Place(prog.prologue[1].op)
  BY <1>8 DEF NowTurn, NowPlace
<1>10. Before(Turn(prog.prologue[j].op, prog.prologue[j].it), Place(prog.prologue[j].op),
              Turn(prog.prologue[1].op, prog.prologue[1].it), Place(prog.prologue[1].op))
  BY <1>2, <1>7, <1>9
<1>11. j < 1
  BY <1>0, <1>8, <1>10, EarlyOrder
<1> QED
  BY <1>11 DEF Early

LEMMA FlowAtFirst ==
  ASSUME SoundProgram, Init
  PROVE  FlowInv
<1>1. PosInv /\ part = "prologue" /\ pos.i = 1
  BY InitFacts
<1>2. PICK v : v = [o \in Ops(body) |-> [k \in 0..prog.max |-> Wrong]]
  OBVIOUS
<1>3. env = [val |-> v]
  BY <1>2 DEF Init
<1>4. env = [val |-> env.val] /\ env.val = v
  BY <1>3
<1>5. v = [o \in Ops(body) |-> [k \in 0..prog.max |-> v[o][k]]]
  BY <1>2
<1>6. \A o \in Ops(body), k \in 0..prog.max : ~Ran(o, k)
  <2>1. prog.max \in Nat
    BY Typed DEF SoundProgram, SoundSchedule
  <2>2. \A k \in 0..prog.max : k \in Nat
    BY <2>1
  <2> QED
    BY <1>1, <2>2, NothingRan
<1> QED
  BY <1>1, <1>4, <1>5, <1>6 DEF FlowInv, EarlyFlow, KernelFlow

LEMMA FlightAtFirst ==
  ASSUME SoundProgram, Init
  PROVE  FlightInv
<1>1. PosInv /\ MemShape /\ part = "prologue" /\ pos.i = 1
  BY InitFacts
<1>2. copies = [open |-> {}, groups |-> <<>>] /\ tma.flying = {}
  BY DEF Init
<1>3. copies.open = {} /\ copies.groups = <<>> /\ Len(copies.groups) = 0
  BY <1>2
<1>4. \A o \in Ops(body), k \in Nat : ~Ran(o, k)
  BY <1>1, NothingRan
<1>5. Landings \in Nat
  <2>1. Committed \in Nat
    BY <1>1, CommittedTyped DEF SoundProgram, SoundSchedule
  <2> QED
    BY <1>3, <2>1 DEF Landings
<1>6. ASSUME NEW c \in Ops(body), NEW k \in Nat, NEW t \in Int, NEW i \in Steps, Kind(c) = "copy", LandsBy(c, k, t, i), Reached(t, i)
      PROVE  FALSE
  <2>1. PICK m : m = CommitOf(c)
    OBVIOUS
  <2>2. m \in Ops(body)
    BY <1>6, <2>1, CommitOfCopy
  <2>3. Before(Turn(m, k), Place(m), t, i) /\ Before(t, i, NowTurn, NowPlace)
    BY <1>6, <2>1 DEF LandsBy, Reached
  <2>4. Turn(m, k) \in Int /\ Place(m) \in Int /\ NowTurn \in Int /\ NowPlace \in Int /\ i \in Int
    BY <1>1, <2>2, TurnIs, NowTyped DEF SoundProgram, SoundSchedule, Steps
  <2>5. Before(Turn(m, k), Place(m), NowTurn, NowPlace)
    BY <2>3, <2>4, BeforeIsOrder
  <2>6. Ran(m, k)
    BY <2>5 DEF Ran, Reached
  <2> QED
    BY <1>4, <2>2, <2>6
<1>7. GroupInv
  <2>1. \A e \in copies.open : FALSE
    BY <1>3
  <2>2. \A i \in 1..Len(copies.groups) : FALSE
    BY <1>3
  <2>3. Landings >= 0
    BY <1>5
  <2>4. \A c \in Ops(body), k \in Nat, t \in Int, i \in Steps : Kind(c) = "copy" /\ LandsBy(c, k, t, i) /\ Reached(t, i) => FALSE
    BY <1>6
  <2> QED
    BY <2>1, <2>2, <2>3, <2>4 DEF GroupInv, Iterations, Turns
<1>8. CopySlots /\ TmaSlots
  BY <1>4 DEF CopySlots, TmaSlots, Current, Iterations
<1>9. FlyInv
  BY <1>2 DEF FlyInv
<1>10. BarrierInv
  <2>1. ASSUME NEW e \in Ops(body), NEW k \in Nat, Kind(e) = "expect"
        PROVE  ~Current(e, k) /\ tma.barrier[Buffer(Tag(e), k)].turns = 0
    <3>1. ~Current(e, k)
      BY <1>4 DEF Current
    <3>2. Buffer(Tag(e), k) \in DOMAIN tma.barrier
      BY <1>1, <2>1, BarrierAt
    <3>3. \A x \in DOMAIN tma.barrier : tma.barrier[x].turns = 0
      BY DEF Init
    <3> QED
      BY <3>1, <3>2, <3>3
  <2> QED
    BY <2>1 DEF BarrierInv, Iterations
<1> QED
  BY <1>7, <1>8, <1>9, <1>10 DEF FlightInv, SlotInv

LEMMA LoopInvInit ==
  ASSUME SoundProgram, Init
  PROVE  LoopInv
<1>1. PosInv /\ MemShape /\ part = "prologue"
  BY InitFacts
<1>2. DotsInv
  BY <1>1 DEF Init, DotsInv
<1>3. DidInv
  BY <1>1 DEF Init, DidInv
<1> QED
  BY <1>1, <1>2, <1>3, FlowAtFirst, FlightAtFirst DEF LoopInv

PipelineInv == ProgramOK /\ (SoundProgram => LoopInv)

LEMMA PipelineInvInit ==
  ASSUME Init
  PROVE  PipelineInv
BY LoopInvInit, ProgramInit DEF PipelineInv

LEMMA PipelineInvStep ==
  ASSUME PipelineInv, [Next]_vars
  PROVE  PipelineInv'
<1>1. UNCHANGED input
  BY StepKeepsInput
<1>2. SoundProgram' <=> SoundProgram
  BY <1>1, SoundStays
<1>3. SoundProgram => LoopInv'
  BY LoopInvStep DEF PipelineInv
<1>4. ProgramOK'
  BY <1>1, ProgramStep DEF PipelineInv
<1>5. PipelineInv' <=> ProgramOK' /\ (SoundProgram' => LoopInv')
  BY DEF PipelineInv
<1> QED
  BY <1>2, <1>3, <1>4, <1>5

LEMMA ResultsAreLast ==
  ASSUME SoundProgram, LoopInv
  PROVE  LongLoopResultsAreLast
<1>1. SUFFICES ASSUME part = "done", NEW o \in source.used, trip >= prog.max - prog.stage[o]
               PROVE  results[o] = trip - 1
  BY DEF LongLoopResultsAreLast
<1>2. o \in Ops(body)
  BY DEF SoundProgram, SoundSchedule, IndicesStandAlone
<1>3. prog.max \in Nat /\ prog.stage[o] \in Nat /\ prog.stage[o] <= prog.max
  BY <1>2, Typed DEF SoundProgram, SoundSchedule
<1>4. pos.turn = trip /\ trip \in Nat
  BY <1>1 DEF LoopInv, PosInv
<1>5. Latest(o) >= trip
  BY <1>3, <1>4 DEF Latest
<1> QED
  BY <1>1, <1>5 DEF LoopInv, FlowInv, KernelFlow

(***************************************************************************)
(* On a sound schedule a dot that is still in flight finds its buffers as  *)
(* they were when it was issued, however late copies land and dots retire: *)
(* the extra buffer of createAsyncOps is enough.                           *)
(***************************************************************************)
THEOREM SoundPipelinesKeepBuffers == Spec => [](SoundSchedule => DotsKeepTheirBuffers)
<1>1. PipelineInv => (SoundSchedule => DotsKeepTheirBuffers)
  BY SoundIsCarried, DotsKeep DEF PipelineInv, LoopInv, FlightInv
<1> QED
  BY <1>1, PipelineInvInit, PipelineInvStep, PTL DEF Spec

(***************************************************************************)
(* On a sound schedule what is used after the loop is the last iteration's *)
(* value, where the loop is long enough: the select of createKernel.       *)
(***************************************************************************)
THEOREM SoundPipelinesLeaveTheLast == Spec => [](SoundSchedule => LongLoopResultsAreLast)
<1>1. PipelineInv => (SoundSchedule => LongLoopResultsAreLast)
  BY SoundIsCarried, ResultsAreLast DEF PipelineInv
<1> QED
  BY <1>1, PipelineInvInit, PipelineInvStep, PTL DEF Spec
\* The step is that of an operation of the loop, with the value it computes.
Gives == \E kinds, refs : /\ At(kinds) /\ "dotwait" \notin kinds /\ Takes(refs)
                          /\ Give(Value(Instr, refs))

LEMMA StepGives ==
  ASSUME Copy \/ Commit \/ Wait \/ Expect \/ TmaCopy \/ TmaWait \/ Dot \/ If \/ Compute
  PROVE  Gives
<1>1. ASSUME NEW kinds, At(kinds), "dotwait" \notin kinds, Give(Value(Instr, Refs(body, Instr.op))) PROVE Gives
  BY <1>1, RefsAreTaken DEF Gives
<1>2. CASE Copy
  BY <1>1, <1>2 DEF Copy
<1>3. CASE Commit
  BY <1>1, <1>3 DEF Commit
<1>4. CASE Wait
  BY <1>1, <1>4 DEF Wait
<1>5. CASE Expect
  BY <1>1, <1>5 DEF Expect
<1>6. CASE TmaCopy
  BY <1>1, <1>6 DEF TmaCopy
<1>7. CASE TmaWait
  BY <1>1, <1>7 DEF TmaWait
<1>8. CASE Dot
  BY <1>1, <1>8 DEF Dot
<1>9. CASE Compute
  BY <1>1, <1>9 DEF Compute
<1>10. CASE If
  <2>1. PICK taken \in {TRUE, FALSE} :
        /\ taken /\ Instr.op \in prog.syncs => dots = <<>>
        /\ Give(Value(Instr, Refs(body, Instr.op) \cup (IF taken /\ Instr.on THEN body.inner[Instr.op] ELSE {})))
    BY <1>10 DEF If
  <2>2. PICK refs : refs = Refs(body, Instr.op) \cup (IF taken /\ Instr.on THEN body.inner[Instr.op] ELSE {})
    OBVIOUS
  <2>3. At({"if"}) /\ Give(Value(Instr, refs))
    BY <1>10, <2>1, <2>2 DEF If
  <2>4. Kind(Instr.op) = "if"
    BY <2>3 DEF At
  <2>5. refs \subseteq AllRefs(body, Instr.op)
    BY <2>2 DEF AllRefs
  <2>6. ASSUME Instr.op \in prog.syncs, dots # <<>> PROVE refs \subseteq Refs(body, Instr.op)
    BY <2>1, <2>2, <2>6
  <2>7. Takes(refs)
    BY <2>4, <2>5, <2>6 DEF Takes
  <2> QED
    BY <2>3, <2>7 DEF Gives
<1> QED
  BY <1>2, <1>3, <1>4, <1>5, <1>6, <1>7, <1>8, <1>9, <1>10

\* An effect is done in the turn of its iteration, when the others have started it or are about to.
LEMMA GivesRefine ==
  ASSUME SoundProgram, LoopInv, Gives
  PROVE  \/ UNCHANGED <<trip, did, part = "done">>
         \/ \E e \in DOMAIN did : Sequential!Effect(e)
<1>1. PICK kinds, refs : At(kinds) /\ "dotwait" \notin kinds /\ Takes(refs) /\ Give(Value(Instr, refs))
  BY DEF Gives
<1>2. PICK v : v = Value(Instr, refs)
  OBVIOUS
<1>3. At(kinds) /\ "dotwait" \notin kinds /\ Takes(refs) /\ Give(v)
  BY <1>1, <1>2
<1>4. /\ UNCHANGED input /\ part' = part /\ Right(Instr.op, Instr.it, v)
  BY <1>2, <1>3, GiveStep
<1>5. /\ Instr.op \notin Effects(source) => did' = did
      /\ Instr.op \in Effects(source) => did' = [did EXCEPT ![Instr.op] = @ + 1] /\ did[Instr.op] = pos.turn
  BY <1>3, <1>4, DidGive DEF LoopInv
<1>6. trip' = trip
  BY <1>4, InputSame
<1>7. CASE Instr.op \notin Effects(source)
  BY <1>4, <1>5, <1>6, <1>7
<1>8. CASE Instr.op \in Effects(source)
  <2>1. part = "kernel" /\ pos.turn < trip /\ pos.turn \in Nat
    BY <1>3, <1>8, EffectIsNow DEF LoopInv
  <2>2. DOMAIN did = Effects(source) /\ \A f \in DOMAIN did : did[f] = pos.turn + (IF Place(f) < pos.i THEN 1 ELSE 0)
    BY <2>1 DEF LoopInv, DidInv
  <2>3. \A f \in DOMAIN did : pos.turn <= did[f]
    BY <2>1, <2>2
  <2>4. Sequential!Effect(Instr.op)
    BY <1>4, <1>5, <1>6, <1>8, <2>1, <2>3 DEF Sequential!Effect
  <2> QED
    BY <1>8, <2>2, <2>4
<1> QED
  BY <1>7, <1>8

\* The loop is left when every effect is done for every iteration.
LEMMA LeaveRefines ==
  ASSUME SoundProgram, LoopInv, Leave
  PROVE  Sequential!Leave
<1>1. part = "kernel" /\ pos.turn = trip /\ part' = "done" /\ did' = did /\ trip' = trip
  BY DEF Leave, input
<1>2. pos.i \in Nat \ {0} /\ trip \in Nat /\ (pos.i > 1 => pos.turn < trip)
  BY <1>1 DEF LoopInv, PosInv
<1>3. pos.i = 1
  BY <1>1, <1>2
<1>4. ASSUME NEW e \in DOMAIN did PROVE did[e] = trip
  <2>1. e \in Effects(source) /\ did[e] = pos.turn + (IF Place(e) < pos.i THEN 1 ELSE 0)
    BY <1>1 DEF LoopInv, DidInv
  <2>2. Place(e) \in Nat /\ 1 <= Place(e)
    BY <2>1, EffectFacts
  <2> QED
    BY <1>1, <1>2, <1>3, <2>1, <2>2
<1> QED
  BY <1>1, <1>4 DEF Sequential!Leave

LEMMA StepRefines ==
  ASSUME SoundProgram, LoopInv, [Next]_vars
  PROVE  [Sequential!Next]_(Sequential!vars)
<1>1. CASE Copy \/ Commit \/ Wait \/ Expect \/ TmaCopy \/ TmaWait \/ Dot \/ If \/ Compute
  BY <1>1, StepGives, GivesRefine DEF Sequential!Next, Sequential!vars
<1>2. CASE Leave
  BY <1>2, LeaveRefines DEF Sequential!Next
<1>3. CASE DotWaited \/ EnterKernel \/ NextTurn \/ Hardware \/ Done \/ UNCHANGED vars
  <2>1. UNCHANGED input /\ did' = did /\ (part' = "done" <=> part = "done")
    BY <1>3 DEF DotWaited, EnterKernel, NextTurn, Hardware, Land, TmaLand, Retire, Done, vars
  <2>2. trip' = trip
    BY <2>1, InputSame
  <2> QED
    BY <2>1, <2>2 DEF Sequential!vars
<1> QED
  BY <1>1, <1>2, <1>3 DEF Next, Run

LEMMA InitRefines ==
  ASSUME Init
  PROVE  Sequential!Init
<1>1. trip \in Nat
  BY TripAssumption DEF Init
<1>2. did = [e \in DOMAIN did |-> 0]
  BY DEF Init
<1>3. (part = "done") = FALSE
  BY DEF Init
<1> QED
  BY <1>1, <1>2, <1>3 DEF Sequential!Init

(***************************************************************************)
(* On a sound schedule every step of the pipelined program is a step of    *)
(* the loop, or none: each effect once an iteration, in order, with the    *)
(* values of that iteration, whatever the number of iterations and         *)
(* whenever copies land and dots retire; and the loop is left only when    *)
(* all of it is done.                                                      *)
(***************************************************************************)
THEOREM SoundPipelinesImplementTheLoop ==
  Spec => (SoundSchedule => Sequential!Init /\ [][Sequential!Next]_(Sequential!vars))
<1>1. Init /\ SoundSchedule => SoundProgram /\ LoopInv
  BY LoopInvInit, ProgramInit, SoundIsCarried
<1>2. SoundProgram /\ LoopInv /\ [Next]_vars => SoundProgram' /\ LoopInv'
  BY LoopInvStep, StepKeepsInput, SoundStays
<1>3. SoundProgram /\ LoopInv /\ [Next]_vars => [Sequential!Next]_(Sequential!vars)
  BY StepRefines
<1> QED
  BY <1>1, <1>2, <1>3, InitRefines, PTL DEF Spec
=============================================================================
