------------------------------ MODULE Pipeliner ------------------------------
(***************************************************************************)
(* A loop as the software pipeliner leaves it, run on a GPU whose copies   *)
(* into shared memory and whose Hopper dots end some time after they were  *)
(* issued.  The value of an operation is the number of the iteration whose *)
(* value it is, or Wrong: a value is right if every operand and every      *)
(* buffer it was computed from was.                                        *)
(***************************************************************************)
EXTENDS PipelineSchedule

CONSTANTS Loops,       \* the loops as they come to the pass, by name
          StageCounts, \* values of num_stages
          MaxTrip      \* the most iterations run

ASSUME StageCountsAssumption == StageCounts \subseteq Nat \ {0, 1}
ASSUME TripAssumption == MaxTrip \in Nat

\* The stages of a schedule are numbers.
ASSUME StagesAssumption ==
    \A n \in DOMAIN Loops, k \in StageCounts :
        LET P == pipelineLoop(Loops[n], k)
        IN  P.max \in Nat /\ \A o \in Ops(P.loop) : P.stage[o] \in Nat

VARIABLES name, numStages, trip,  \* the loop, and what it is asked to do
          prog,     \* the program the pass makes of it
          part,     \* the part of the program that runs
          pos,      \* its next instruction, and the kernel's turn
          env,      \* the values of the program
          slot,     \* shared memory: per load, the buffers
          copies,   \* asynchronous copies: the open group, and the groups in flight
          tma,      \* bulk copies in flight, and the barriers of their groups
          dots,     \* Hopper dots in flight, oldest first
          did,      \* per effect, the iterations it was done for; Wrong once it was wrong
          results   \* what the operations used after the loop have left

input == <<name, numStages, trip, prog>>
memory == <<slot, copies, tma, dots>>
vars == <<input, part, pos, env, memory, did, results>>

source == Loops[name]
body == prog.loop

Wrong == -9
None == [none |-> TRUE]
Effects(L) == {o \in Ops(L) : Kind(o) \in {"store", "dot"} \/ (Kind(o) = "if" /\ "effect" \in L.marks[o])}
Buffers(tags) == tags \X (0..(prog.buffers - 1))

\* The compiler does not survive a dot with a null iterArg, so no program runs.
Init == /\ name \in DOMAIN Loops /\ numStages \in StageCounts /\ trip \in 0..MaxTrip
        /\ prog = pipelineLoop(source, numStages)
        /\ prog.pipelined => \A d \in Ops(body) : ~NullIterArg(body, d)
        /\ part = "prologue"
        /\ pos = [i |-> 1, turn |-> 0]
        /\ env = [val |-> [o \in Ops(body) |-> [k \in 0..prog.max |-> Wrong]]]
        /\ slot = [x \in Buffers({Tag(l) : l \in ToSet(prog.loads)}) |-> None]
        /\ dots = <<>>
        /\ copies = [open |-> {}, groups |-> <<>>]
        /\ tma = [flying |-> {},
                  barrier |-> [x \in Buffers({Tag(g[1]) : g \in ToSet(prog.groups)}) |-> [turns |-> 0, owed |-> {}]]]
        /\ did = [e \in Effects(source) |-> 0]
        /\ results = None

(***************************************************************************)
(* The program.  The prologue names each version of a value; the kernel    *)
(* has the loop's arguments, those added for values of earlier stages, and *)
(* what this turn has computed.  A step that is not for an iteration of    *)
(* the loop is off, unless the bounds were constants: the iterations are   *)
(* compared with the largest stage before the schedule was read.           *)
(***************************************************************************)
StaticLoop == FALSE
DynamicLoop == ~source.const \/ trip = 0
Version(r, k) == IF r.dist = 0 THEN env.val[r.def][k] ELSE IF k = 0 THEN -1 ELSE env.val[r.def][k - 1]
Code == IF part = "prologue" THEN prog.prologue ELSE prog.kernel

Instr ==
    IF part = "prologue"
    THEN LET p == prog.prologue[pos.i]
         IN  [op |-> p.op, it |-> p.it, on |-> DynamicLoop => p.it < trip, wait |-> prog.waits.prologue[pos.i]]
    ELSE LET o == prog.kernel[pos.i]
             behind == IF o \in Ops(body) THEN prog.max - prog.stage[o] ELSE 0
         IN  [op |-> o, it |-> pos.turn + behind, on |-> behind = 0 \/ pos.turn < trip - behind,
              wait |-> prog.waits.kernel[pos.i]]

Operand(ins, r) ==
    LET s == prog.stage[ins.op]
        d == prog.stage[r.def]
    IN  IF part = "prologue" THEN Version(r, ins.it)
        ELSE IF r.dist = 1 /\ d = s THEN env.arg[r.def]
        ELSE IF d = s + r.dist THEN env.cur[r.def]
        ELSE env.carry[r][s - d]

Buffer(l, n) == <<l, n % prog.buffers>>

\* An operand is good if it is the right iteration's, if the buffer it names is full of it,
\* and if it is no dot in flight, whichever ifs have handed it on, unless another dot
\* accumulates onto it or an if hands it on.
HandsOn(o, r) == OnlyYields(body, o) /\ r \notin Refs(body, o)
Good(ins, r) ==
    /\ Operand(ins, r) = ins.it - r.dist
    /\ Kind(r.def) = "view" => /\ slot[Buffer(Tag(r.def), ins.it)] # None
                               /\ slot[Buffer(Tag(r.def), ins.it)].it = ins.it
                               /\ slot[Buffer(Tag(r.def), ins.it)].landed
    /\ (\E i \in DOMAIN dots : dots[i].it = ins.it - r.dist /\ r.def \in prog.flow[dots[i].op])
          => HandsOn(ins.op, r) \/ (IsHopper(body, ins.op) /\ r = Last(body.args[ins.op]))
Value(ins, refs) == IF \A r \in refs : Good(ins, r) THEN ins.it ELSE Wrong

At(kinds) == /\ part \in {"prologue", "kernel"} /\ pos.i <= Len(Code)
             /\ part = "kernel" => pos.turn < trip
             /\ Kind(Instr.op) \in kinds
Give(v) ==
    LET ins == Instr IN
    /\ env' = IF part = "prologue" THEN [env EXCEPT !.val[ins.op][ins.it] = v]
              ELSE IF ins.op \in Ops(body) THEN [env EXCEPT !.cur[ins.op] = v] ELSE env
    /\ pos' = [pos EXCEPT !.i = @ + 1]
    /\ did' = IF ins.op \in DOMAIN did /\ ins.on
              THEN [did EXCEPT ![ins.op] = IF v = ins.it /\ @ = ins.it THEN @ + 1 ELSE Wrong] ELSE did
    /\ UNCHANGED <<input, part, results>>

\* A copy whose mask is off fills its buffer with zeros; a bulk copy that is off does nothing.
Copy == LET ins == Instr
            v == Value(ins, Refs(body, ins.op))
            x == Buffer(Tag(ins.op), Operand(ins, Ref(Insert)))
        IN  /\ At({"copy"}) /\ Give(v)
            /\ slot' = [slot EXCEPT ![x] = [it |-> v, landed |-> FALSE, read |-> ins.on]]
            /\ copies' = [copies EXCEPT !.open = @ \cup {[at |-> x, it |-> v, read |-> ins.on]}]
            /\ UNCHANGED <<tma, dots>>
Commit == /\ At({"commit"}) /\ Give(Value(Instr, Refs(body, Instr.op)))
          /\ copies' = [open |-> {}, groups |-> Append(copies.groups, copies.open)]
          /\ UNCHANGED <<slot, tma, dots>>
Wait == /\ At({"wait"}) /\ Give(Value(Instr, Refs(body, Instr.op)))
        /\ Instr.wait # NoWait => Len(copies.groups) <= Instr.wait
        /\ UNCHANGED memory
Landed(cs) == [x \in DOMAIN slot |-> IF \E c \in cs : c.at = x
                  THEN LET c == CHOOSE d \in cs : d.at = x IN [it |-> c.it, landed |-> TRUE, read |-> c.read]
                  ELSE slot[x]]
Land == /\ copies.groups # <<>>
        /\ slot' = Landed(Head(copies.groups))
        /\ copies' = [copies EXCEPT !.groups = Tail(@)]
        /\ UNCHANGED <<input, part, pos, env, tma, dots, did, results>>

GroupOf(l) == Tag((CHOOSE g \in ToSet(prog.groups) : <<"tma", l>> \in ToSet(g))[1])
Expect == LET ins == Instr
              y == Buffer(Tag(ins.op), Operand(ins, Ref(Insert)))
              owed == {l \in {Tag(o) : o \in ToSet(prog.loads)} : <<"tma", l>> \in ToSet(prog.loads) /\ GroupOf(l) = Tag(ins.op)}
          IN  /\ At({"expect"}) /\ Give(Value(ins, Refs(body, ins.op)))
              /\ tma' = IF ins.on THEN [tma EXCEPT !.barrier[y].owed = owed] ELSE tma
              /\ UNCHANGED <<slot, copies, dots>>
TmaCopy == LET ins == Instr
               v == Value(ins, Refs(body, ins.op))
               n == Operand(ins, Ref(Insert))
               x == Buffer(Tag(ins.op), n)
           IN  /\ At({"tmacopy"}) /\ Give(v)
               /\ slot' = IF ins.on THEN [slot EXCEPT ![x] = [it |-> v, landed |-> FALSE, read |-> TRUE]] ELSE slot
               /\ tma' = IF ~ins.on THEN tma
                         ELSE [tma EXCEPT !.flying = @ \cup {[at |-> x, it |-> v, read |-> TRUE,
                                                             barrier |-> Buffer(GroupOf(Tag(ins.op)), n)]}]
               /\ UNCHANGED <<copies, dots>>
TmaLand == \E c \in tma.flying :
    LET left == tma.barrier[c.barrier].owed \ {c.at[1]} IN
    /\ slot' = Landed({c})
    /\ tma' = [flying |-> tma.flying \ {c},
               barrier |-> [tma.barrier EXCEPT ![c.barrier] =
                              [turns |-> IF left = {} THEN @.turns + 1 ELSE @.turns, owed |-> left]]]
    /\ UNCHANGED <<input, part, pos, env, copies, dots, did, results>>
\* A wait for a parity passes when the turn of that parity is complete.
TmaWait == LET ins == Instr
               y == Buffer(Tag(ins.op), Operand(ins, Ref(Extract)))
               parity == (Operand(ins, Ref(Phase)) \div prog.buffers) % 2
           IN  /\ At({"twait"}) /\ Give(Value(ins, Refs(body, ins.op)))
               /\ tma.barrier[y].turns % 2 # parity
               /\ UNCHANGED memory

Dot == LET ins == Instr
           v == Value(ins, Refs(body, ins.op))
           reads == {Buffer(Tag(r.def), ins.it) : r \in {q \in Refs(body, ins.op) : Kind(q.def) = "view"}}
       IN  /\ At({"dot"}) /\ Give(v)
           /\ dots' = IF prog.pipelined /\ IsHopper(body, ins.op)
                      THEN Append(dots, [op |-> ins.op, it |-> ins.it, reads |-> reads]) ELSE dots
           /\ UNCHANGED <<slot, copies, tma>>
DotWaited == /\ At({"dotwait"})
             /\ Len(dots) <= (IF Instr.op = DotWaitSome THEN Len(prog.async) ELSE 0)
             /\ pos' = [pos EXCEPT !.i = @ + 1]
             /\ UNCHANGED <<input, part, env, memory, did, results>>
Retire == /\ dots # <<>> /\ dots' = Tail(dots)
          /\ UNCHANGED <<input, part, pos, env, slot, copies, tma, did, results>>

\* An if may be taken or not; one that begins with a wait waits only when it is taken.
If == LET ins == Instr IN
      /\ At({"if"})
      /\ \E taken \in {TRUE, FALSE} :
           /\ taken /\ ins.op \in prog.syncs => dots = <<>>
           /\ Give(Value(ins, Refs(body, ins.op) \cup (IF taken /\ ins.on THEN body.inner[ins.op] ELSE {})))
      /\ UNCHANGED memory
Compute == /\ At({"arith", "idx", "view", "lload", "alloc", "load", "tma", "store"})
           /\ Give(Value(Instr, Refs(body, Instr.op)))
           /\ UNCHANGED memory

EnterKernel ==
    /\ part = "prologue" /\ pos.i > Len(prog.prologue) /\ part' = "kernel"
    /\ pos' = [i |-> 1, turn |-> 0]
    /\ env' = [cur |-> [o \in Ops(body) |-> Wrong],
               arg |-> [o \in Ops(body) |-> Version(Prev(o), prog.max - prog.stage[o])],
               carry |-> [r \in DOMAIN prog.spans |->
                            [j \in 1..prog.spans[r] |-> Version(r, prog.max - prog.stage[r.def] - j)]]]
    /\ UNCHANGED <<input, memory, did, results>>

\* The yield.  The arguments of values of earlier stages shift by one; a value used after the
\* loop keeps its last version once its stage is past the end.
NeverPast(o) == FALSE
Past(o) == o \in source.used /\ prog.stage[o] < prog.max /\ pos.turn >= trip - (prog.max - prog.stage[o])
NextTurn ==
    LET Of(r) == IF r.dist = 0 THEN env.cur[r.def] ELSE env.arg[r.def]
    IN  /\ part = "kernel" /\ pos.i > Len(prog.kernel)
        /\ pos' = [i |-> 1, turn |-> pos.turn + 1]
        /\ env' = [cur |-> [o \in Ops(body) |-> Wrong],
                   arg |-> [o \in Ops(body) |-> IF Past(o) THEN env.arg[o] ELSE env.cur[o]],
                   carry |-> [r \in DOMAIN prog.spans |-> [j \in 1..prog.spans[r] |->
                                IF j = 1 THEN Of(r) ELSE env.carry[r][j - 1]]]]
        /\ UNCHANGED <<input, part, memory, did, results>>

\* After the loop: a wait for every copy and for every dot, and the buffers are freed.
Leave == /\ part = "kernel" /\ pos.turn = trip /\ part' = "done"
         /\ copies.groups = <<>> /\ dots = <<>>
         /\ results' = [o \in source.used |-> env.arg[o]]
         /\ UNCHANGED <<input, pos, env, memory, did>>

Run == \/ Copy \/ Commit \/ Wait \/ Expect \/ TmaCopy \/ TmaWait \/ Dot \/ DotWaited
       \/ If \/ Compute \/ EnterKernel \/ NextTurn \/ Leave
Hardware == Land \/ TmaLand \/ Retire
Done == part = "done" /\ UNCHANGED vars
Next == Run \/ Hardware \/ Done

\* The program runs on, and whatever was issued ends.
Spec == Init /\ [][Next]_vars /\ WF_vars(Run) /\ WF_vars(Hardware)

(***************************************************************************)
(* When a schedule is sound.  An operation runs for iteration k in turn    *)
(* Turn(o, k) of the kernel, at its place; the turns before the first are  *)
(* the prologue.  All this is of the program that the pass made, before it *)
(* runs; what is asked for every k is asked up to the largest stage, from  *)
(* where every turn is like the one before.                                *)
(***************************************************************************)
Steps == 1..Len(prog.kernel)
Early == 1..Len(prog.prologue)
Place(o) == Position(prog.kernel, o)
Turn(o, k) == k + prog.stage[o] - prog.max
Before(t, i, u, j) == t < u \/ (t = u /\ i < j)
\* o, for an iteration, runs before u does for the one that comes `later` after it.
Precedes(o, later, u) == Before(prog.stage[o], Place(o), prog.stage[u] + later, Place(u))

\* Operations run after those they need (verifySchedule).
OrderIsKept ==
    /\ prog.max \in Nat /\ Len(prog.kernel) \in Nat \ {0}
    /\ \A o \in Ops(body) : prog.stage[o] \in 0..prog.max /\ Place(o) \in Steps /\ prog.kernel[Place(o)] = o
    /\ \A i \in Steps : IF Kind(prog.kernel[i]) = "dotwait" THEN prog.kernel[i] \notin Ops(body)
                        ELSE prog.kernel[i] \in Ops(body) /\ Place(prog.kernel[i]) = i
    /\ \A o \in Ops(body) : \A r \in AllRefs(body, o) :
          r.def \in Ops(body) /\ r.dist \in {0, 1} /\ Precedes(r.def, r.dist, o)

\* The prologue is all that belongs to turns before the first, in order (emitPrologue).
PrologueIsComplete ==
    LET Op(j) == prog.prologue[j].op
        It(j) == prog.prologue[j].it
    IN  /\ Len(prog.prologue) \in Nat
        /\ \A j \in Early : Op(j) \in Ops(body) /\ It(j) \in Nat /\ Turn(Op(j), It(j)) < 0
        /\ \A i, j \in Early : i < j => Before(Turn(Op(i), It(i)), Place(Op(i)), Turn(Op(j), It(j)), Place(Op(j)))
        /\ \A o \in Ops(body), k \in 0..prog.max : Turn(o, k) < 0 => \E j \in Early : Op(j) = o /\ It(j) = k

\* The kernel's arguments reach back as far as values are used (analyzeCrossStageValues).
ValuesAreCarried ==
    /\ \A r \in DOMAIN prog.spans : /\ r.def \in Ops(body) /\ r.dist \in {0, 1}
                                    /\ prog.spans[r] \in 0..(prog.max - prog.stage[r.def])
    /\ \A o \in Ops(body) : \A r \in AllRefs(body, o) :
          LET gap == prog.stage[o] - prog.stage[r.def]
          IN  gap \notin {0, -r.dist} => r \in DOMAIN prog.spans /\ gap <= prog.spans[r]

\* Counters of the ring depend on nothing else, and effects are not predicated away.
IndicesStandAlone ==
    /\ source.used \subseteq {o \in Ops(body) : Kind(o) # "idx"}
    /\ \A o \in Ops(body) : Kind(o) = "idx" => \A r \in Refs(body, o) : Kind(r.def) = "idx"
EffectsComeLast ==
    Effects(source) \subseteq {o \in Ops(body) : prog.stage[o] = prog.max}

\* A view is of a buffer that one kind of copy fills, and the ring is long enough for those
\* who read it (numBuffers).
IsFill(o) == o \in Ops(body) /\ Kind(o) \in {"copy", "tmacopy"}
Readers(t) == {o \in Ops(body) : \E r \in AllRefs(body, o) : Kind(r.def) = "view" /\ Tag(r.def) = t}
RingIsLongEnough ==
    /\ \A o \in Ops(body) : \A r \in AllRefs(body, o) : Kind(r.def) = "view" =>
          r.dist = 0 /\ \E c \in Ops(body) : IsFill(c) /\ Tag(c) = Tag(r.def)
    /\ \A c \in Ops(body) : IsFill(c) =>
          /\ prog.buffers \in Nat \ {0}
          /\ Tag(c) \in {Tag(l) : l \in ToSet(prog.loads)} /\ Ref(Insert) \in Refs(body, c)
          /\ \A d \in Ops(body) : IsFill(d) /\ Tag(d) = Tag(c) => d = c
          /\ \A u \in Readers(Tag(c)) : Precedes(u, prog.buffers, c)

\* The wait at place i of turn t lets the copies of iteration k land: no more groups may be
\* left than were committed since (updateWaits).
CommitOf(c) == <<"commit", Tag(c)>>
IsCommit(o) == Kind(o) = "commit"
EarlyCommits(t, i) == {j \in Early : /\ IsCommit(prog.prologue[j].op)
                                     /\ Before(Turn(prog.prologue[j].op, prog.prologue[j].it),
                                               Place(prog.prologue[j].op), t, i)}
KernelCommits(i) == {j \in 1..(i - 1) : IsCommit(prog.kernel[j])}
CommitsBefore(t, i) ==
    IF t < 0 THEN Cardinality(EarlyCommits(t, i))
    ELSE Cardinality(EarlyCommits(0, 1)) + t * Cardinality(KernelCommits(Len(prog.kernel) + 1))
           + Cardinality(KernelCommits(i))
CommitNumber(c, k) == 1 + CommitsBefore(Turn(CommitOf(c), k), Place(CommitOf(c)))
GroupsLeft(t, i) ==
    IF t >= 0 THEN prog.waits.kernel[i]
    ELSE prog.waits.prologue[CHOOSE j \in Early : /\ prog.prologue[j].op = prog.kernel[i]
                                                  /\ Turn(prog.prologue[j].op, prog.prologue[j].it) = t]
LandsBy(c, k, t, i) ==
    /\ i \in Steps /\ Kind(prog.kernel[i]) = "wait" /\ t >= Turn(prog.kernel[i], 0)
    /\ GroupsLeft(t, i) \in Nat
    /\ Before(Turn(CommitOf(c), k), Place(CommitOf(c)), t, i)
    /\ CommitNumber(c, k) + GroupsLeft(t, i) <= CommitsBefore(t, i)
LandsInTime(c, k, t, i) ==
    /\ LandsBy(c, k, t, i)
    /\ \A u \in Readers(Tag(c)) : Before(t, i, Turn(u, k), Place(u))
    /\ Before(t, i, Turn(c, k + prog.buffers), Place(c))
CopiesLand ==
    \A c \in Ops(body) : Kind(c) = "copy" =>
        /\ CommitOf(c) \in Ops(body) /\ Precedes(c, 0, CommitOf(c))
        /\ \A k \in 0..prog.max : \E t \in (-prog.max)..prog.max, i \in Steps : LandsInTime(c, k, t, i)

\* A barrier expects its bulk copies before they are issued, they are waited for before they
\* are read, and it is not used again before that (createTMABarrierAndWait).
ExpectOf(c) == <<"expect", GroupOf(Tag(c))>>
WaitOf(e) == <<"twait", Tag(e)>>
Owed(g) == {l \in {Tag(o) : o \in ToSet(prog.loads)} : <<"tma", l>> \in ToSet(prog.loads) /\ GroupOf(l) = g}
BulkCopiesLand ==
    /\ \A e \in Ops(body) : Kind(e) = "expect" =>
          /\ e = <<"expect", Tag(e)>> /\ Tag(e) \in {Tag(g[1]) : g \in ToSet(prog.groups)}
          /\ WaitOf(e) \in Ops(body) /\ Precedes(e, 0, WaitOf(e)) /\ Precedes(WaitOf(e), prog.buffers, e)
          /\ prog.buffers \in Nat \ {0} /\ Owed(Tag(e)) # {} /\ Ref(Insert) \in Refs(body, e)
    /\ \A c \in Ops(body) : Kind(c) = "tmacopy" =>
          /\ ExpectOf(c) \in Ops(body) /\ Tag(c) \in Owed(GroupOf(Tag(c)))
          /\ Precedes(ExpectOf(c), 0, c) /\ Precedes(c, 0, WaitOf(ExpectOf(c)))
          /\ \A u \in Readers(Tag(c)) : Precedes(WaitOf(ExpectOf(c)), 0, u)
    /\ \A w \in Ops(body) : Kind(w) = "twait" => {Ref(Extract), Ref(Phase)} \subseteq Refs(body, w)

\* A dot in flight is of the last stage; a wait lets it retire before its buffers are filled
\* again and before its result is used, unless the use accumulates onto it, hands it on or
\* begins with a wait of its own (asyncLaunchDots).
IsAsync(o) == prog.pipelined /\ IsHopper(body, o)
KernelDots(i) == {j \in 1..(i - 1) : IsAsync(prog.kernel[j])}
DotsBefore(t, i) == t * Cardinality(KernelDots(Len(prog.kernel) + 1)) + Cardinality(KernelDots(i))
DotsLeft(i) == IF prog.kernel[i] = DotWaitSome THEN Len(prog.async) ELSE 0
RetiresBy(d, k, t, i) ==
    /\ i \in Steps /\ Kind(prog.kernel[i]) = "dotwait" /\ Before(k, Place(d), t, i)
    /\ 1 + DotsBefore(k, Place(d)) + DotsLeft(i) <= DotsBefore(t, i)
DotsRetire ==
    LET Retired(d, u, later) == \E t \in 0..(later + prog.max), i \in Steps :
            RetiresBy(d, 0, t, i) /\ Before(t, i, Turn(u, later), Place(u))
    IN  /\ Len(prog.async) \in Nat
        /\ \A d \in Ops(body) : IsAsync(d) =>
              /\ prog.stage[d] = prog.max
              /\ \A c \in Ops(body) : IsFill(c) /\ d \in Readers(Tag(c)) => Retired(d, c, prog.buffers)
        /\ \A o, d \in Ops(body) : \A r \in AllRefs(body, o) : IsAsync(d) /\ r.def \in prog.flow[d] =>
              \/ IsHopper(body, o) /\ r = Last(body.args[o])
              \/ Kind(o) = "if" /\ o \in prog.syncs /\ r \notin Refs(body, o)
              \/ HandsOn(o, r)
              \/ Retired(d, o, r.dist)

SoundSchedule ==
    /\ OrderIsKept /\ PrologueIsComplete /\ IndicesStandAlone /\ EffectsComeLast
    /\ RingIsLongEnough /\ CopiesLand /\ BulkCopiesLand /\ DotsRetire

(***************************************************************************)
(* What must hold.                                                         *)
(***************************************************************************)

\* The schedule the pass makes is sound, and so is what the kernel carries for it.
SchedulesAreSound == part = "prologue" /\ pos.i = 1 => SoundSchedule /\ ValuesAreCarried

\* The pipelined program does what the loop says (the replaceable body of lowerLoops and
\* pipelineForLoop): every effect once an iteration, in order, with that iteration's values.
Sequential == INSTANCE SequentialLoop WITH over <- (part = "done")
RefinesSequentialLoop == Sequential!Spec

\* A dot that is still in flight finds in its buffers what was there when it was issued: no
\* copy of a later iteration has been put there (the extra buffer of createAsyncOps).
DotsKeepTheirBuffers ==
    \A i \in DOMAIN dots : \A x \in dots[i].reads :
        slot[x] # None /\ slot[x].it = dots[i].it /\ slot[x].landed

\* Nothing is read from memory for an iteration past the end of the loop: the predicates of
\* emitPrologue and createKernel.
NothingBeyondTheLoop ==
    \A x \in DOMAIN slot : slot[x] # None /\ slot[x].read => slot[x].it < trip

\* What is used after the loop is the value of the last iteration, or of none: the select
\* of createKernel, for values of stages before the last, where the loop runs at least as
\* many times as the value's stage is from the last.
LongLoopResultsAreLast ==
    part = "done" => \A o \in source.used : trip >= prog.max - prog.stage[o] => results[o] = trip - 1
=============================================================================
