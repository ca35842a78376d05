-------------------------- MODULE PipelineSchedule --------------------------
(***************************************************************************)
(* The modulo schedule of a loop (lib/Dialect/TritonGPU/Transforms/        *)
(* Pipeliner/MatmulLoopPipeline.cpp): which loads become asynchronous      *)
(* copies into a ring of buffers, and the stage and the cluster of every   *)
(* operation of the rewritten body.                                        *)
(*                                                                         *)
(* An operation is <<kind, tag>>; a reference is [def, dist], the result   *)
(* of def in this iteration (dist 0) or, through the loop's arguments, in  *)
(* the one before (dist 1).  A loop is a record of                         *)
(*   ops     the body, in order,                                           *)
(*   args    per operation the references it takes, the accumulator of a   *)
(*           dot last,                                                     *)
(*   inner   per operation the references taken inside its region,         *)
(*   marks   per operation what the layouts say of it: "narrow" (less than *)
(*           four bytes a thread), "dotenc" (all users want one dot        *)
(*           operand encoding), "small" (less than an instruction's tile), *)
(*           "mixed" (its local allocs disagree), "leading" (a local alloc *)
(*           a Hopper dot can read in the load's order), "hopper"; of an   *)
(*           if, "passes" (its result is what it takes inside) and "works" *)
(*           (it does so on one branch only after an operation on it),     *)
(*   attr    whether the loop carries a num_stages attribute,              *)
(*   used    the operations whose last value is used after the loop,       *)
(*   const   whether its bounds are constants of type index.               *)
(***************************************************************************)
EXTENDS Integers, Sequences, FiniteSets, SequencesExt

Kind(op) == op[1]
Tag(op) == op[2]
Ops(L) == {L.ops[i] : i \in DOMAIN L.ops}
Refs(L, op) == ToSet(L.args[op])
Uses(L, op) == {u \in Ops(L) : \E r \in Refs(L, u) : r.def = op /\ r.dist = 0}
InnerUses(L, op) == {u \in Ops(L) : \E r \in L.inner[u] : r.def = op /\ r.dist = 0}
Carried(L, op) == \E u \in Ops(L) : \E r \in Refs(L, u) \cup L.inner[u] : r.def = op /\ r.dist = 1
IsLoad(op) == Kind(op) \in {"load", "tma"}
Position(s, x) == CHOOSE i \in DOMAIN s : s[i] = x

(***************************************************************************)
(* Loads a dot needs, with the number of loads in between and the use.     *)
(***************************************************************************)
\* Depth first from a root, the operations still to visit on a stack.
Dfs(L, root, acc) ==
    LET Edges == 1 + FoldLeft(LAMBDA n, o : n + Len(L.args[o]), 0, L.ops)
        Operands(v) == [i \in DOMAIN L.args[v.op] |->
                          [op |-> L.args[v.op][i].def, skip |-> L.args[v.op][i].dist # 0,
                           level |-> IF IsLoad(v.op) THEN v.level + 1 ELSE v.level,
                           use |-> IF IsLoad(v.op) THEN v.op ELSE v.use]]
        Visit(a, n) ==
          IF a.stack = <<>> THEN a
          ELSE LET v == Head(a.stack) IN
               IF v.skip \/ v.op \in a.seen \/ v.op \notin Ops(L) THEN [a EXCEPT !.stack = Tail(@)]
               ELSE [stack |-> Operands(v) \o Tail(a.stack),
                     seen |-> a.seen \cup {v.op},
                     found |-> IF IsLoad(v.op)
                               THEN Append(a.found, [load |-> v.op, level |-> v.level, use |-> v.use])
                               ELSE a.found]
        start == [op |-> root, skip |-> FALSE, level |-> 0, use |-> root]
        end == FoldLeft(Visit, acc @@ [stack |-> <<start>>], [n \in 1..Edges |-> n])
    IN  [seen |-> end.seen, found |-> end.found]

loadOpsToIndirectionLevelAndUse(L) ==
    LET FromDot(a, op) == IF Kind(op) = "dot" THEN Dfs(L, op, [a EXCEPT !.seen = {}]) ELSE a
        dots == FoldLeft(FromDot, [seen |-> {}, found |-> <<>>], L.ops)
        FromAny(a, op) == IF IsLoad(op) THEN a ELSE Dfs(L, op, a)
    IN  (IF L.attr THEN FoldLeft(FromAny, dots, L.ops) ELSE dots).found

\* A load read by one Hopper dot operand, in place: its only use is such a local alloc.
loadIsMMAv3(L, load) ==
    \E a \in Ops(L) : Uses(L, load) = {a} /\ InnerUses(L, load) = {} /\ ~Carried(L, load)
                      /\ Kind(a) = "alloc" /\ "leading" \in L.marks[a]

(***************************************************************************)
(* The loads worth a buffer, and how each is read.  The order of the list  *)
(* matters: a load whose use is a load is kept only if its use was.        *)
(***************************************************************************)
assignMemoryLayouts(L, found) ==
    LET ForDot(f) == /\ Kind(f.use) = "dot"
                     /\ \/ loadIsMMAv3(L, f.load) \/ Kind(f.load) = "tma"
                        \/ "dotenc" \in L.marks[f.load]
        Generic(f) == /\ Kind(f.use) = "dot" => {"small", "hopper"} \cap (L.marks[f.load] \cup L.marks[f.use]) = {}
                      /\ "mixed" \notin L.marks[f.load]
        Fit(info, f) == /\ f.load \notin DOMAIN info
                        /\ Kind(f.load) = "load" => "narrow" \notin L.marks[f.load]
                        /\ Kind(f.use) = "load" => f.use \in DOMAIN info
                        /\ ForDot(f) \/ Generic(f)
        Add(info, f) ==
          IF ~Fit(info, f) THEN info
          ELSE (f.load :> [dot |-> Kind(f.use) = "dot",
                           v3 |-> Kind(f.use) = "dot" /\ loadIsMMAv3(L, f.load)]) @@ info
    IN  FoldLeft(Add, [l \in {} |-> {}], found)

(***************************************************************************)
(* The coarse schedule: a stage and a cluster for each operation placed so *)
(* far, and the clusters in the order in which they run.                   *)
(***************************************************************************)
EmptySchedule == [at |-> [o \in {} |-> <<0, 0>>], order |-> <<>>]
Put(S, op, stage, cluster) ==
    [S EXCEPT !.at = (op :> <<stage, cluster>>) @@ @]
insertIfAbsent(S, op, stage, cluster) == IF op \in DOMAIN S.at THEN S ELSE Put(S, op, stage, cluster)
Fresh(S) == Len(S.order) + 1
newAtFront(S) == [S EXCEPT !.order = <<Fresh(S)>> \o @]
newAtBack(S) == [S EXCEPT !.order = Append(@, Fresh(S))]
newBefore(S, c) == [S EXCEPT !.order = InsertAt(@, Position(@, c), Fresh(S))]
Rank(S, c) == Position(S.order, c)

getOpsInOrder(ops, S) ==
    FlattenSeq([i \in DOMAIN S.order |->
                  SelectSeq(ops, LAMBDA o : o \in DOMAIN S.at /\ S.at[o][2] = S.order[i])])

Closure(L, start, Step(_)) ==
    FoldLeft(LAMBDA X, o : X \cup UNION {Step(x) : x \in X}, start, L.ops)

\* What an operation needs and the schedule lacks, and what that needs, joins it.
insertDepsOfOp(L, S, op, stage, cluster, includeArg) ==
    LET Absent(x) == {r.def : r \in {q \in Refs(L, x) : (q.dist = 0 \/ includeArg)
                                                       /\ q.def \in Ops(L) \ DOMAIN S.at}}
        joining == Closure(L, Absent(op), Absent)
    IN  [S EXCEPT !.at = @ @@ [o \in joining |-> <<stage, cluster>>]]

(***************************************************************************)
(* Root uses go to the last stage and the first cluster, a load as many    *)
(* stages before as there are loads between it and them.                   *)
(***************************************************************************)
CeilDiv(a, b) == (a + b - 1) \div b
Kept(found, info) == SelectSeq(found, LAMBDA f : f.load \in DOMAIN info)
MaxLevel(kept) == CHOOSE m \in {kept[i].level : i \in DOMAIN kept} :
                     \A i \in DOMAIN kept : kept[i].level <= m

scheduleLoads(kept, numStages) ==
    LET top == MaxLevel(kept)
        gap == CeilDiv(numStages - 2, top + 1)
        root == newAtFront(EmptySchedule)
        Roots(s, f) == IF Kind(f.use) = "load" THEN s ELSE Put(s, f.use, numStages - 1, 1)
        AddCluster(s, i) == newAtBack(s)
        clusters == FoldLeft(AddCluster, FoldLeft(Roots, root, kept), [i \in 1..(top + 1) |-> i])
        Place(s, f) == Put(s, f.load, (top - f.level) * gap, f.level + 2)
    IN  FoldLeft(Place, clusters, kept)

distToUse(kept, S, load) ==
    LET mine == SelectSeq(kept, LAMBDA f : f.load = load)
    IN  S.at[mine[Len(mine)].use][1] - S.at[load][1]

numBuffersOfTheDistance(kept, info, S) ==
    LET dists == {distToUse(kept, S, l) : l \in DOMAIN info}
    IN  CHOOSE d \in dists : \A e \in dists : e <= d
numBuffers(kept, info, S) ==
    LET dists == {distToUse(kept, S, l) : l \in DOMAIN info}
    IN  (CHOOSE d \in dists : \A e \in dists : e <= d) + (IF \E l \in DOMAIN info : info[l].v3 THEN 1 ELSE 0)

(***************************************************************************)
(* The body with the loads made asynchronous.  A load becomes a copy, its  *)
(* commit, a wait on the commit's token and a view of the buffer, which a  *)
(* local load reads unless a Hopper dot reads it in place.  A TMA load     *)
(* becomes a copy that completes a barrier; loads that no use separates    *)
(* share one.  Two counters (and the parity to wait for) go round the ring.*)
(***************************************************************************)
Ref(d) == [def |-> d, dist |-> 0]
Prev(d) == [def |-> d, dist |-> 1]
Insert == <<"idx", "insert">>
Extract == <<"idx", "extract">>
Phase == <<"idx", "phase">>
Loads(kept) == FoldLeft(LAMBDA s, f : IF \E i \in DOMAIN s : s[i] = f.load THEN s ELSE Append(s, f.load), <<>>, kept)

tmaGroups(L, loads, info) ==
    LET Users(l) == IF ~info[l].v3 THEN Uses(L, l) \cup InnerUses(L, l) ELSE UNION {Uses(L, a) : a \in Uses(L, l)}
        Grow(a, o) ==
          IF a.closed \/ (\E l \in ToSet(a.group) : o \in Users(l)) \/ o \in a.visited
          THEN [a EXCEPT !.closed = TRUE]
          ELSE IF Kind(o) = "tma" /\ o \in DOMAIN info
          THEN [a EXCEPT !.group = Append(@, o), !.visited = @ \cup {o}] ELSE a
        Group(gs, l) ==
          LET seen == UNION {ToSet(gs[i]) : i \in DOMAIN gs} IN
          IF Kind(l) # "tma" \/ l \in seen THEN gs
          ELSE Append(gs, FoldLeft(Grow, [group |-> <<l>>, visited |-> seen \cup {l}, closed |-> FALSE],
                                   SubSeq(L.ops, Position(L.ops, l) + 1, Len(L.ops))).group)
    IN  FoldLeft(Group, <<>>, loads)

\* What stands in the body for a load: a copy with its commit and its wait, or a bulk copy;
\* then what reads the buffer.
Reads(l, info) == <<<<"view", Tag(l)>>>> \o (IF info[l].v3 THEN <<>> ELSE <<<<"lload", Tag(l)>>>>)
createAsyncCopy(l, info) ==
    <<<<"copy", Tag(l)>>, <<"commit", Tag(l)>>, <<"wait", Tag(l)>>>> \o Reads(l, info)
createTMAAsyncCopy(l, group, info) ==
    (IF l = group[1] THEN <<<<"expect", Tag(l)>>>> ELSE <<>>) \o <<<<"tmacopy", Tag(l)>>>>
    \o (IF l # Last(group) THEN <<>>
        ELSE <<<<"twait", Tag(group[1])>>>> \o FlattenSeq([i \in DOMAIN group |-> Reads(Reverse(group)[i], info)]))

asyncBody(L, loads, info, groups) ==
    LET kept == ToSet(loads)
        Dropped(o) == Kind(o) = "alloc" /\ \E r \in Refs(L, o) : r.def \in kept
        New(o) ==
          CASE o \in kept /\ Kind(o) = "load" -> createAsyncCopy(o, info)
            [] o \in kept /\ Kind(o) = "tma" ->
                 createTMAAsyncCopy(o, CHOOSE g \in ToSet(groups) : o \in ToSet(g), info)
            [] OTHER -> IF Dropped(o) THEN <<>> ELSE <<o>>
        Renamed(r) ==
          IF r.def \in kept THEN [r EXCEPT !.def = <<"lload", Tag(r.def)>>]
          ELSE IF r.def \in Ops(L) /\ Dropped(r.def)
          THEN [r EXCEPT !.def = <<"view", Tag((CHOOSE q \in Refs(L, r.def) : q.def \in kept).def)>>]
          ELSE r
        Old(o) == [i \in DOMAIN L.args[o] |-> Renamed(L.args[o][i])]
        Waited(t) == IF <<"load", t>> \in kept THEN <<Ref(<<"wait", t>>)>> ELSE <<>>
        Args(o) ==
          CASE o = Phase -> <<Prev(Phase), Prev(Extract)>>
            [] o \in {Insert, Extract} -> <<Prev(o)>>
            [] Kind(o) = "copy" -> <<Ref(Insert)>> \o Old(<<"load", Tag(o)>>)
            [] Kind(o) = "tmacopy" -> <<Ref(Insert)>> \o Old(<<"tma", Tag(o)>>)
            [] Kind(o) = "commit" -> <<Ref(<<"copy", Tag(o)>>)>>
            [] Kind(o) = "wait" -> <<Ref(<<"commit", Tag(o)>>)>>
            [] Kind(o) = "view" -> <<Ref(Extract)>>
            [] Kind(o) = "lload" -> <<Ref(<<"view", Tag(o)>>)>> \o Waited(Tag(o))
            [] Kind(o) = "expect" -> <<Ref(Insert)>>
            [] Kind(o) = "twait" -> <<Ref(Extract), Ref(Phase)>>
            [] OTHER -> Old(o)
        ops == <<Insert, Extract>> \o (IF groups = <<>> THEN <<>> ELSE <<Phase>>)
               \o FlattenSeq([i \in DOMAIN L.ops |-> New(L.ops[i])])
        OfOld(f, o) == IF o \in Ops(L) THEN f[o] ELSE {}
    IN  [L EXCEPT !.ops = ops,
                  !.args = [o \in ToSet(ops) |-> Args(o)],
                  !.inner = [o \in ToSet(ops) |-> {Renamed(r) : r \in OfOld(L.inner, o)}],
                  !.marks = [o \in ToSet(ops) |-> OfOld(L.marks, o)]]

\* The copies take the place of the loads; waits and views for a dot are prefetched one
\* stage before the last; the barriers expect in the stage of the first asynchronous load.
asyncSchedule(S, loads, info, groups, numStages) ==
    LET fetch == newAtBack(S)
        first == S.at[loads[1]]
        Expect(s, g) == Put(s, <<"expect", Tag(g[1])>>, first[1], first[2])
        Erase(s, l) == [s EXCEPT !.at = [o \in DOMAIN @ \ {l} |-> @[o]]]
        Copy(s, l) ==
          LET at == S.at[l] IN
          IF Kind(l) = "tma" THEN Put(Erase(s, l), <<"tmacopy", Tag(l)>>, at[1], at[2])
          ELSE LET s1 == Put(Put(Erase(s, l), <<"copy", Tag(l)>>, at[1], at[2]), <<"commit", Tag(l)>>, at[1], at[2])
               IN  IF info[l].v3 \/ ~info[l].dot THEN s1
                   ELSE Put(Put(s1, <<"wait", Tag(l)>>, numStages - 2, Fresh(S)),
                            <<"view", Tag(l)>>, numStages - 2, Fresh(S))
    IN  FoldLeft(Copy, FoldLeft(Expect, fetch, groups), loads)

(***************************************************************************)
(* The rest of the body.  An `if` whose value a scheduled operation needs  *)
(* opens the loop, one that uses a root's result closes it; what scheduled *)
(* operations need joins them; what they need of the iteration before goes *)
(* one stage later, in a cluster before (one cluster serves all: the map   *)
(* of clusters is keyed by the address of a local variable); everything    *)
(* else runs in the last stage, no earlier than what it uses there.        *)
(***************************************************************************)
Backward(L, op) ==
    LET Defs(x) == {r.def : r \in {q \in Refs(L, x) : q.dist = 0 /\ q.def \in Ops(L)}}
    IN  Closure(L, Defs(op), Defs)
Forward(L, op) == LET Users(x) == Uses(L, x) IN Closure(L, IF op \in Ops(L) THEN {op} ELSE {}, Users)

schedulePrologueAndEpilogue(L, S, roots) ==
    LET feeding(o) == {s \in Ops(L) \cap DOMAIN S.at : o \in Backward(L, s)}
        opening == {o \in Ops(L) : Kind(o) = "if" /\ feeding(o) # {}}
        First(o) == CHOOSE st \in {S.at[s][1] : s \in feeding(o)} : \A s \in feeding(o) : st <= S.at[s][1]
        Open(s, o) == IF o \in opening THEN Put(s, o, First(o), Fresh(S)) ELSE s
        opened == newAtBack(FoldLeft(Open, newAtFront(S), L.ops))
        Closing(r) == {o \in Ops(L) : /\ Kind(o) = "if"
                                      /\ o \in Forward(L, r) \/ \E x \in Forward(L, r) : o \in InnerUses(L, x)}
        Close(s, o) == IF \E r \in roots : o \in Closing(r)
                       THEN insertIfAbsent(s, o, S.at[CHOOSE r \in roots : o \in Closing(r)][1], Fresh(S) + 1)
                       ELSE s
    IN  FoldLeft(Close, opened, L.ops)

scheduleDependencies(L, S, numStages) ==
    LET inOrder == getOpsInOrder(L.ops, S)
        Deps(s, o) == insertDepsOfOp(L, s, o, S.at[o][1], S.at[o][2], FALSE)
        Stage(s, n) == FoldLeft(Deps, s, SelectSeq(inOrder, LAMBDA o : S.at[o][1] = n - 1))
    IN  FoldLeft(Stage, S, [n \in 1..numStages |-> n])

scheduleDistanceOneDependencies(L, S, numStages) ==
    LET Later(a, d, stage, cluster) ==
          LET b == IF a.before # 0 THEN a
                   ELSE [s |-> newBefore(a.s, cluster), before |-> Fresh(a.s)]
          IN  [b EXCEPT !.s = insertDepsOfOp(L, Put(@, d, stage + 1, b.before), d, stage + 1, b.before, TRUE)]
        Operand(op, a, r) ==
          LET at == a.s.at[op] IN
          IF r.dist # 1 \/ r.def \notin Ops(L) \/ r.def \in DOMAIN a.s.at THEN a
          ELSE IF Kind(r.def) = "load"
          THEN [a EXCEPT !.s = insertDepsOfOp(L, Put(@, r.def, at[1], at[2]), r.def, at[1], at[2], TRUE)]
          ELSE Later(a, r.def, at[1], at[2])
        Visit(a, op) ==
          IF op \notin DOMAIN a.s.at \/ a.s.at[op][1] = numStages - 1 THEN a
          ELSE FoldLeft(LAMBDA b, r : Operand(op, b, r), a, L.args[op] \o SetToSeq(L.inner[op]))
    IN  FoldLeft(Visit, [s |-> S, before |-> 0], L.ops).s

scheduleRemainingToLastStage(L, S, afterPrologue, numStages) ==
    LET Producers(s, op) == {s.at[r.def][2] : r \in {q \in Refs(L, op) :
                               q.dist = 0 /\ q.def \in DOMAIN s.at /\ s.at[q.def][1] = numStages - 1}}
        Latest(cs) == CHOOSE c \in cs : \A d \in cs : Rank(S, d) <= Rank(S, c)
        Rest(s, op) == IF op \in DOMAIN S.at THEN s
                       ELSE Put(s, op, numStages - 1, Latest(Producers(s, op) \cup {afterPrologue}))
    IN  FoldLeft(Rest, S, L.ops)

(***************************************************************************)
(* The steps, each on what the ones before it made.  A loop without loads  *)
(* to pipeline is left as it is.                                           *)
(***************************************************************************)
chooseLoads(L) ==
    LET found == loadOpsToIndirectionLevelAndUse(L)
    IN  [found |-> found, info |-> assignMemoryLayouts(L, found)]

NotScheduled(L) == [body |-> L, loads |-> <<>>, groups |-> <<>>, buffers |-> 0]

createAsyncOps(L, kept, info, S, loads, groups) ==
    [body |-> asyncBody(L, loads, info, groups), loads |-> loads, groups |-> groups,
     buffers |-> numBuffers(kept, info, S)]

lowerLoads(L, kept, info, numStages) ==
    LET S == scheduleLoads(kept, numStages)
        loads == Loads(kept)
        groups == tmaGroups(L, loads, info)
    IN  createAsyncOps(L, kept, info, S, loads, groups)
        @@ [async |-> asyncSchedule(S, loads, info, groups, numStages),
            roots |-> {f.use : f \in {g \in ToSet(kept) : Kind(g.use) # "load"}}]

placeDependencies(body, async, roots, numStages) ==
    scheduleDistanceOneDependencies(body,
        scheduleDependencies(body, schedulePrologueAndEpilogue(body, async, roots), numStages),
        numStages)

coarseSchedule(made, numStages) ==
    made @@ [sched |-> scheduleRemainingToLastStage(made.body,
                           placeDependencies(made.body, made.async, made.roots, numStages),
                           Head(made.async.order), numStages)]

scheduleFor(L, kept, info, numStages) ==
    IF kept = <<>> THEN NotScheduled(L) ELSE coarseSchedule(lowerLoads(L, kept, info, numStages), numStages)

scheduleChosen(L, chosen, numStages) ==
    scheduleFor(L, Kept(chosen.found, chosen.info), chosen.info, numStages)

preProcessLoopAndGetSchedule(L, numStages) == scheduleChosen(L, chooseLoads(L), numStages)

(***************************************************************************)
(* The loop and its schedule made into a prologue and a kernel             *)
(* (Pipeliner/PipelineExpander.cpp, with the epilogue predicated and not   *)
(* peeled, as both callers ask), the waits of asynchronous copies and the  *)
(* launches of asynchronous dots put right afterwards (updateWaits and     *)
(* asyncLaunchDots).  A program P has the loop, the order of its           *)
(* operations, their stages, and the largest stage.                        *)
(***************************************************************************)

AllRefs(L, op) == Refs(L, op) \cup L.inner[op]
MaxStage(stage) == CHOOSE m \in {stage[o] : o \in DOMAIN stage} : \A o \in DOMAIN stage : stage[o] <= m

\* The loop as the schedule S orders it, and as it stood.
Scheduled(L, S) ==
    LET stage == [o \in Ops(L) |-> S.at[o][1]]
    IN  [loop |-> L, order |-> getOpsInOrder(L.ops, S), stage |-> stage, max |-> MaxStage(stage)]
Unscheduled(L) == [loop |-> L, order |-> L.ops, stage |-> [o \in Ops(L) |-> 0], max |-> 0]
Synchronous(P) == [kernel |-> P.order, async |-> <<>>, syncs |-> {}]

\* Every operation runs after those it needs, a turn of the loop counted as a whole schedule.
verifySchedule(P) ==
    LET n == Len(P.order)
        Cycle(o) == Position(P.order, o) + P.stage[o] * n
    IN  \A o \in Ops(P.loop) : \A r \in AllRefs(P.loop, o) :
           r.def \in Ops(P.loop) => Cycle(o) >= Cycle(r.def) - n * r.dist

\* Part i of the prologue runs the stages up to i, each one iteration behind the last.
emitPrologue(P) ==
    FlattenSeq([i \in 1..P.max |->
        LET early == SelectSeq(P.order, LAMBDA o : P.stage[o] < i)
        IN  [j \in DOMAIN early |-> [op |-> early[j], it |-> i - 1 - P.stage[early[j]]]]])

\* Values used more stages later than the loop's own argument brings them; the span is how
\* many versions the kernel carries.
analyzeCrossStageValues(P) ==
    LET Gap(o, r) == P.stage[o] - P.stage[r.def]
        Late(r) == {o \in Ops(P.loop) : r \in AllRefs(P.loop, o) /\ Gap(o, r) \notin {0, -r.dist}}
        crossing == {r \in UNION {AllRefs(P.loop, o) : o \in Ops(P.loop)} :
                       r.def \in Ops(P.loop) /\ Late(r) # {}}
    IN  [r \in crossing |-> CHOOSE g \in {Gap(o, r) : o \in Late(r)} : \A o \in Late(r) : Gap(o, r) <= g]

(***************************************************************************)
(* updateWaits.  A wait may let as many commit groups pass as are sure to  *)
(* have been committed after the one it waits for: the fewest over every   *)
(* way its token can have come, through the kernel's arguments from the    *)
(* prologue or from an earlier turn.                                       *)
(***************************************************************************)
CommitsAndCopies(s) == Len(SelectSeq(s, LAMBDA o : Kind(o) \in {"commit", "copy"}))
Commits(s) == Len(SelectSeq(s, LAMBDA o : Kind(o) = "commit"))
Least(S) == CHOOSE m \in S : \A n \in S : m <= n
NoWait == -1

minNumInterleavedCommitOps(P, prologue, kernel, w) ==
    LET token == <<"commit", Tag(w)>>
        early == [i \in DOMAIN prologue |-> prologue[i].op]
        Version(v) == CHOOSE i \in DOMAIN prologue : prologue[i] = [op |-> token, it |-> v]
        AfterVersion(v) == Commits(SubSeq(early, Version(v) + 1, Len(early)))
        here == Position(kernel, w)
        there == Position(kernel, token)
        gap == P.stage[w] - P.stage[token]
        History[j \in 1..gap] ==
          LET first == AfterVersion(P.max - P.stage[token] - j)
              again == IF j = 1 THEN Commits(SubSeq(kernel, there + 1, Len(kernel)))
                       ELSE Commits(kernel) + History[j - 1]
          IN  Least({first, again})
    IN  IF gap = 0 THEN Commits(SubSeq(kernel, there + 1, here))
        ELSE Commits(SubSeq(kernel, 1, here)) + History[gap]

\* Mutant: the commit that is waited for is counted with those after it.
minWithItsOwn(prologue, i) ==
    LET ops == [j \in DOMAIN prologue |-> prologue[j].op]
        own == [op |-> <<"commit", Tag(ops[i])>>, it |-> prologue[i].it]
    IN  Commits(SubSeq(ops, Position(prologue, own), i))
minInPrologue(prologue, i) ==
    LET w == prologue[i]
        c == Position(prologue, [op |-> <<"commit", Tag(w.op)>>, it |-> w.it])
    IN  Commits([j \in 1..(i - c) |-> prologue[c + j].op])

\* Waits with only views in between become one, at the last of them, for the smallest number.
combineRedundantWaitOps(ops, nums) ==
    LET IsWait(i) == Kind(ops[i]) = "wait"
        Joined(i, j) == /\ i <= j /\ IsWait(i) /\ IsWait(j)
                        /\ \A k \in i..j : Kind(ops[k]) \in {"wait", "view"}
    IN  [i \in DOMAIN ops |->
           IF ~IsWait(i) \/ \E j \in DOMAIN ops : j > i /\ Joined(i, j) THEN NoWait
           ELSE Least({nums[j] : j \in {k \in DOMAIN ops : Joined(k, i)}})]

updateWaits(P, prologue, kernel) ==
    LET early == [i \in DOMAIN prologue |-> prologue[i].op] IN
    [prologue |-> combineRedundantWaitOps(early,
        [i \in DOMAIN early |-> IF Kind(early[i]) = "wait" THEN minInPrologue(prologue, i) ELSE NoWait]),
     kernel |-> combineRedundantWaitOps(kernel,
        [i \in DOMAIN kernel |-> IF Kind(kernel[i]) = "wait"
                                 THEN minNumInterleavedCommitOps(P, prologue, kernel, kernel[i]) ELSE NoWait])]

(***************************************************************************)
(* asyncLaunchDots.  A Hopper dot stays in flight if what it reads in      *)
(* shared memory is a ring of buffers, if nothing but ifs uses its result  *)
(* in the iteration, and if the next iteration only accumulates onto it,   *)
(* or uses it after a wait for everything.                                 *)
(***************************************************************************)
IsHopper(L, o) == Kind(o) = "dot" /\ "hopper" \in L.marks[o]
DotWait(d) == <<"dotwait", Tag(d)>>
DotWaitSome == <<"dotwait", "">>
Yielded(L, o) == Carried(L, o) \/ o \in L.used

\* The dot and the ifs that hand its result on.
Flow(L, d) == Closure(L, {d}, LAMBDA x : {u \in InnerUses(L, x) : "passes" \in L.marks[u]})
iterArgs(L, d) == {x \in Flow(L, d) : Yielded(L, x)}
\* An if that takes something inside for its yield only.
OnlyYields(L, u) == "passes" \in L.marks[u] /\ "works" \notin L.marks[u]

buffered(L, d) == \A i \in 1..(Len(L.args[d]) - 1) : Kind(L.args[d][i].def) # "alloc"
unused(L, d) == \A x \in Flow(L, d) : Uses(L, x) = {}
\* A dot that gets past the first two rules and is not yielded: the third takes the uses of a
\* null iterArg, and the compiler does not survive it.
NullIterArg(L, d) == IsHopper(L, d) /\ buffered(L, d) /\ unused(L, d) /\ iterArgs(L, d) = {}

dotCanBeProperlyAsync(L, kernel, d) ==
    LET Next(x) == {u \in Ops(L) : Prev(x) \in AllRefs(L, u)}
        accumulated(x) == \A u \in Next(x) : /\ IsHopper(L, u) /\ Prev(x) = Last(L.args[u])
                                             /\ \A i \in 1..(Len(L.args[u]) - 1) : L.args[u][i] # Prev(x)
        waits == {i \in DOMAIN kernel : Kind(kernel[i]) = "dotwait"}
        waited(x) == waits # {} /\ \A u \in Next(x) : Least(waits) < Position(kernel, u)
    IN  /\ buffered(L, d) /\ unused(L, d)
        /\ Cardinality(iterArgs(L, d)) = 1
        /\ \A x \in iterArgs(L, d) : accumulated(x) \/ waited(x)

\* Dots that stay in flight, the kernel with its waits, and the ifs that begin with one: those
\* that use such a dot, unless in their yields.
asyncLaunchDots(P) ==
    LET L == P.loop
        After(s, o, w) == InsertAt(s, Position(s, o) + 1, w)
        Launch(a, d) == IF ~IsHopper(L, d) THEN a
                        ELSE IF dotCanBeProperlyAsync(L, a.kernel, d) THEN [a EXCEPT !.async = Append(@, d)]
                        ELSE [a EXCEPT !.kernel = After(@, d, DotWait(d))]
        launched == FoldLeft(Launch, [kernel |-> P.order, async |-> <<>>, syncs |-> {}], P.order)
    IN  IF launched.async = <<>> \/ \E i \in DOMAIN launched.kernel : Kind(launched.kernel[i]) = "dotwait"
        THEN launched
        ELSE [launched EXCEPT !.kernel = After(@, Last(launched.async), DotWaitSome),
                              !.syncs = {u \in UNION {InnerUses(L, d) : d \in ToSet(launched.async)} :
                                           ~OnlyYields(L, u)}]

(***************************************************************************)
(* A schedule the expander refuses leaves the loop in its order, with its  *)
(* copies; the waits of every loop are put right.                          *)
(***************************************************************************)
launchDots(P, pipelined) == IF pipelined THEN asyncLaunchDots(P) ELSE Synchronous(P)

programOf(found, P, pipelined) ==
    LET launched == launchDots(P, pipelined)
        prologue == emitPrologue(P)
    IN  [loop |-> P.loop, stage |-> P.stage, max |-> P.max, pipelined |-> pipelined,
         loads |-> found.loads, groups |-> found.groups, buffers |-> found.buffers,
         prologue |-> prologue, spans |-> analyzeCrossStageValues(P),
         kernel |-> launched.kernel, async |-> launched.async, syncs |-> launched.syncs,
         flow |-> [d \in {o \in Ops(P.loop) : IsHopper(P.loop, o)} |-> Flow(P.loop, d)],
         waits |-> updateWaits(P, prologue, launched.kernel)]

expandLoop(found, P) ==
    IF found.loads # <<>> /\ verifySchedule(P) THEN programOf(found, P, TRUE)
    ELSE programOf(found, Unscheduled(found.body), FALSE)

expandSchedule(found) ==
    expandLoop(found, IF found.loads = <<>> THEN Unscheduled(found.body)
                      ELSE Scheduled(found.body, found.sched))

pipelineLoop(L, numStages) ==
    expandSchedule(preProcessLoopAndGetSchedule(L, numStages))
=============================================================================
