--------------------------- MODULE RuntimeProofs ----------------------------
(***************************************************************************)
(* Proofs about the autotuner and about JIT functions over the shared      *)
(* kernel cache, for every tuning, every program, every number of threads  *)
(* and processes and every list of stages.                                 *)
(***************************************************************************)
EXTENDS JitFunction, Autotuner, SequenceTheorems, TLAPS

-----------------------------------------------------------------------------
(***************************************************************************)
(* The autotuner.  What the second argument is at each place of run: it is *)
(* as given, or its copy is, until post_hook has run.                      *)
(***************************************************************************)
Ran == {"fast", "slow", "exhausted", "raises"}

Restorable ==
  tuning.restore =>
    /\ doing \in {"measure", "launch", "failed"} => data = "given"
    /\ doing \in {"call"} \cup Ran => copies = "given"

Reset ==
  /\ tuned => doing \in {"launch", "idle"}
  /\ doing = "launch" /\ tuned /\ tuning.reset => sum = "zero"

TunerTypeOK ==
  /\ tuning \in Tunings
  /\ doing \in {"idle", "measure", "call", "launch", "failed"} \cup Ran
  /\ left \in Seq(1 .. Len(tuning.outcome))
  /\ doing \in {"call"} \cup Ran => left # <<>>

TraceInv == TunerTypeOK /\ Restorable /\ Reset

\* One call of the kernel says one of the four things a configuration does.
LEMMA OutcomeIsKnown ==
  ASSUME TunerTypeOK, doing = "call"
  PROVE  tuning.outcome[left[1]] \in Ran
<1>1. IsTuning(tuning)
  BY TuningsAssumption DEF TunerTypeOK
<1>2. left[1] \in 1 .. Len(tuning.outcome)
  BY DEF TunerTypeOK
<1> QED
  BY <1>1, <1>2 DEF IsTuning, Ran

LEMMA TunerTypeStep ==
  ASSUME TunerTypeOK, TunerNext
  PROVE  TunerTypeOK'
<1>1. IsTuning(tuning)
  BY TuningsAssumption DEF TunerTypeOK
<1>2. CASE \E v \in [ArgNames -> ArgValues] : Tune(v)
  BY <1>1, <1>2 DEF TunerTypeOK, Ran, Tune, IsTuning
<1>3. CASE pre_hook
  BY <1>3 DEF TunerTypeOK, Ran, pre_hook, results, measurement
<1>4. CASE KernelCall
  BY <1>4, OutcomeIsKnown DEF TunerTypeOK, Ran, KernelCall, results, measurement
<1>5. CASE AfterCall
  <2>1. doing' \in {"idle", "measure", "call", "launch", "failed"} \cup Ran
        /\ doing' \notin {"call"} \cup Ran /\ tuning' = tuning
    BY <1>5 DEF AfterCall, Measured, results, Ran
  <2>2. left' = left \/ left' = Tail(left)
    BY <1>5 DEF AfterCall, Measured, measurement
  <2>3. left' \in Seq(1 .. Len(tuning.outcome))
    <3>1. left # <<>> /\ left \in Seq(1 .. Len(tuning.outcome))
      BY <1>5 DEF TunerTypeOK, Ran, AfterCall
    <3>2. PICK S : S = 1 .. Len(tuning.outcome)
      OBVIOUS
    <3>3. Tail(left) \in Seq(S)
      BY <3>1, <3>2
    <3> QED
      BY <2>2, <3>1, <3>2, <3>3
  <2> QED
    BY <2>1, <2>3 DEF TunerTypeOK, Ran
<1>6. CASE NothingMeasured \/ Raise
  BY <1>6 DEF TunerTypeOK, Ran, NothingMeasured, Raise, results, measurement
<1>7. CASE Choose
  BY <1>7 DEF TunerTypeOK, Ran, Choose, measurement
<1>8. CASE FinalCall
  BY <1>8 DEF TunerTypeOK, Ran, FinalCall, results, measurement
<1> QED
  BY <1>2, <1>3, <1>4, <1>5, <1>6, <1>7, <1>8 DEF TunerNext

LEMMA TraceInit == TunerInit => TraceInv
  BY DEF TunerInit, TraceInv, TunerTypeOK, Restorable, Reset, Ran

LEMMA TraceStep == TraceInv /\ [TunerNext]_tunerVars => TraceInv'
<1> SUFFICES ASSUME TraceInv, [TunerNext]_tunerVars PROVE TraceInv'
  OBVIOUS
<1>1. CASE UNCHANGED tunerVars
  BY <1>1 DEF TraceInv, TunerTypeOK, Restorable, Reset, tunerVars
<1>2. CASE TunerNext
  <2>1. TunerTypeOK'
    BY <1>2, TunerTypeStep DEF TraceInv
  <2>2. IsTuning(tuning)
    BY TuningsAssumption DEF TraceInv, TunerTypeOK
  <2>3. Restorable' /\ Reset'
    <3>1. CASE \E v \in [ArgNames -> ArgValues] : Tune(v)
      BY <3>1 DEF Restorable, Reset, Tune, Ran
    <3>2. CASE pre_hook
      BY <3>2 DEF TraceInv, Restorable, Reset, pre_hook, results, measurement, Ran
    <3>3. CASE KernelCall
      <4>1. doing' \in Ran /\ doing = "call"
        BY <3>3, OutcomeIsKnown DEF TraceInv, KernelCall
      <4> QED
        BY <3>3, <4>1 DEF TraceInv, Restorable, Reset, KernelCall, results, Ran
    <3>4. CASE AfterCall
      <4>1. doing \in Ran /\ doing' \in {"measure", "failed"} /\ tuning' = tuning
            /\ tuned' = tuned
        BY <3>4 DEF AfterCall, Measured, results, Ran
      <4>2. tuning.restore => data' = copies
        BY <3>4 DEF AfterCall, post_hook
      <4> QED
        BY <4>1, <4>2 DEF TraceInv, Restorable, Reset, Ran
    <3>5. CASE NothingMeasured \/ Raise
      BY <3>5 DEF TraceInv, Restorable, Reset, NothingMeasured, Raise, results, Ran
    <3>6. CASE Choose
      BY <3>6 DEF TraceInv, Restorable, Reset, Choose, Zero, Ran
    <3>7. CASE FinalCall
      BY <3>7 DEF TraceInv, Restorable, Reset, FinalCall, results, Ran
    <3> QED
      BY <1>2, <3>1, <3>2, <3>3, <3>4, <3>5, <3>6, <3>7 DEF TunerNext
  <2> QED
    BY <2>1, <2>3 DEF TraceInv
<1> QED
  BY <1>1, <1>2

\* However a kernel is tuned, and whatever its configurations do, the kernel that
\* is called in the end, and the caller that gets an error, find the arguments as
\* the hooks promise them.
THEOREM TunerLeavesNoTrace == TunerSpec => []MeasuringLeavesNoTrace
<1>1. TraceInv => MeasuringLeavesNoTrace
  BY DEF TraceInv, Restorable, Reset, MeasuringLeavesNoTrace
<1> QED
  BY <1>1, TraceInit, TraceStep, PTL DEF TunerSpec

-----------------------------------------------------------------------------
(***************************************************************************)
(* What the autotuner remembers of a key is of a call with that key.       *)
(***************************************************************************)
KeyInv ==
  /\ TunerTypeOK
  /\ args \in [ArgNames -> ArgValues]
  /\ DOMAIN tunedFor = DOMAIN best
  /\ \A K \in DOMAIN tunedFor : TunerKey(tunedFor[K]) = K
  /\ doing = "launch" /\ Len(tuning.outcome) > 1 => TunerKey(args) \in DOMAIN tunedFor

\* The places of the key's names are the places of their values, if what the
\* configurations give is declared last.
LEMMA KeyNames ==
  ASSUME IsTuning(tuning), MetaLast, NEW n \in tuning.key
  PROVE  Given[key_idx(n)] = n
<1> DEFINE N == Len(tuning.names)
<1>1. N \in Nat /\ N > 0
  BY DEF IsTuning
<1>2. key_idx("META") \in 1 .. N /\ tuning.names[key_idx("META")] = "META"
  BY DEF IsTuning, key_idx
<1>3. key_idx("META") = N
  BY <1>1, <1>2 DEF IsTuning, MetaLast
<1>4. key_idx(n) \in 1 .. N /\ tuning.names[key_idx(n)] = n
  BY DEF IsTuning, key_idx
<1>5. n # "META"
  BY NamesAssumption DEF IsTuning
<1>6. key_idx(n) # N
  BY <1>4, <1>5 DEF MetaLast
<1>7. key_idx(n) \in 1 .. N - 1 /\ key_idx(n) < key_idx("META")
  BY <1>1, <1>3, <1>4, <1>6
<1> QED
  BY <1>4, <1>7 DEF Given

\* Calls with one key agree on the arguments the key names.
LEMMA SameKeySameValues ==
  ASSUME IsTuning(tuning), MetaLast, NEW v, NEW w, TunerKey(v) = TunerKey(w),
         NEW n \in tuning.key
  PROVE  v[n] = w[n]
<1>1. <<n, v[n]>> \in TunerKey(v)
  BY KeyNames DEF TunerKey
<1>2. PICK m \in tuning.key : <<n, v[n]>> = <<m, w[Given[key_idx(m)]]>>
  BY <1>1 DEF TunerKey
<1> QED
  BY <1>2, KeyNames

LEMMA KeyInit == TunerInit => KeyInv
  BY DEF TunerInit, KeyInv, TunerTypeOK, Ran

\* The key of given arguments depends on the tuning alone.
LEMMA KeyIsStable == tuning' = tuning => \A v : TunerKey(v)' = TunerKey(v)
<1> SUFFICES ASSUME tuning' = tuning, NEW v PROVE TunerKey(v)' = TunerKey(v)
  OBVIOUS
<1>1. \A n : key_idx(n)' = key_idx(n)
  BY DEF key_idx
<1>2. Given' = Given
  BY <1>1 DEF Given
<1> QED
  BY <1>1, <1>2 DEF TunerKey

LEMMA KeyStep == KeyInv /\ [TunerNext]_tunerVars => KeyInv'
<1> SUFFICES ASSUME KeyInv, [TunerNext]_tunerVars PROVE KeyInv'
  OBVIOUS
<1>1. TunerTypeOK'
  BY TunerTypeStep DEF KeyInv, tunerVars, TunerTypeOK
<1>2. tuning' = tuning
  BY DEF TunerNext, Tune, pre_hook, KernelCall, AfterCall, NothingMeasured, Choose,
     FinalCall, Raise, results, tunerVars
<1>3. \A v : TunerKey(v)' = TunerKey(v)
  BY <1>2, KeyIsStable
<1>4. args' \in [ArgNames -> ArgValues]
  BY DEF KeyInv, TunerNext, Tune, pre_hook, KernelCall, AfterCall, NothingMeasured, Choose,
     FinalCall, Raise, results, tunerVars
<1>5. CASE Choose
  <2>1. /\ DOMAIN best' = DOMAIN best \cup {TunerKey(args)}
        /\ DOMAIN tunedFor' = DOMAIN tunedFor \cup {TunerKey(args)}
        /\ tunedFor'[TunerKey(args)] = args
        /\ \A K \in DOMAIN tunedFor \ {TunerKey(args)} : tunedFor'[K] = tunedFor[K]
        /\ args' = args
    BY <1>5 DEF Choose, Noted
  <2>2. \A K \in DOMAIN tunedFor' : TunerKey(tunedFor'[K]) = K
    BY <2>1 DEF KeyInv
  <2> QED
    BY <1>1, <1>2, <1>3, <1>4, <2>1, <2>2 DEF KeyInv
<1>6. CASE ~Choose
  <2>1. tunedFor' = tunedFor /\ best' = best
    BY <1>6 DEF TunerNext, Tune, pre_hook, KernelCall, AfterCall, NothingMeasured,
       FinalCall, Raise, results, tunerVars
  <2>2. ASSUME doing' = "launch", Len(tuning.outcome) > 1
        PROVE  TunerKey(args') \in DOMAIN tunedFor
    <3>1. CASE \E v \in [ArgNames -> ArgValues] : Tune(v)
      <4>1. PICK v \in [ArgNames -> ArgValues] : Tune(v)
        BY <3>1
      <4>2. Len(tuning.outcome) # 1
        <5>1. IsTuning(tuning)
          BY TuningsAssumption DEF KeyInv, TunerTypeOK
        <5>2. Len(tuning.outcome) \in Nat
          BY <5>1 DEF IsTuning
        <5>3. \A n \in Nat : n > 1 => n # 1
          OBVIOUS
        <5> QED
          BY <2>2, <5>2, <5>3, Zenon
      <4>3. TunerKey(v) \in DOMAIN best /\ args' = v
        BY <2>2, <4>1, <4>2 DEF Tune
      <4> QED
        BY <4>3 DEF KeyInv
    <3>2. CASE KernelCall
      BY <2>2, <3>2, OutcomeIsKnown DEF KeyInv, KernelCall, Ran
    <3>3. CASE UNCHANGED tunerVars
      BY <2>2, <3>3 DEF KeyInv, tunerVars
    <3>4. CASE pre_hook \/ AfterCall \/ NothingMeasured \/ FinalCall \/ Raise
      BY <2>2, <3>4 DEF pre_hook, AfterCall, Measured, NothingMeasured, FinalCall, Raise
    <3> QED
      BY <1>6, <3>1, <3>2, <3>3, <3>4 DEF TunerNext
  <2> QED
    BY <1>1, <1>2, <1>3, <1>4, <2>1, <2>2 DEF KeyInv
<1> QED
  BY <1>5, <1>6

\* What is called was measured by a call that agrees with this one on every
\* argument that the key names.
THEOREM TunerMeasuresForTheKey == TunerSpec => []MeasuredForThisKey
<1>1. KeyInv => MeasuredForThisKey
  <2> SUFFICES ASSUME KeyInv, doing = "launch", MetaLast, Len(tuning.outcome) > 1,
                      NEW n \in tuning.key
               PROVE  tunedFor[TunerKey(args)][n] = args[n]
    BY DEF MeasuredForThisKey
  <2>1. IsTuning(tuning)
    BY TuningsAssumption DEF KeyInv, TunerTypeOK
  <2>2. TunerKey(tunedFor[TunerKey(args)]) = TunerKey(args)
    BY DEF KeyInv
  <2> QED
    BY <2>1, <2>2, SameKeySameValues
<1> QED
  BY <1>1, KeyInit, KeyStep, PTL DEF TunerSpec
-----------------------------------------------------------------------------
(***************************************************************************)
(* JIT functions.  What a kernel was compiled for is what its key says; so *)
(* each place that has a kernel or a part of one is shown to have those of *)
(* the key it stands under, from the argument of a call to the files.      *)
(***************************************************************************)
Sources == UNION {q.sources : q \in Programs}

Builds == [src : Sources, config : UNION {{_get_config(q, a) : a \in q.args} : q \in Programs},
           global : Globals]

BuildsOf(k) == {build \in Builds : KernelOf(build) = k}

KernelsOf(k) == [metadata : BuildsOf(k), binary : BuildsOf(k)]

\* The files that are there, each with a build of the key it is under; a group
\* with the files it names, while none is evicted.
DiskOK ==
  /\ \A x \in DOMAIN disk :
       x \in DiskKeys \X (Named \cup {"grp"}) /\ disk[x] \in BuildsOf(x[1])
  /\ ~lossy => \A k \in DiskKeys : has_file(k, "grp") => \A f \in Named : has_file(k, f)

JobOK(t) ==
  /\ job[t].step \in {"idle", "failed", "done"} \cup Asking
  /\ job[t].step # "idle" => job[t].key \in DiskKeys
  /\ job[t].step = "put" =>
       /\ job[t] \in [step : {"put"}, key : DiskKeys, build : BuildsOf(job[t].key), next : Nat \ {0}]
       /\ ~lossy => \A i \in 1 .. Len(Puts) : i < job[t].next => has_file(job[t].key, Puts[i])
  /\ job[t].step \in {"load", "read"} =>
       /\ job[t].group \subseteq Named
       /\ ~lossy => has_file(job[t].key, "grp") /\ job[t].group = Named
  /\ job[t].step = "read" => job[t].metadata \in BuildsOf(job[t].key)
  /\ job[t].step = "done" => job[t].kernel \in KernelsOf(job[t].key)

CacheOK ==
  /\ lossy \in BOOLEAN
  /\ DOMAIN job = Threads
  /\ DiskOK
  /\ \A t \in Threads : JobOK(t)

LEMMA PutsFacts ==
  /\ Len(Puts) \in Nat
  /\ \A i \in 1 .. Len(Puts) : Puts[i] \in Named /\ Puts[i] # "grp"
  /\ \A f \in Named : f # "grp" /\ \E i \in 1 .. Len(Puts) : f = Puts[i]
  /\ BinaryExt \in Named \ {"json"}
  /\ "json" \in Named
<1> DEFINE n == Len(Stages)
<1>1. n \in Nat /\ n > 0 /\ \A i \in 1 .. n : Stages[i] \in STRING \ {"json", "grp"}
  BY StagesAssumption
<1> DEFINE Files == (STRING \ {"json", "grp"}) \cup {"json"}
<1>2. Stages \in Seq(Files) /\ <<"json">> \in Seq(Files)
  <2>1. STRING \ {"json", "grp"} \subseteq Files
    OBVIOUS
  <2>2. Stages \in Seq(Files)
    BY <2>1, StagesAssumption, SeqMonotonic
  <2>3. <<"json">> \in Seq(Files)
    OBVIOUS
  <2> QED
    BY <2>2, <2>3
<1>3. /\ Len(Puts) = n + 1
      /\ \A i \in 1 .. n + 1 : Puts[i] = IF i <= n THEN Stages[i] ELSE <<"json">>[i - n]
  BY <1>2, ConcatProperties DEF Puts
<1>4. /\ \A i \in 1 .. n : Puts[i] = Stages[i]
      /\ Puts[n + 1] = "json"
  BY <1>1, <1>3
<1>5. \A i \in 1 .. n + 1 : i = n + 1 \/ i \in 1 .. n
  BY <1>1
<1>6. \A i \in 1 .. n + 1 : Puts[i] # "grp"
  BY <1>1, <1>4, <1>5
<1>7. n \in 1 .. n + 1 /\ n + 1 \in 1 .. n + 1 /\ n \in 1 .. n /\ n + 1 \in Nat
  BY <1>1
<1>8. BinaryExt = Puts[n] /\ BinaryExt # "json"
  BY <1>1, <1>4, <1>7 DEF BinaryExt
<1>9. Named = {Puts[i] : i \in 1 .. n + 1}
  BY <1>3 DEF Named
<1> QED
  BY <1>3, <1>4, <1>6, <1>7, <1>8, <1>9

\* A job that moves disturbs no other: files only come, and lossy does not change.
LEMMA OneJob ==
  ASSUME CacheOK, NEW t \in Threads, NEW r, job' = [job EXCEPT ![t] = r],
         lossy' = lossy, DOMAIN disk \subseteq DOMAIN disk', DiskOK', JobOK(t)'
  PROVE  CacheOK'
<1>1. DOMAIN job' = Threads /\ \A u \in Threads \ {t} : job'[u] = job[u]
  BY DEF CacheOK
<1>2. \A u \in Threads \ {t} : JobOK(u)'
  BY <1>1 DEF CacheOK, JobOK, has_file
<1> QED
  BY <1>1, <1>2 DEF CacheOK

\* The build of a job is written to one of its files.
LEMMA WriteStep ==
  ASSUME CacheOK, NEW t \in Threads, job[t].step = "put", lossy' = lossy,
         NEW file \in Named \cup {"grp"}, Write(t, file),
         ~lossy /\ file = "grp" => \A f \in Named : has_file(job[t].key, f)
  PROVE  /\ DiskOK'
         /\ DOMAIN disk' = DOMAIN disk \cup {<<job[t].key, file>>}
<1> DEFINE x == <<job[t].key, file>>
<1>1. job[t].key \in DiskKeys /\ job[t].build \in BuildsOf(job[t].key)
  BY DEF CacheOK, JobOK, Asking
<1>2. /\ DOMAIN disk' = DOMAIN disk \cup {x}
      /\ disk'[x] = job[t].build
      /\ \A y \in DOMAIN disk \ {x} : disk'[y] = disk[y]
  BY DEF Write
<1>3. \A y \in DOMAIN disk' :
        y \in DiskKeys \X (Named \cup {"grp"}) /\ disk'[y] \in BuildsOf(y[1])
  BY <1>1, <1>2 DEF CacheOK, DiskOK
<1>4. ASSUME ~lossy', NEW k \in DiskKeys, has_file(k, "grp")', NEW f \in Named
      PROVE  has_file(k, f)'
  <2>1. has_file(k, "grp") \/ (k = job[t].key /\ file = "grp")
    BY <1>2, <1>4 DEF has_file
  <2>2. has_file(k, f)
    BY <1>4, <2>1 DEF CacheOK, DiskOK
  <2> QED
    BY <1>2, <2>2 DEF has_file
<1> QED
  BY <1>2, <1>3, <1>4 DEF DiskOK

\* Compile, Make and Return are the function's, the other steps compile()'s own.
LEMMA HitStep ==
  ASSUME CacheOK, NEW t \in Threads, Hit(t)
  PROVE  CacheOK'
<1>1. DiskOK'
  BY DEF CacheOK, DiskOK, Hit, has_file
<1>2. JobOK(t)'
  <2>1. job[t].key \in DiskKeys /\ "json" \in get_group(job[t].key)
    BY DEF CacheOK, JobOK, Hit, Asking
  <2>2. has_file(job[t].key, "grp") /\ get_group(job[t].key) \subseteq Named
    BY <2>1 DEF get_group
  <2>3. ~lossy => get_group(job[t].key) = Named
    BY <2>1, <2>2 DEF CacheOK, DiskOK, get_group
  <2> QED
    BY <2>1, <2>2, <2>3 DEF CacheOK, JobOK, Hit, Asking, has_file
<1> QED
  BY <1>1, <1>2, OneJob DEF Hit

LEMMA PutStep ==
  ASSUME CacheOK, NEW t \in Threads, Put(t)
  PROVE  CacheOK'
<1> DEFINE r == [job[t] EXCEPT !.next = job[t].next + 1]
<1>0. PICK k : k = job[t].key
  OBVIOUS
<1>1. /\ job[t] \in [step : {"put"}, key : DiskKeys, build : BuildsOf(k), next : Nat \ {0}]
      /\ ~lossy => \A i \in 1 .. Len(Puts) : i < job[t].next => has_file(k, Puts[i])
  BY <1>0 DEF CacheOK, JobOK, Put, Asking
<1>2. Puts[job[t].next] \in Named /\ Puts[job[t].next] # "grp"
  BY <1>1, PutsFacts DEF Put
<1>3. DiskOK' /\ DOMAIN disk' = DOMAIN disk \cup {<<k, Puts[job[t].next]>>}
  BY <1>0, <1>2, WriteStep DEF Put
<1>4. job' = [job EXCEPT ![t] = r] /\ lossy' = lossy
  BY DEF Put
<1>5. job'[t] = r
  BY <1>4 DEF CacheOK
<1>6. JobOK(t)'
  <2>1. /\ r \in [step : {"put"}, key : DiskKeys, build : BuildsOf(k), next : Nat \ {0}]
        /\ r.key = k /\ r.step = "put" /\ r.next = job[t].next + 1
    BY <1>0, <1>1
  <2>2. ASSUME ~lossy, NEW i \in 1 .. Len(Puts), i < r.next PROVE has_file(k, Puts[i])'
    <3>1. i = job[t].next \/ i < job[t].next
      BY <1>1, <2>1, <2>2, PutsFacts
    <3> QED
      BY <1>1, <1>3, <2>2, <3>1 DEF has_file
  <2> QED
    BY <1>4, <1>5, <2>1, <2>2 DEF JobOK, Asking
<1> QED
  BY <1>3, <1>4, <1>6, OneJob

LEMMA PutGroupStep ==
  ASSUME CacheOK, NEW t \in Threads, put_group(t)
  PROVE  CacheOK'
<1> DEFINE k == job[t].key
<1>1. /\ k \in DiskKeys /\ job[t].next \in Nat
      /\ ~lossy => \A i \in 1 .. Len(Puts) : i < job[t].next => has_file(k, Puts[i])
  BY DEF CacheOK, JobOK, put_group, Asking
<1>2. ~lossy => \A f \in Named : has_file(k, f)
  <2> SUFFICES ASSUME ~lossy, NEW f \in Named PROVE has_file(k, f)
    OBVIOUS
  <2>1. PICK i \in 1 .. Len(Puts) : f = Puts[i]
    BY PutsFacts
  <2>2. i < job[t].next
    BY <1>1, <2>1, PutsFacts DEF put_group
  <2> QED
    BY <1>1, <2>1, <2>2
<1>3. DiskOK' /\ DOMAIN disk' = DOMAIN disk \cup {<<k, "grp">>}
  BY <1>2, WriteStep DEF put_group
<1>4. JobOK(t)'
  BY <1>1, <1>3 DEF CacheOK, JobOK, put_group, Asking, has_file
<1> QED
  BY <1>3, <1>4, OneJob DEF put_group

\* A file that is there has a build of the key it is under.
LEMMA FileHolds ==
  ASSUME CacheOK, NEW k, NEW f, has_file(k, f)
  PROVE  disk[<<k, f>>] \in BuildsOf(k)
  BY DEF CacheOK, DiskOK, has_file

LEMMA LoadSteps ==
  ASSUME CacheOK, NEW t \in Threads, LoadMetadata(t) \/ LoadBinary(t)
  PROVE  CacheOK'
<1>1. DiskOK' /\ disk' = disk /\ lossy' = lossy
  BY DEF CacheOK, DiskOK, LoadMetadata, LoadBinary, has_file
<1>2. CASE LoadMetadata(t)
  <2>1. disk[<<job[t].key, "json">>] \in BuildsOf(job[t].key)
    BY <1>2, FileHolds DEF LoadMetadata
  <2>2. JobOK(t)'
    BY <1>1, <1>2, <2>1 DEF CacheOK, JobOK, LoadMetadata, Asking, has_file
  <2> QED
    BY <1>1, <1>2, <2>2, OneJob DEF LoadMetadata
<1>3. CASE LoadBinary(t)
  <2>1. disk[<<job[t].key, BinaryExt>>] \in BuildsOf(job[t].key)
    BY <1>3, PutsFacts, FileHolds DEF LoadBinary, Readable
  <2>2. JobOK(t)'
    BY <1>1, <1>3, <2>1 DEF CacheOK, JobOK, LoadBinary, Asking, has_file, KernelsOf
  <2> QED
    BY <1>1, <1>3, <2>2, OneJob DEF LoadBinary
<1> QED
  BY <1>2, <1>3

\* Compile() looks, finds nothing, or fails.
LEMMA PlainSteps ==
  ASSUME CacheOK, NEW t \in Threads, NEW k \in DiskKeys,
         Compile(t, k) \/ Miss(t) \/ MakeFails(t) \/ LoadFails(t) \/ Return(t)
  PROVE  CacheOK'
<1>1. DiskOK' /\ disk' = disk /\ lossy' = lossy
  BY DEF CacheOK, DiskOK, Compile, Miss, MakeFails, LoadFails, Return, Job, has_file
<1>2. PICK r : /\ job' = [job EXCEPT ![t] = r]
               /\ \/ r.step = "idle"
                  \/ r.step \in {"find", "make", "failed"} /\ r.key \in DiskKeys
  BY DEF CacheOK, JobOK, Compile, Miss, MakeFails, LoadFails, Return, Job, Idle, Asking
<1>3. job'[t] = r
  BY <1>2 DEF CacheOK
<1>4. JobOK(t)'
  BY <1>2, <1>3 DEF JobOK, Asking
<1> QED
  BY <1>1, <1>2, <1>4, OneJob

LEMMA MakeStep ==
  ASSUME CacheOK, NEW t \in Threads, NEW build \in BuildsOf(job[t].key), Make(t, build)
  PROVE  CacheOK'
<1>1. DiskOK' /\ disk' = disk /\ lossy' = lossy
  BY DEF CacheOK, DiskOK, Make, has_file
<1>2. job'[t] = [step |-> "put", key |-> job[t].key, build |-> build, next |-> 1]
  BY DEF CacheOK, Make
<1>3. job[t].key \in DiskKeys
  BY DEF CacheOK, JobOK, Make
<1>4. \A i \in 1 .. Len(Puts) : ~(i < 1)
  BY PutsFacts
<1>5. JobOK(t)'
  BY <1>2, <1>3, <1>4 DEF JobOK, Asking
<1> QED
  BY <1>1, <1>5, OneJob DEF Make

\* A process dies, or somebody removes a file.
LEMMA LossSteps ==
  ASSUME CacheOK, (\E T : Die(T)) \/ (\E file \in DOMAIN disk : Evict(file))
  PROVE  CacheOK'
<1>1. ASSUME NEW T, Die(T) PROVE CacheOK'
  <2>1. \A t \in Threads : JobOK(t)'
    BY <1>1 DEF CacheOK, JobOK, Die, Idle, Asking, has_file
  <2> QED
    BY <1>1, <2>1 DEF CacheOK, DiskOK, Die, has_file
<1>2. ASSUME NEW file \in DOMAIN disk, Evict(file) PROVE CacheOK'
  <2>1. \A t \in Threads : JobOK(t)'
    BY <1>2 DEF CacheOK, JobOK, Evict
  <2> QED
    BY <1>2, <2>1 DEF CacheOK, DiskOK, Evict
<1> QED
  BY <1>1, <1>2
-----------------------------------------------------------------------------
(***************************************************************************)
(* The function: a kernel that is kept or about to be launched was built   *)
(* for an argument that has the key it is kept under.                      *)
(***************************************************************************)
Passed == {a \in program.args : program.annotation # "" => a.type # "none"}

SourcesOf(p) == IF "src" \in program.changes THEN program.sources ELSE {src[p]}

Suits(p, kernel, k) ==
  \E a \in Passed, s \in SourcesOf(p) :
    KeyOf(a) = k /\ kernel \in KernelsOf([src |-> s, config |-> _get_config(program, a)])

CallOK(t) ==
  /\ call[t].step \in {"none", "run", "warmup", "preload", "compile", "check", "launch"}
  /\ call[t].step # "none" => call[t].arg \in Passed
  /\ call[t].step = "compile" <=> job[t].step # "idle"
  /\ call[t].step = "compile" =>
       job[t].key = [src |-> src[ProcOf[t]], config |-> _get_config(program, call[t].arg)]
  /\ call[t].step \in {"check", "launch"} =>
       \E kernel, warmup :
         /\ call[t] = [step |-> call[t].step, arg |-> call[t].arg, warmup |-> warmup,
                       kernel |-> kernel]
         /\ Suits(ProcOf[t], kernel, KeyOf(call[t].arg))

MemoryOK ==
  /\ program \in Programs
  /\ src \in [Procs -> program.sources]
  /\ global \in [Procs -> Globals]
  /\ DOMAIN hash = Procs /\ \A p \in Procs : hash[p] \in {None, src[p]}
  /\ DOMAIN cache = Procs
  /\ \A p \in Procs : \A k \in DOMAIN cache[p] : Suits(p, cache[p][k], k)

JitInv ==
  /\ CacheOK
  /\ MemoryOK
  /\ DOMAIN call = Threads
  /\ \A t \in Threads : CallOK(t)
\* What was assumed of one argument holds of every other that has its key.
LEMMA SameKeyFits ==
  ASSUME program \in Programs, NEW a \in Passed, NEW b \in Passed, KeyOf(a) = KeyOf(b)
  PROVE  Fits(_get_config(program, a), b)
<1>1. IsArgument(a) /\ IsArgument(b)
  BY ProgramsAssumption DEF IsProgram, Passed
<1>2. program.do_not_specialize \in BOOLEAN
  BY ProgramsAssumption DEF IsProgram
<1>3. mangle_type(program, a) = mangle_type(program, b)
  BY DEF KeyOf
<1>4. ~program.do_not_specialize => compute_spec_key(a) = compute_spec_key(b)
  BY <1>2 DEF KeyOf
<1>5. a.type = "none" <=> b.type = "none"
  BY <1>3 DEF mangle_type, Passed
<1>6. ASSUME ~program.do_not_specialize
      PROVE  (a.div16 => b.div16) /\ (a.one => b.one)
  BY <1>1, <1>4, <1>5, <1>6 DEF compute_spec_key, IsArgument
<1> QED
  BY <1>1, <1>2, <1>3, <1>5, <1>6 DEF Fits, _get_config, IsArgument

LEMMA KeysStay == program' = program => Passed' = Passed /\ \A a : KeyOf(a)' = KeyOf(a)
  BY DEF Passed, KeyOf

\* A kernel suits as long as the process keeps its source, or may be given any.
LEMMA StaysSuited ==
  ASSUME program' = program, NEW p, src'[p] = src[p] \/ "src" \in program.changes
  PROVE  \A kernel, k : Suits(p, kernel, k) => Suits(p, kernel, k)'
<1>1. SourcesOf(p)' = SourcesOf(p) /\ Passed' = Passed
  BY DEF SourcesOf, Passed
<1>2. \A a : KeyOf(a)' = KeyOf(a)
  BY DEF KeyOf
<1> QED
  BY <1>1, <1>2 DEF Suits

LEMMA MemoryStays == MemoryOK /\ UNCHANGED memory => MemoryOK'
<1> SUFFICES ASSUME MemoryOK, UNCHANGED memory PROVE MemoryOK'
  OBVIOUS
<1>1. \A p \in Procs : \A k \in DOMAIN cache[p] : Suits(p, cache[p][k], k)'
  BY StaysSuited DEF MemoryOK, memory
<1> QED
  BY <1>1 DEF MemoryOK, memory

LEMMA CacheStays == CacheOK /\ UNCHANGED cacheVars => CacheOK'
  BY DEF CacheOK, DiskOK, JobOK, cacheVars, has_file

LEMMA CallStays ==
  ASSUME NEW t \in Threads, CallOK(t), call'[t] = call[t], job'[t] = job[t],
         program' = program, src'[ProcOf[t]] = src[ProcOf[t]]
  PROVE  CallOK(t)'
<1>1. \A kernel, k : Suits(ProcOf[t], kernel, k) => Suits(ProcOf[t], kernel, k)'
  BY StaysSuited
<1>2. Passed' = Passed /\ KeyOf(call[t].arg)' = KeyOf(call[t].arg)
  BY DEF Passed, KeyOf
<1>3. /\ call'[t].step \in {"none", "run", "warmup", "preload", "compile", "check", "launch"}
      /\ call'[t].step # "none" => call'[t].arg \in Passed'
      /\ call'[t].step = "compile" <=> job'[t].step # "idle"
      /\ call'[t].step = "compile" =>
           job'[t].key = [src |-> src'[ProcOf[t]], config |-> _get_config(program', call'[t].arg)]
  BY <1>2 DEF CallOK
<1>4. call[t].step \in {"check", "launch"} =>
        \E kernel, warmup :
          /\ call[t] = [step |-> call[t].step, arg |-> call[t].arg, warmup |-> warmup,
                        kernel |-> kernel]
          /\ Suits(ProcOf[t], kernel, KeyOf(call[t].arg))'
  BY <1>1, <1>2 DEF CallOK
<1> QED
  BY <1>3, <1>4 DEF CallOK

\* A call that goes on disturbs no other, in its process or elsewhere.
LEMMA OneCall ==
  ASSUME JitInv, NEW t \in Threads, program' = program, src' = src,
         DOMAIN call' = Threads,
         \A u \in Threads \ {t} : job'[u] = job[u] /\ call'[u] = call[u],
         CacheOK', MemoryOK', CallOK(t)'
  PROVE  JitInv'
<1>1. ASSUME NEW u \in Threads \ {t} PROVE CallOK(u)'
  <2>1. CallOK(u) /\ call'[u] = call[u] /\ job'[u] = job[u]
    BY DEF JitInv
  <2> QED
    BY <2>1, CallStays
<1> QED
  BY <1>1 DEF JitInv
LEMMA KeysAreDiskKeys ==
  ASSUME program \in Programs, NEW a \in Passed, NEW s \in program.sources
  PROVE  [src |-> s, config |-> _get_config(program, a)] \in DiskKeys
<1> DEFINE KeysWith(q) == [src : q.sources, config : {_get_config(q, c) : c \in q.args}]
<1>1. [src |-> s, config |-> _get_config(program, a)] \in KeysWith(program)
  BY DEF Passed
<1>2. KeysWith(program) \in {KeysWith(q) : q \in Programs}
  OBVIOUS
<1> QED
  BY <1>1, <1>2 DEF DiskKeys

\* A step leaves a thread with its kernel, with a job, or waiting.
LEMMA HasKernel ==
  ASSUME NEW t \in Threads, NEW step \in {"check", "launch"}, NEW a, NEW warmup, NEW kernel,
         call'[t] = [step |-> step, arg |-> a, warmup |-> warmup, kernel |-> kernel],
         a \in Passed', job'[t].step = "idle", Suits(ProcOf[t], kernel, KeyOf(a))'
  PROVE  CallOK(t)'
<1>1. call'[t].step = step /\ call'[t].arg = a
  OBVIOUS
<1>2. \E x, w : /\ call'[t] = [step |-> call'[t].step, arg |-> call'[t].arg, warmup |-> w,
                              kernel |-> x]
                /\ Suits(ProcOf[t], x, KeyOf(call[t].arg))'
  BY <1>1
<1> QED
  BY <1>1, <1>2 DEF CallOK

LEMMA Asks ==
  ASSUME NEW t \in Threads, NEW a, call'[t].step = "compile", call'[t].arg = a, a \in Passed',
         job'[t].step # "idle",
         job'[t].key = [src |-> src'[ProcOf[t]], config |-> _get_config(program', a)]
  PROVE  CallOK(t)'
  BY DEF CallOK

LEMMA Waits ==
  ASSUME NEW t \in Threads, call'[t] = Waiting, job'[t].step = "idle"
  PROVE  CallOK(t)'
<1>1. call'[t].step = "none"
  BY DEF Waiting
<1> QED
  BY <1>1 DEF CallOK

LEMMA CallStep ==
  ASSUME JitInv, NEW t \in Threads, NEW a \in program.args,
         NEW how \in {"run", "warmup", "preload"}, Call(t, a, how)
  PROVE  JitInv'
<1>1. CacheOK' /\ MemoryOK'
  BY CacheStays, MemoryStays DEF JitInv, Call
<1>2. call'[t] = [step |-> how, arg |-> a] /\ job[t].step = "idle" /\ job' = job
  <2>1. call[t].step = "none"
    <3>1. call[t] = Waiting
      BY DEF Call
    <3> QED
      BY <3>1 DEF Waiting
  <2>2. job[t].step = "idle"
    BY <2>1 DEF JitInv, CallOK
  <2> QED
    BY <2>2 DEF JitInv, Call, Start, cacheVars
<1>3. a \in Passed /\ Passed' = Passed
  BY DEF Passed, Call, memory
<1>4. CallOK(t)'
  BY <1>2, <1>3 DEF CallOK
<1> QED
  BY <1>1, <1>2, <1>4, OneCall DEF JitInv, Call, Start, memory

LEMMA RunHitStep ==
  ASSUME JitInv, NEW t \in Threads, RunHit(t)
  PROVE  JitInv'
<1> DEFINE p == ProcOf[t]
<1>1. CacheOK' /\ MemoryOK' /\ job' = job /\ program' = program /\ src' = src
  BY CacheStays, MemoryStays DEF JitInv, RunHit, memory, cacheVars
<1>2. PICK kernel, a : /\ a = call[t].arg /\ kernel = cache[p][KeyOf(a)]
                       /\ Suits(p, kernel, KeyOf(a))
  BY ProcOfAssumption DEF JitInv, MemoryOK, RunHit, Cached
<1>3. /\ a \in Passed /\ job[t].step = "idle"
      /\ call'[t] = [step |-> "check", arg |-> a, warmup |-> call[t].step = "warmup",
                     kernel |-> kernel]
  BY <1>2 DEF JitInv, CallOK, RunHit
<1>4. Suits(p, kernel, KeyOf(a))' /\ Passed' = Passed
  BY <1>1, <1>2, StaysSuited, KeysStay
<1>5. CallOK(t)'
  BY <1>1, <1>3, <1>4, HasKernel
<1> QED
  BY <1>1, <1>5, OneCall DEF JitInv, RunHit

LEMMA RunMissStep ==
  ASSUME JitInv, NEW t \in Threads, RunMiss(t)
  PROVE  JitInv'
<1> DEFINE p == ProcOf[t]
<1>1. p \in Procs /\ Hash(p) = src[p] /\ src[p] \in program.sources
  BY ProcOfAssumption, ProgramsAssumption DEF JitInv, MemoryOK, Hash, IsProgram
<1>2. PICK a : a = call[t].arg /\ a \in Passed
  BY DEF JitInv, CallOK, RunMiss
<1>3. PICK k : /\ k = [src |-> src[p], config |-> _get_config(program, a)] /\ k \in DiskKeys
               /\ Compile(t, k)
  BY <1>1, <1>2, KeysAreDiskKeys DEF JitInv, MemoryOK, RunMiss, DiskKey
<1>4. CacheOK'
  BY <1>3, PlainSteps DEF JitInv
<1>5. /\ program' = program /\ src' = src /\ global' = global /\ cache' = cache
      /\ hash' = [hash EXCEPT ![p] = src[p]]
  BY <1>1 DEF RunMiss
<1>6. MemoryOK'
  <2>1. \A q \in Procs : \A x \in DOMAIN cache[q] : Suits(q, cache[q][x], x)'
    BY <1>5, StaysSuited DEF JitInv, MemoryOK
  <2> QED
    BY <1>5, <2>1 DEF JitInv, MemoryOK
<1>7. /\ job'[t] = [step |-> "find", key |-> k]
      /\ call'[t] = [step |-> "compile", arg |-> a, how |-> call[t].step]
      /\ \A u \in Threads \ {t} : job'[u] = job[u] /\ call'[u] = call[u]
      /\ DOMAIN call' = Threads
  BY <1>2, <1>3 DEF JitInv, CacheOK, RunMiss, Compile, Job
<1>8. CallOK(t)'
  <2>1. a \in Passed'
    BY <1>2, <1>5, KeysStay
  <2> QED
    BY <1>3, <1>5, <1>7, <2>1, Asks
<1> QED
  BY <1>4, <1>5, <1>6, <1>7, <1>8, OneCall

\* The caller gets an error, a kernel is launched, or the globals are found as
\* they were.
LEMMA ReturnSteps ==
  ASSUME JitInv, NEW t \in Threads, Refuse(t) \/ GlobalsChanged(t) \/ Launch(t)
  PROVE  JitInv'
<1>1. CacheOK' /\ MemoryOK' /\ job' = job /\ program' = program /\ src' = src
  BY CacheStays, MemoryStays DEF JitInv, Refuse, GlobalsChanged, Launch, memory, cacheVars
<1>2. call' = [call EXCEPT ![t] = Waiting] /\ call[t].step # "compile"
  BY DEF Refuse, GlobalsChanged, Launch, Finish
<1>3. CallOK(t)'
  BY <1>1, <1>2 DEF JitInv, CallOK, Waiting
<1> QED
  BY <1>1, <1>2, <1>3, OneCall DEF JitInv

LEMMA GlobalsHoldStep ==
  ASSUME JitInv, NEW t \in Threads, GlobalsHold(t)
  PROVE  JitInv'
<1>1. CacheOK' /\ MemoryOK' /\ job' = job /\ program' = program /\ src' = src
  BY CacheStays, MemoryStays DEF JitInv, GlobalsHold, memory, cacheVars
<1>2. PICK kernel, warmup, a :
        /\ a = call[t].arg /\ a \in Passed
        /\ call[t] = [step |-> "check", arg |-> a, warmup |-> warmup, kernel |-> kernel]
        /\ Suits(ProcOf[t], kernel, KeyOf(a))
  BY DEF JitInv, CallOK, GlobalsHold
<1>3. call'[t] = Waiting
        \/ call'[t] = [step |-> "launch", arg |-> a, warmup |-> warmup, kernel |-> kernel]
  BY <1>2 DEF JitInv, GlobalsHold, Finish, Goto
<1>4. Suits(ProcOf[t], kernel, KeyOf(a))' /\ Passed' = Passed
  BY <1>1, <1>2, StaysSuited, KeysStay
<1>5. job[t].step = "idle"
  BY DEF JitInv, CallOK, GlobalsHold
<1>6. CallOK(t)'
  BY <1>1, <1>2, <1>3, <1>4, <1>5, HasKernel, Waits
<1>7. DOMAIN call' = Threads /\ \A u \in Threads \ {t} : call'[u] = call[u]
  BY DEF JitInv, GlobalsHold, Finish, Goto
<1> QED
  BY <1>1, <1>6, <1>7, OneCall

LEMMA MakeIrStep ==
  ASSUME JitInv, NEW t \in Threads, MakeIr(t)
  PROVE  JitInv'
<1> DEFINE p == ProcOf[t]
<1>1. job[t].step = "make" /\ call[t].step = "compile"
  BY DEF JitInv, CallOK, MakeIr, Make
<1>2. PICK a : a = call[t].arg /\ a \in Passed
  BY <1>1 DEF JitInv, CallOK
<1>3. PICK build : /\ build = [src |-> src[p], config |-> _get_config(program, a),
                               global |-> global[p]]
                   /\ Make(t, build)
  BY <1>2 DEF MakeIr
<1>4. /\ job[t].key = [src |-> src[p], config |-> _get_config(program, a)]
      /\ program \in Programs /\ src[p] \in program.sources /\ global[p] \in Globals
  BY <1>1, <1>2, ProcOfAssumption DEF JitInv, CallOK, MemoryOK
<1>5. build \in BuildsOf(job[t].key)
  <2> DEFINE ConfigsOf(q) == {_get_config(q, c) : c \in q.args}
  <2>1. build.config \in ConfigsOf(program) /\ build.src \in program.sources
    BY <1>2, <1>3, <1>4 DEF Passed
  <2>2. ConfigsOf(program) \in {ConfigsOf(q) : q \in Programs}
        /\ program.sources \in {q.sources : q \in Programs}
    BY <1>4
  <2>3. build \in Builds
    BY <1>3, <1>4, <2>1, <2>2 DEF Builds, Sources
  <2> QED
    BY <1>3, <1>4, <2>3 DEF BuildsOf, KernelOf
<1>6. CacheOK' /\ MemoryOK'
  BY <1>3, <1>5, MakeStep, MemoryStays DEF JitInv, MakeIr, jitVars, memory
<1>7. /\ call' = call /\ program' = program /\ src' = src
      /\ job'[t].step = "put" /\ job'[t].key = job[t].key
      /\ \A u \in Threads \ {t} : job'[u] = job[u]
  BY <1>3 DEF JitInv, CacheOK, MakeIr, Make, jitVars
<1>8. CallOK(t)'
  BY <1>1, <1>2, <1>4, <1>7 DEF CallOK, Passed
<1> QED
  BY <1>6, <1>7, <1>8, OneCall DEF JitInv
LEMMA KeepStep ==
  ASSUME JitInv, NEW t \in Threads, Keep(t)
  PROVE  JitInv'
<1> DEFINE p == ProcOf[t]
<1>1. PICK a, kernel, k :
        /\ a = call[t].arg /\ kernel = job[t].kernel /\ k = KeyOf(a)
        /\ a \in Passed
        /\ job[t].key = [src |-> src[p], config |-> _get_config(program, a)]
        /\ kernel \in KernelsOf(job[t].key)
  BY DEF JitInv, CallOK, CacheOK, JobOK, Keep
<1>2. Suits(p, kernel, k)
  <2>1. src[p] \in SourcesOf(p)
    BY ProcOfAssumption DEF JitInv, MemoryOK, SourcesOf
  <2> QED
    BY <1>1, <2>1 DEF Suits
<1>3. CacheOK'
  <2>1. Return(t) /\ job[t].key \in DiskKeys
    BY DEF JitInv, CacheOK, JobOK, Keep
  <2> QED
    BY <2>1, PlainSteps DEF JitInv
<1>4. /\ program' = program /\ src' = src /\ global' = global /\ hash' = hash
      /\ cache' = [cache EXCEPT ![p] =
           [x \in DOMAIN cache[p] \cup {k} |-> IF x = k THEN kernel ELSE cache[p][x]]]
  BY <1>1 DEF Keep
<1>5. MemoryOK'
  <2>1. \A q \in Procs : \A x \in DOMAIN cache'[q] : Suits(q, cache'[q][x], x)
    BY <1>2, <1>4 DEF JitInv, MemoryOK
  <2>2. \A q, x, y : Suits(q, x, y) => Suits(q, x, y)'
    BY <1>4, StaysSuited
  <2>3. (\A q \in Procs : \A x \in DOMAIN cache[q] : Suits(q, cache[q][x], x))'
    BY <2>1, <2>2
  <2> QED
    BY <1>4, <2>3 DEF JitInv, MemoryOK
<1>6. /\ job'[t].step = "idle" /\ DOMAIN call' = Threads
      /\ \A u \in Threads \ {t} : job'[u] = job[u] /\ call'[u] = call[u]
  BY DEF JitInv, CacheOK, Keep, Return, Idle
<1>7. CallOK(t)'
  <2>1. call'[t] = Waiting \/ \E warmup :
          call'[t] = [step |-> "check", arg |-> a, warmup |-> warmup, kernel |-> kernel]
    BY <1>1 DEF JitInv, Keep
  <2>2. a \in Passed' /\ Suits(p, kernel, KeyOf(a))'
    BY <1>1, <1>2, <1>4, StaysSuited, KeysStay
  <2> QED
    BY <1>6, <2>1, <2>2, HasKernel, Waits
<1> QED
  BY <1>3, <1>4, <1>5, <1>6, <1>7, OneCall

LEMMA CompileRaisesStep ==
  ASSUME JitInv, NEW t \in Threads, CompileRaises(t)
  PROVE  JitInv'
<1>1. Return(t) /\ job[t].key \in DiskKeys
  BY DEF JitInv, CacheOK, JobOK, CompileRaises
<1>2. CacheOK' /\ MemoryOK'
  BY <1>1, PlainSteps, MemoryStays DEF JitInv, CompileRaises
<1>3. /\ call'[t] = Waiting /\ job'[t].step = "idle" /\ DOMAIN call' = Threads
      /\ \A u \in Threads \ {t} : job'[u] = job[u] /\ call'[u] = call[u]
      /\ program' = program /\ src' = src
  BY DEF JitInv, CacheOK, CompileRaises, Finish, Return, Idle, memory
<1> QED
  BY <1>2, <1>3, Waits, OneCall

\* A step of compile() alone leaves a job of the same key.
LEMMA CacheStepStep ==
  ASSUME JitInv, NEW t \in Threads, CacheStep(t), UNCHANGED jitVars
  PROVE  JitInv'
<1>1. CacheOK'
  <2>1. PICK k \in DiskKeys : k = job[t].key
    BY DEF JitInv, CacheOK, JobOK, CacheStep, Hit, Miss, MakeFails, Put, put_group,
       LoadMetadata, LoadBinary, LoadFails
  <2> QED
    BY <2>1, HitStep, PutStep, PutGroupStep, LoadSteps, PlainSteps DEF JitInv, CacheStep
<1>2. MemoryOK' /\ program' = program /\ src' = src /\ call' = call
  BY MemoryStays DEF JitInv, jitVars, memory
<1>3. /\ job[t].step # "idle" /\ job'[t].step # "idle" /\ job'[t].key = job[t].key
      /\ \A u \in Threads \ {t} : job'[u] = job[u]
  <2>1. CASE Put(t)
    <3>1. PICK k, build, n : job[t] = [step |-> "put", key |-> k, build |-> build, next |-> n]
      BY <2>1 DEF JitInv, CacheOK, JobOK, Put
    <3> QED
      BY <2>1, <3>1 DEF JitInv, CacheOK, Put
  <2>2. CASE Hit(t) \/ Miss(t) \/ MakeFails(t)
    <3>1. PICK r : /\ job' = [job EXCEPT ![t] = r] /\ job[t].step \in {"find", "make", "put"}
                   /\ r.step \in {"load", "make", "failed"} /\ r.key = job[t].key
      BY <2>2 DEF Hit, Miss, MakeFails, Job
    <3> QED
      BY <3>1 DEF JitInv, CacheOK
  <2>3. CASE put_group(t) \/ LoadMetadata(t)
    BY <2>3 DEF JitInv, CacheOK, put_group, LoadMetadata
  <2>4. CASE LoadBinary(t) \/ LoadFails(t)
    BY <2>4 DEF JitInv, CacheOK, LoadBinary, LoadFails, Job
  <2> QED
    BY <2>1, <2>2, <2>3, <2>4 DEF CacheStep
<1>4. CallOK(t)'
  <2>1. PICK a : a = call[t].arg /\ call[t].step = "compile" /\ a \in Passed
                 /\ job[t].key = [src |-> src[ProcOf[t]], config |-> _get_config(program, a)]
    BY <1>3 DEF JitInv, CallOK
  <2>2. a \in Passed'
    BY <1>2, <2>1, KeysStay
  <2> QED
    BY <1>2, <1>3, <2>1, <2>2, Asks
<1> QED
  BY <1>1, <1>2, <1>3, <1>4, OneCall DEF JitInv

LEMMA EvictStep ==
  ASSUME JitInv, NEW file \in DOMAIN disk, Evict(file), UNCHANGED jitVars
  PROVE  JitInv'
<1>1. CacheOK' /\ MemoryOK' /\ program' = program
  BY LossSteps, MemoryStays DEF JitInv, jitVars, memory
<1>2. call' = call /\ job' = job /\ src' = src
  BY DEF Evict, jitVars
<1>3. \A t \in Threads : CallOK(t)'
  BY <1>1, <1>2, CallStays DEF JitInv
<1> QED
  BY <1>1, <1>2, <1>3 DEF JitInv
\* Between the calls of a process its threads wait; those of others go on.
LEMMA OtherCalls ==
  ASSUME JitInv, NEW p, program' = program, \A q \in Procs \ {p} : src'[q] = src[q],
         CacheOK', MemoryOK', DOMAIN call' = Threads,
         \A t \in Threads : ProcOf[t] = p => call'[t] = Waiting /\ job'[t].step = "idle",
         \A t \in Threads : ProcOf[t] # p => call'[t] = call[t] /\ job'[t] = job[t]
  PROVE  JitInv'
<1>1. ASSUME NEW t \in Threads, ProcOf[t] # p PROVE CallOK(t)'
  <2>1. CallOK(t) /\ call'[t] = call[t] /\ job'[t] = job[t] /\ src'[ProcOf[t]] = src[ProcOf[t]]
    BY <1>1, ProcOfAssumption DEF JitInv
  <2> QED
    BY <2>1, CallStays
<1>2. \A t \in Threads : CallOK(t)'
  BY <1>1, Waits
<1> QED
  BY <1>2 DEF JitInv

LEMMA SetSteps ==
  ASSUME JitInv, NEW p \in Procs, NEW s \in program.sources, NEW v \in Globals,
         SetSrc(p, s) \/ SetGlobal(p, v)
  PROVE  JitInv'
<1>1. /\ UNCHANGED cacheVars /\ call' = call /\ program' = program /\ cache' = cache
      /\ BetweenCalls(p)
      /\ \A q \in Procs : src'[q] = src[q] \/ "src" \in program.changes
      /\ \A q \in Procs \ {p} : src'[q] = src[q]
  BY DEF JitInv, MemoryOK, SetSrc, SetGlobal
<1>2. \A q \in Procs : \A x, y : Suits(q, x, y) => Suits(q, x, y)'
  BY <1>1, StaysSuited
<1>3. MemoryOK'
  <2>1. (\A q \in Procs : \A x \in DOMAIN cache[q] : Suits(q, cache[q][x], x))'
    BY <1>1, <1>2 DEF JitInv, MemoryOK
  <2>2. /\ src' \in [Procs -> program.sources] /\ global' \in [Procs -> Globals]
        /\ DOMAIN hash' = Procs /\ \A q \in Procs : hash'[q] \in {None, src'[q]}
    BY DEF JitInv, MemoryOK, SetSrc, SetGlobal
  <2> QED
    BY <1>1, <2>1, <2>2 DEF JitInv, MemoryOK
<1>4. CacheOK'
  BY <1>1, CacheStays DEF JitInv
<1>5. \A t \in Threads : ProcOf[t] = p => call'[t] = Waiting /\ job'[t].step = "idle"
  <2> SUFFICES ASSUME NEW t \in Threads, ProcOf[t] = p
               PROVE  call'[t] = Waiting /\ job'[t].step = "idle"
    OBVIOUS
  <2>1. call[t] = Waiting
    BY <1>1 DEF BetweenCalls
  <2>2. call[t].step = "none"
    BY <2>1 DEF Waiting
  <2>3. job[t].step = "idle"
    BY <2>2 DEF JitInv, CallOK
  <2> QED
    BY <1>1, <2>1, <2>3 DEF cacheVars
<1> QED
  BY <1>1, <1>3, <1>4, <1>5, OtherCalls DEF JitInv, cacheVars

LEMMA RestartStep ==
  ASSUME JitInv, NEW p \in Procs, NEW s \in program.sources, Restart(p, s)
  PROVE  JitInv'
<1> DEFINE T == {t \in Threads : ProcOf[t] = p}
<1>1. /\ Die(T) /\ program' = program
      /\ \A q \in Procs \ {p} : src'[q] = src[q] /\ cache'[q] = cache[q]
      /\ cache'[p] = <<>> /\ DOMAIN cache' = Procs
  BY DEF JitInv, MemoryOK, Restart
<1>2. CacheOK'
  BY <1>1, LossSteps DEF JitInv
<1>3. MemoryOK'
  <2>1. \A q \in Procs \ {p} : \A x, y : Suits(q, x, y) => Suits(q, x, y)'
    BY <1>1, StaysSuited
  <2>2. (\A q \in Procs : \A x \in DOMAIN cache[q] : Suits(q, cache[q][x], x))'
    BY <1>1, <2>1 DEF JitInv, MemoryOK
  <2>3. /\ src' \in [Procs -> program.sources] /\ global' \in [Procs -> Globals]
        /\ DOMAIN hash' = Procs /\ \A q \in Procs : hash'[q] \in {None, src'[q]}
    BY DEF JitInv, MemoryOK, Restart, Globals
  <2> QED
    BY <1>1, <2>2, <2>3 DEF JitInv, MemoryOK
<1>4. /\ \A t \in Threads : ProcOf[t] = p => call'[t] = Waiting /\ job'[t].step = "idle"
      /\ \A t \in Threads : ProcOf[t] # p => call'[t] = call[t] /\ job'[t] = job[t]
      /\ DOMAIN call' = Threads
  BY DEF Restart, Die, Idle
<1> QED
  BY <1>1, <1>2, <1>3, <1>4, OtherCalls

LEMMA JitStutter == JitInv /\ UNCHANGED <<cacheVars, jitVars>> => JitInv'
<1> SUFFICES ASSUME JitInv, UNCHANGED cacheVars, UNCHANGED jitVars PROVE JitInv'
  OBVIOUS
<1>1. CacheOK' /\ MemoryOK' /\ program' = program
  BY CacheStays, MemoryStays DEF JitInv, jitVars, memory
<1>2. call' = call /\ job' = job /\ src' = src
  BY DEF cacheVars, jitVars
<1>3. \A t \in Threads : CallOK(t)'
  BY <1>1, <1>2, CallStays DEF JitInv
<1> QED
  BY <1>1, <1>2, <1>3 DEF JitInv

LEMMA JitInitInv == JitInit => JitInv
<1> SUFFICES ASSUME JitInit PROVE JitInv
  OBVIOUS
<1>1. CacheOK
  BY DEF JitInit, CacheInit, CacheOK, DiskOK, JobOK, Idle, Asking, has_file
<1>2. MemoryOK
  BY DEF JitInit, MemoryOK, Globals
<1>3. \A t \in Threads : CallOK(t)
  BY DEF JitInit, CacheInit, CallOK, Waiting, Idle
<1> QED
  BY <1>1, <1>2, <1>3 DEF JitInit, JitInv

LEMMA JitStepInv == JitInv /\ [JitNext]_<<cacheVars, jitVars>> => JitInv'
<1> SUFFICES ASSUME JitInv, [JitNext]_<<cacheVars, jitVars>> PROVE JitInv'
  OBVIOUS
<1>1. ASSUME NEW t \in Threads, JitStep(t) PROVE JitInv'
  BY <1>1, CallStep, RunHitStep, RunMissStep, ReturnSteps, MakeIrStep, KeepStep,
     CompileRaisesStep, GlobalsHoldStep, CacheStepStep DEF JitStep
<1>2. ASSUME NEW p \in Procs, NEW s \in program.sources, SetSrc(p, s) \/ Restart(p, s)
      PROVE  JitInv'
  BY <1>2, SetSteps, RestartStep DEF Globals
<1>3. ASSUME NEW p \in Procs, NEW v \in Globals, SetGlobal(p, v) PROVE JitInv'
  BY <1>3, SetSteps DEF JitInv, MemoryOK
<1>4. ASSUME NEW file \in DOMAIN disk, Evict(file), UNCHANGED jitVars PROVE JitInv'
  BY <1>4, EvictStep
<1> QED
  BY <1>1, <1>2, <1>3, <1>4, JitStutter DEF JitNext

\* Whatever is compiled, edited, evicted or left unfinished by whom, what a thread
\* launches was built from its function and for its argument.
THEOREM LaunchesAreCurrent == JitSpec => []LaunchedIsCurrent
<1>1. JitInv => LaunchedIsCurrent
  <2> SUFFICES ASSUME JitInv, NEW t \in Threads, call[t].step = "launch",
                      NEW build \in {call[t].kernel.metadata, call[t].kernel.binary}
               PROVE  /\ build.src = src[ProcOf[t]] \/ "src" \in program.changes
                      /\ Fits(build.config, call[t].arg)
    BY DEF LaunchedIsCurrent, Kernels
  <2>1. PICK b : b = call[t].arg /\ b \in Passed /\ Suits(ProcOf[t], call[t].kernel, KeyOf(b))
    <3>1. CallOK(t)
      BY DEF JitInv
    <3>2. call[t].arg \in Passed
      BY <3>1 DEF CallOK
    <3>3. PICK kernel, warmup :
            /\ call[t] = [step |-> call[t].step, arg |-> call[t].arg, warmup |-> warmup,
                          kernel |-> kernel]
            /\ Suits(ProcOf[t], kernel, KeyOf(call[t].arg))
      BY <3>1 DEF CallOK
    <3>4. call[t].kernel = kernel
      BY <3>3
    <3> QED
      BY <3>2, <3>3, <3>4
  <2>2. PICK a \in Passed, s \in SourcesOf(ProcOf[t]) :
          /\ KeyOf(a) = KeyOf(b)
          /\ call[t].kernel \in KernelsOf([src |-> s, config |-> _get_config(program, a)])
    BY <2>1 DEF Suits
  <2>3. build.src = s /\ build.config = _get_config(program, a)
    BY <2>2 DEF KernelsOf, BuildsOf, KernelOf
  <2>4. Fits(_get_config(program, a), b)
    BY <2>1, <2>2, SameKeyFits DEF JitInv, MemoryOK
  <2> QED
    BY <2>1, <2>3, <2>4 DEF SourcesOf
<1> QED
  BY <1>1, JitInitInv, JitStepInv, PTL DEF JitSpec
-----------------------------------------------------------------------------
(***************************************************************************)
(* compile() and its files as a store that publishes whole kernels: every  *)
(* step of the program is one of the store's, or none.                     *)
(***************************************************************************)
Published == {x[1] : x \in {y \in DOMAIN disk : y[2] = "grp"}}

Want == [t \in Threads |-> IF job[t].step \in Asking THEN job[t].key ELSE None]

Found == {t \in Threads : job[t].step \in {"load", "read"}}

Got == [t \in Threads |-> Handed(t)]

storeVars == <<lossy, Published, Want, Found, Got>>

LEMMA StoreInit == JitInit => Store!Init
  BY DEF JitInit, CacheInit, Idle, Handed, Asking, Store!Init

\* A key is published when its group is there.
LEMMA PublishedKeys == \A k : has_file(k, "grp") => k \in Published
<1> SUFFICES ASSUME NEW k, has_file(k, "grp") PROVE k \in Published
  OBVIOUS
<1>1. <<k, "grp">> \in {y \in DOMAIN disk : y[2] = "grp"}
  BY DEF has_file
<1> QED
  BY <1>1 DEF Published
\* What the store sees of one job that moves.
LEMMA JobMoves ==
  ASSUME DOMAIN job = Threads, NEW t \in Threads, NEW r, job' = [job EXCEPT ![t] = r]
  PROVE  /\ Want' = [Want EXCEPT ![t] = IF r.step \in Asking THEN r.key ELSE None]
         /\ Found' = IF r.step \in {"load", "read"} THEN Found \cup {t} ELSE Found \ {t}
         /\ r.step \notin {"failed", "done"} => Got' = [Got EXCEPT ![t] = None]
         /\ r.step = "failed" => Got' = [Got EXCEPT ![t] = Failure]
         /\ r.step = "done" /\ r.kernel \in KernelsOf(r.key) => Got' = [Got EXCEPT ![t] = r.key]
<1>1. job'[t] = r /\ \A u \in Threads \ {t} : job'[u] = job[u]
  OBVIOUS
<1>2. Want' = [Want EXCEPT ![t] = IF r.step \in Asking THEN r.key ELSE None]
  BY <1>1 DEF Want
<1>3. Found' = IF r.step \in {"load", "read"} THEN Found \cup {t} ELSE Found \ {t}
  BY <1>1 DEF Found
<1>4. \A u \in Threads \ {t} : Handed(u)' = Handed(u)
  BY <1>1 DEF Handed
<1>5. Got' = [Got EXCEPT ![t] = Handed(t)']
  BY <1>4 DEF Got
<1>6. /\ r.step \notin {"failed", "done"} => Handed(t)' = None
      /\ r.step = "failed" => Handed(t)' = Failure
  BY <1>1 DEF Handed
<1>7. ASSUME r.step = "done", r.kernel \in KernelsOf(r.key) PROVE Handed(t)' = r.key
  <2>1. KernelOf(r.kernel.metadata) = r.key /\ KernelOf(r.kernel.binary) = r.key
    BY <1>7 DEF KernelsOf, BuildsOf
  <2> QED
    BY <1>1, <1>7, <2>1 DEF Handed
<1> QED
  BY <1>2, <1>3, <1>5, <1>6, <1>7

\* What the store sees of one job.
LEMMA JobNow ==
  ASSUME JitInv, NEW t \in Threads
  PROVE  /\ job[t].step \in Asking => Want[t] = job[t].key /\ Want[t] # None
         /\ job[t].step \notin Asking => Want[t] = None
         /\ t \in Found <=> job[t].step \in {"load", "read"}
         /\ job[t].step \notin {"failed", "done"} => Got[t] = None
<1>1. job[t].step \in Asking => job[t].key \in DiskKeys
  BY DEF JitInv, CacheOK, JobOK, Asking
<1> QED
  BY <1>1, NoneAssumption DEF Want, Found, Got, Handed

LEMMA AskStep ==
  ASSUME JitInv, NEW t \in Threads, RunMiss(t)
  PROVE  Store!Ask(t)
<1>1. PICK r : /\ job' = [job EXCEPT ![t] = r] /\ r.step = "find"
               /\ job[t].step = "idle" /\ disk' = disk /\ lossy' = lossy
  BY DEF RunMiss, Compile, Job
<1>2. r.key \in DiskKeys
  <2>1. JitInv'
    BY RunMissStep
  <2>2. job'[t] = r
    BY <1>1 DEF JitInv, CacheOK
  <2> QED
    BY <1>1, <2>1, <2>2 DEF JitInv, CacheOK, JobOK
<1>3. Want[t] = None /\ Got[t] = None /\ t \notin Found /\ r.key # None
  BY <1>1, <1>2, JobNow, NoneAssumption DEF Asking
<1>4. /\ Want' = [Want EXCEPT ![t] = r.key] /\ Found' = Found \ {t}
      /\ Got' = [Got EXCEPT ![t] = None]
  BY <1>1, JobMoves DEF JitInv, CacheOK, Asking
<1>5. Found' = Found /\ Got' = Got /\ Published' = Published /\ lossy' = lossy
  BY <1>1, <1>3, <1>4 DEF Got, Published
<1>6. Want'[t] # None /\ \A u \in Threads \ {t} : Want'[u] = Want[u]
  BY <1>3, <1>4 DEF Want
<1> QED
  BY <1>3, <1>5, <1>6 DEF Store!Ask, Want, Found, Got, Published

LEMMA FindStep ==
  ASSUME JitInv, NEW t \in Threads, Hit(t)
  PROVE  Store!Find(t)
<1>1. PICK r : /\ job' = [job EXCEPT ![t] = r] /\ r.step = "load" /\ r.key = job[t].key
               /\ job[t].step = "find" /\ disk' = disk /\ lossy' = lossy
               /\ has_file(job[t].key, "grp")
  BY DEF Hit, get_group
<1>2. Want[t] = job[t].key /\ Got[t] = None /\ Want[t] \in Published
  BY <1>1, JobNow, PublishedKeys DEF Asking
<1>3. /\ Want' = [Want EXCEPT ![t] = job[t].key] /\ Found' = Found \cup {t}
      /\ Got' = [Got EXCEPT ![t] = None]
  BY <1>1, JobMoves DEF JitInv, CacheOK, Asking
<1>4. Want' = Want /\ Got' = Got /\ Published' = Published /\ lossy' = lossy
  BY <1>1, <1>2, <1>3 DEF Want, Got, Published
<1> QED
  BY <1>2, <1>3, <1>4 DEF Store!Find, Want, Found, Got, Published

LEMMA PublishStep ==
  ASSUME JitInv, NEW t \in Threads, put_group(t)
  PROVE  Store!Publish(t)
<1>1. PICK r : /\ job' = [job EXCEPT ![t] = r] /\ r.step = "load" /\ r.key = job[t].key
               /\ job[t].step = "put" /\ lossy' = lossy
               /\ DOMAIN disk' = DOMAIN disk \cup {<<job[t].key, "grp">>}
  BY DEF put_group, Write
<1>2. Want[t] = job[t].key /\ Got[t] = None /\ Want[t] # None
  BY <1>1, JobNow DEF Asking
<1>3. /\ Want' = [Want EXCEPT ![t] = job[t].key] /\ Found' = Found \cup {t}
      /\ Got' = [Got EXCEPT ![t] = None]
  BY <1>1, JobMoves DEF JitInv, CacheOK, Asking
<1>4. Published' = Published \cup {Want[t]}
  <2>1. \A k : k \in Published <=> \E y \in DOMAIN disk : y[2] = "grp" /\ y[1] = k
    BY DEF Published
  <2>2. \A k : k \in Published' <=> \E y \in DOMAIN disk' : y[2] = "grp" /\ y[1] = k
    BY DEF Published
  <2>3. PICK x : /\ x[1] = Want[t] /\ x[2] = "grp"
                 /\ \A y : y \in DOMAIN disk' <=> y \in DOMAIN disk \/ y = x
    BY <1>1, <1>2
  <2>4. \A k : k \in Published' <=> k \in Published \/ k = Want[t]
    BY <2>1, <2>2, <2>3
  <2> QED
    BY <2>4
<1>5. Want' = Want /\ Got' = Got /\ lossy' = lossy
  BY <1>1, <1>2, <1>3 DEF Want, Got
<1> QED
  BY <1>2, <1>3, <1>4, <1>5 DEF Store!Publish, Want, Found, Got, Published

LEMMA GiveStep ==
  ASSUME JitInv, NEW t \in Threads, LoadBinary(t)
  PROVE  Store!Give(t)
<1>1. PICK r : /\ job' = [job EXCEPT ![t] = r] /\ r.step = "done" /\ r.key = job[t].key
               /\ r.kernel = [metadata |-> job[t].metadata,
                              binary |-> disk[<<job[t].key, BinaryExt>>]]
               /\ job[t].step = "read" /\ disk' = disk /\ lossy' = lossy
               /\ has_file(job[t].key, BinaryExt)
  BY PutsFacts DEF LoadBinary, Readable
<1>2. r.kernel \in KernelsOf(r.key)
  BY <1>1, FileHolds DEF JitInv, CacheOK, JobOK, KernelsOf
<1>3. Want[t] = job[t].key /\ t \in Found
  BY <1>1, JobNow DEF Asking
<1>4. /\ Want' = [Want EXCEPT ![t] = None] /\ Found' = Found \ {t}
      /\ Got' = [Got EXCEPT ![t] = r.key]
  BY <1>1, <1>2, JobMoves DEF JitInv, CacheOK, Asking
<1>5. Published' = Published /\ lossy' = lossy
  BY <1>1 DEF Published
<1> QED
  BY <1>1, <1>3, <1>4, <1>5 DEF Store!Give, Want, Found, Got, Published

\* What was found fails only where files are lost: a kernel that is in the store
\* has all of its files.
LEMMA FailStep ==
  ASSUME JitInv, NEW t \in Threads, MakeFails(t) \/ LoadFails(t)
  PROVE  Store!Fail(t)
<1>1. PICK r : /\ job' = [job EXCEPT ![t] = r] /\ r.step = "failed"
               /\ job[t].step \in {"make", "put", "load", "read"} /\ disk' = disk /\ lossy' = lossy
  BY DEF MakeFails, LoadFails, Job
<1>2. Want[t] # None
  BY <1>1, JobNow DEF Asking
<1>3. t \in Found => lossy
  <2> SUFFICES ASSUME t \in Found, ~lossy PROVE FALSE
    BY DEF JitInv, CacheOK
  <2>1. job[t].step \in {"load", "read"} /\ LoadFails(t)
    BY JobNow DEF MakeFails
  <2>2. /\ job[t].key \in DiskKeys /\ job[t].group = Named
        /\ \A f \in Named : has_file(job[t].key, f)
    BY <2>1 DEF JitInv, CacheOK, JobOK, DiskOK
  <2> QED
    BY <2>1, <2>2, PutsFacts DEF LoadFails, Readable
<1>4. /\ Want' = [Want EXCEPT ![t] = None] /\ Found' = Found \ {t}
      /\ Got' = [Got EXCEPT ![t] = Failure]
  BY <1>1, JobMoves DEF JitInv, CacheOK, Asking
<1>5. Published' = Published /\ lossy' = lossy
  BY <1>1 DEF Published
<1> QED
  BY <1>2, <1>3, <1>4, <1>5 DEF Store!Fail, Want, Found, Got, Published

LEMMA TakeStep ==
  ASSUME JitInv, NEW t \in Threads, Return(t)
  PROVE  Store!Take(t)
<1>1. PICK r : /\ job' = [job EXCEPT ![t] = r] /\ r.step = "idle"
               /\ job[t].step \in {"done", "failed"} /\ disk' = disk /\ lossy' = lossy
  BY DEF Return, Idle
<1>2. Want[t] = None /\ t \notin Found
  BY <1>1, JobNow DEF Asking
<1>3. /\ Want' = [Want EXCEPT ![t] = None] /\ Found' = Found \ {t}
      /\ Got' = [Got EXCEPT ![t] = None]
  BY <1>1, JobMoves DEF JitInv, CacheOK, Asking
<1>4. Want' = Want /\ Found' = Found /\ Published' = Published /\ lossy' = lossy
  BY <1>1, <1>2, <1>3 DEF Want, Published
<1> QED
  BY <1>3, <1>4 DEF Store!Take, Want, Found, Got, Published

\* Between finding and having a kernel the store sees nothing.
LEMMA UnseenSteps ==
  ASSUME JitInv, NEW t \in Threads, Miss(t) \/ MakeIr(t) \/ Put(t) \/ LoadMetadata(t)
  PROVE  UNCHANGED storeVars
<1>1. PICK r : /\ job' = [job EXCEPT ![t] = r] /\ r.key = job[t].key
               /\ r.step \in Asking /\ job[t].step \in Asking
               /\ r.step \in {"load", "read"} <=> job[t].step \in {"load", "read"}
  <2>1. CASE Miss(t) \/ LoadMetadata(t)
    BY <2>1 DEF Miss, LoadMetadata, Job, Asking
  <2>2. CASE MakeIr(t)
    <3>1. PICK build :
            /\ job' = [job EXCEPT ![t] = [step |-> "put", key |-> job[t].key, build |-> build,
                                          next |-> 1]]
            /\ job[t].step = "make"
      BY <2>2 DEF MakeIr, Make
    <3> DEFINE r == [step |-> "put", key |-> job[t].key, build |-> build, next |-> 1]
    <3>2. r.key = job[t].key /\ r.step = "put"
      OBVIOUS
    <3> HIDE DEF r
    <3> QED
      BY <3>1, <3>2 DEF Asking, r
  <2>3. CASE Put(t)
    <3>1. PICK k, build, n : job[t] = [step |-> "put", key |-> k, build |-> build, next |-> n]
      BY <2>3 DEF JitInv, CacheOK, JobOK, Put
    <3> DEFINE r == [job[t] EXCEPT !.next = job[t].next + 1]
    <3>2. job' = [job EXCEPT ![t] = r]
      BY <2>3 DEF Put
    <3>3. r.key = job[t].key /\ r.step = "put" /\ job[t].step = "put"
      BY <3>1
    <3> HIDE DEF r
    <3> QED
      BY <3>2, <3>3 DEF Asking
  <2> QED
    BY <2>1, <2>2, <2>3
<1>2. Published' = Published /\ lossy' = lossy
  <2>1. CASE Put(t)
    <3>1. PICK k, build, n : job[t] = [step |-> "put", key |-> k, build |-> build, next |-> n]
                             /\ n \in 1 .. Len(Puts)
      BY <2>1, PutsFacts DEF JitInv, CacheOK, JobOK, Put
    <3>2. Puts[n] # "grp" /\ DOMAIN disk' = DOMAIN disk \cup {<<k, Puts[n]>>}
      BY <2>1, <3>1, PutsFacts DEF Put, Write
    <3> QED
      BY <2>1, <3>2 DEF Put, Published
  <2>2. CASE ~Put(t)
    BY <2>2 DEF Miss, MakeIr, Make, LoadMetadata, Published
  <2> QED
    BY <2>1, <2>2
<1>3. Want[t] = job[t].key /\ Got[t] = None
  BY <1>1, JobNow DEF Asking
<1>4. /\ Want' = [Want EXCEPT ![t] = job[t].key] /\ Got' = [Got EXCEPT ![t] = None]
      /\ Found' = IF r.step \in {"load", "read"} THEN Found \cup {t} ELSE Found \ {t}
  <2>1. DOMAIN job = Threads /\ r.step \notin {"failed", "done"}
    BY <1>1 DEF JitInv, CacheOK, Asking
  <2> QED
    BY <1>1, <2>1, JobMoves
<1>5. Found' = Found
  <2>1. t \in Found <=> r.step \in {"load", "read"}
    BY <1>1, JobNow
  <2> QED
    BY <1>4, <2>1
<1>6. Want' = Want /\ Got' = Got
  BY <1>3, <1>4 DEF Want, Got
<1> QED
  BY <1>2, <1>5, <1>6 DEF storeVars
LEMMA DieStep ==
  ASSUME JitInv, NEW p \in Procs, NEW s \in program.sources, Restart(p, s)
  PROVE  Store!SomeDie
<1>1. PICK T : Die(T)
  BY DEF Restart
<1>2. ASSUME NEW t \in Threads, job'[t] = job[t]
      PROVE  Want'[t] = Want[t] /\ Got'[t] = Got[t] /\ (t \in Found' <=> t \in Found)
  BY <1>2 DEF Want, Got, Found, Handed
<1>3. ASSUME NEW t \in Threads, job'[t] = Idle
      PROVE  Want'[t] = None /\ Got'[t] = None /\ t \notin Found'
  <2>1. job'[t].step = "idle"
    BY <1>3 DEF Idle
  <2> QED
    BY <2>1 DEF Want, Got, Found, Handed, Asking
<1>4. \A t \in Threads : job'[t] = Idle \/ job'[t] = job[t]
  BY <1>1 DEF Die
<1>5. Published' = Published /\ lossy' = lossy
  BY <1>1 DEF Die, Published
<1> QED
  BY <1>2, <1>3, <1>4, <1>5
  DEF Store!SomeDie, Store!Die, Store!Stays, Want, Found, Got, Published

LEMMA LoseStep ==
  ASSUME NEW file \in DOMAIN disk, Evict(file)
  PROVE  Store!Lose
<1>1. Published' \subseteq Published /\ lossy /\ lossy' = lossy /\ job' = job
  BY DEF Evict, Published
<1>2. Want' = Want /\ Found' = Found /\ Got' = Got
  BY <1>1 DEF Want, Found, Got, Handed
<1> QED
  BY <1>1, <1>2 DEF Store!Lose, Want, Found, Got, Published

LEMMA UnseenRest == UNCHANGED cacheVars => UNCHANGED storeVars
  BY DEF cacheVars, storeVars, Published, Want, Found, Got, Handed

LEMMA StoreStep ==
  JitInv /\ [JitNext]_<<cacheVars, jitVars>> => Store!Next \/ UNCHANGED storeVars
<1> SUFFICES ASSUME JitInv, [JitNext]_<<cacheVars, jitVars>>
             PROVE  Store!Next \/ UNCHANGED storeVars
  OBVIOUS
<1>1. ASSUME NEW t \in Threads, JitStep(t) PROVE Store!Next \/ UNCHANGED storeVars
  <2>1. CASE RunMiss(t)
    BY <2>1, AskStep DEF Store!Next
  <2>2. CASE Hit(t)
    BY <2>2, FindStep DEF Store!Next
  <2>3. CASE put_group(t)
    BY <2>3, PublishStep DEF Store!Next
  <2>4. CASE LoadBinary(t)
    BY <2>4, GiveStep DEF Store!Next
  <2>5. CASE MakeFails(t) \/ LoadFails(t)
    BY <2>5, FailStep DEF Store!Next
  <2>6. CASE Keep(t) \/ CompileRaises(t)
    <3>1. Return(t)
      BY <2>6 DEF Keep, CompileRaises
    <3> QED
      BY <3>1, TakeStep DEF Store!Next
  <2>7. CASE Miss(t) \/ MakeIr(t) \/ Put(t) \/ LoadMetadata(t)
    BY <2>7, UnseenSteps
  <2>8. CASE UNCHANGED cacheVars
    BY <2>8, UnseenRest
  <2> QED
    BY <1>1, <2>1, <2>2, <2>3, <2>4, <2>5, <2>6, <2>7, <2>8
    DEF JitStep, CacheStep, Call, RunHit, Refuse, GlobalsChanged, GlobalsHold, Launch
<1>2. ASSUME NEW p \in Procs, NEW s \in program.sources, SetSrc(p, s) \/ Restart(p, s)
      PROVE  Store!Next \/ UNCHANGED storeVars
  BY <1>2, DieStep, UnseenRest DEF SetSrc, Store!Next, cacheVars
<1>3. ASSUME NEW p \in Procs, NEW v \in Globals, SetGlobal(p, v)
      PROVE  UNCHANGED storeVars
  BY <1>3, UnseenRest DEF SetGlobal, cacheVars
<1>4. ASSUME NEW file \in DOMAIN disk, Evict(file) PROVE Store!Next
  BY <1>4, LoseStep DEF Store!Next
<1> QED
  BY <1>1, <1>2, <1>3, <1>4, UnseenRest DEF JitNext

\* compile() with its files, its crashes and its evictions is a store that hands
\* out whole kernels.
THEOREM ImplementsKernelStore == JitSpec => ImplementsStore
<1>1. JitInv /\ [JitNext]_<<cacheVars, jitVars>> => [Store!Next]_(Store!vars)
  BY StoreStep DEF storeVars, Store!vars, Published, Want, Found, Got
<1> QED
  BY <1>1, StoreInit, JitInitInv, JitStepInv, PTL DEF JitSpec, ImplementsStore, Store!Spec
=============================================================================
