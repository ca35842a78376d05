---------------------------- MODULE JitFunction -----------------------------
(***************************************************************************)
(* A JITFunction of one parameter and one global constant (runtime/jit.py) *)
(* in several processes that share the kernels on disk: run() looks for a  *)
(* kernel in its own cache, by a key made of the argument's type and       *)
(* specialisation, compiles on a miss, keeps the kernel, compares the      *)
(* globals with those its hash was computed with, and launches.            *)
(***************************************************************************)
EXTENDS KernelCache

CONSTANTS
  Procs,
  ProcOf,     \* thread -> its process
  Programs,   \* the declaration of the parameter, what is passed for it,
              \* the texts the function is edited between, what of
              \* {"src", "global"} is changed between calls, and (the
              \* bounds of a run) the calls each thread makes and whether
              \* files are evicted
  Failure

\* One is no multiple of sixteen, and None counts as one (is_divisible_by_16).
IsArgument(a) ==
  /\ a.type \in STRING /\ a.div16 \in BOOLEAN /\ a.one \in BOOLEAN
  /\ ~(a.div16 /\ a.one)
  /\ a.type = "none" => a.div16

IsProgram(q) ==
  /\ q.quota \in [Threads -> Nat]
  /\ q.annotation \in STRING /\ q.do_not_specialize \in BOOLEAN
  /\ \A a \in q.args : IsArgument(a)
  /\ None \notin q.sources

ASSUME ProcOfAssumption == ProcOf \in [Threads -> Procs]
ASSUME ProgramsAssumption == \A q \in Programs : IsProgram(q)

VARIABLES
  program,    \* of Programs; it never changes
  src,        \* process -> JITFunction.src
  global,     \* process -> the value of the global constant
  hash,       \* process -> the source its hash is of, or None
  used,       \* process -> used_global_vals
  cache,      \* process -> key -> kernel, or None
  call,       \* thread -> its call of run
  calls       \* thread -> the calls it has left

jitVars == <<program, src, global, hash, used, cache, call, calls>>

Globals == 1 .. 2

Hash(p) == IF hash[p] = None THEN src[p] ELSE hash[p]

mangle_type(q, a) == IF q.annotation # "" THEN q.annotation ELSE a.type

\* Mutant: a one is nothing special.
compute_spec_key_no_one(a) == IF a.div16 /\ a.type # "none" THEN "D" ELSE "N"

compute_spec_key(a) ==
  IF a.div16 /\ a.type # "none" THEN "D" ELSE IF a.one THEN "1" ELSE "N"

\* The key of the function's own cache.
KeyOf(a) ==
  <<mangle_type(program, a), IF program.do_not_specialize THEN "" ELSE compute_spec_key(a)>>

\* What is compiled for: the signature, the attributes and the constants.
_get_config(q, a) ==
  [type |-> IF mangle_type(q, a) = "none" THEN "*i8" ELSE mangle_type(q, a),
   divisible_by_16 |-> a.div16 /\ ~q.do_not_specialize,
   equal_to_1 |-> a.one /\ a.type # "i1" /\ ~q.do_not_specialize,
   none |-> a.type = "none"]

\* What may be asked for; None and Failure are none of it.
DiskKeys ==
  UNION {[src : q.sources, config : {_get_config(q, a) : a \in q.args}] : q \in Programs}

ASSUME NoneAssumption == None \notin DiskKeys /\ Failure \notin DiskKeys \cup {None}

DiskKey(p, a) == [src |-> Hash(p), config |-> _get_config(program, a)]

Waiting == [step |-> "none"]

Start(t, a, how) == call' = [call EXCEPT ![t] = [step |-> how, arg |-> a]]

Goto(t, step) == call' = [call EXCEPT ![t].step = step]

Finish(t) == call' = [call EXCEPT ![t] = Waiting]

JitInit ==
  /\ CacheInit
  /\ program \in Programs
  /\ lossy \in program.lossy
  /\ src \in [Procs -> program.sources]
  /\ global = [p \in Procs |-> 1]
  /\ hash = [p \in Procs |-> None]
  /\ used = [p \in Procs |-> None]
  /\ cache = [p \in Procs |-> <<>>]
  /\ call = [t \in Threads |-> Waiting]
  /\ calls = program.quota

memory == <<program, src, global, hash, used, cache>>

Cached(p, k) == k \in DOMAIN cache[p]

-----------------------------------------------------------------------------
\* A kernel is called, warmed up or preloaded.  A parameter that is declared an
\* integer is not called with None.
Call(t, a, how) ==
  /\ call[t] = Waiting
  /\ calls[t] > 0
  /\ program.annotation # "" => a.type # "none"
  /\ Start(t, a, how)
  /\ calls' = [calls EXCEPT ![t] = @ - 1]
  /\ UNCHANGED <<memory, cacheVars>>

RunHit(t) ==
  /\ call[t].step \in {"run", "warmup"}
  /\ Cached(ProcOf[t], KeyOf(call[t].arg))
  /\ call' = [call EXCEPT ![t] =
       [step |-> "check", arg |-> call[t].arg, warmup |-> call[t].step = "warmup",
        kernel |-> cache[ProcOf[t]][KeyOf(call[t].arg)]]]
  /\ UNCHANGED <<memory, calls, cacheVars>>

\* cache_key computes the hash, and takes the globals, unless it has a hash.
\* preload compiles whatever its cache holds.
RunMiss(t) ==
  LET p == ProcOf[t]
  IN  /\ \/ call[t].step \in {"run", "warmup"} /\ ~Cached(p, KeyOf(call[t].arg))
         \/ call[t].step = "preload"
      /\ hash' = [hash EXCEPT ![p] = Hash(p)]
      /\ used' = IF hash[p] = None THEN [used EXCEPT ![p] = global[p]] ELSE used
      /\ Compile(t, DiskKey(p, call[t].arg))
      /\ call' = [call EXCEPT ![t] = [step |-> "compile", arg |-> call[t].arg,
                                      how |-> call[t].step]]
      /\ UNCHANGED <<program, src, global, cache, calls>>

\* An unknown keyword, a callable constant, or a cache_hook that takes over.
Refuse(t) ==
  /\ call[t].step \in {"run", "warmup"}
  /\ ~Cached(ProcOf[t], KeyOf(call[t].arg))
  /\ Finish(t)
  /\ UNCHANGED <<memory, calls, cacheVars>>

\* make_ir visits the function as it is now.
MakeIr(t) ==
  /\ Make(t, [src |-> src[ProcOf[t]], config |-> _get_config(program, call[t].arg),
              global |-> global[ProcOf[t]]])
  /\ UNCHANGED jitVars

Keep(t) ==
  /\ call[t].step = "compile"
  /\ job[t].step = "done"
  /\ cache' = [cache EXCEPT ![ProcOf[t]] =
       [k \in DOMAIN @ \cup {KeyOf(call[t].arg)} |->
          IF k = KeyOf(call[t].arg) THEN job[t].kernel ELSE @[k]]]
  /\ call' = [call EXCEPT ![t] =
       IF call[t].how = "preload" THEN Waiting
       ELSE [step |-> "check", arg |-> call[t].arg, warmup |-> call[t].how = "warmup",
             kernel |-> job[t].kernel]]
  /\ Return(t)
  /\ UNCHANGED <<program, src, global, hash, used, calls>>

CompileRaises(t) ==
  /\ call[t].step = "compile"
  /\ job[t].step = "failed"
  /\ Finish(t)
  /\ Return(t)
  /\ UNCHANGED <<memory, calls>>

\* "Check that used global values have not changed."
GlobalsChanged(t) ==
  /\ call[t].step = "check"
  /\ used[ProcOf[t]] \notin {None, global[ProcOf[t]]}
  /\ Finish(t)
  /\ UNCHANGED <<memory, calls, cacheVars>>

GlobalsHold(t) ==
  /\ call[t].step = "check"
  /\ used[ProcOf[t]] \in {None, global[ProcOf[t]]}
  /\ IF call[t].warmup THEN Finish(t) ELSE Goto(t, "launch")
  /\ UNCHANGED <<memory, calls, cacheVars>>

Launch(t) ==
  /\ call[t].step = "launch"
  /\ Finish(t)
  /\ UNCHANGED <<memory, calls, cacheVars>>

-----------------------------------------------------------------------------
BetweenCalls(p) == \A t \in Threads : ProcOf[t] = p => call[t] = Waiting

\* __setattr__: a new source resets the hash, and nothing else.
SetSrc(p, s) ==
  /\ "src" \in program.changes
  /\ BetweenCalls(p)
  /\ s # src[p]
  /\ src' = [src EXCEPT ![p] = s]
  /\ hash' = [hash EXCEPT ![p] = None]
  /\ UNCHANGED <<program, global, used, cache, call, calls, cacheVars>>

SetGlobal(p, v) ==
  /\ "global" \in program.changes
  /\ BetweenCalls(p)
  /\ v # global[p]
  /\ global' = [global EXCEPT ![p] = v]
  /\ UNCHANGED <<program, src, hash, used, cache, call, calls, cacheVars>>

\* A process dies and its script is started again, as it is or edited.
Restart(p, s) ==
  LET T == {t \in Threads : ProcOf[t] = p}
  IN  /\ Die(T)
      /\ call' = [t \in Threads |-> IF t \in T THEN Waiting ELSE call[t]]
      /\ src' = [src EXCEPT ![p] = s]
      /\ global' = [global EXCEPT ![p] = 1]
      /\ hash' = [hash EXCEPT ![p] = None]
      /\ used' = [used EXCEPT ![p] = None]
      /\ cache' = [cache EXCEPT ![p] = <<>>]
      /\ UNCHANGED <<program, calls>>

JitStep(t) ==
  \/ \E a \in program.args, how \in {"run", "warmup", "preload"} : Call(t, a, how)
  \/ RunHit(t) \/ RunMiss(t) \/ Refuse(t) \/ MakeIr(t) \/ Keep(t)
  \/ CompileRaises(t) \/ GlobalsChanged(t) \/ GlobalsHold(t) \/ Launch(t)
  \/ CacheStep(t) /\ UNCHANGED jitVars

JitNext ==
  \/ \E t \in Threads : JitStep(t)
  \/ \E p \in Procs, s \in program.sources : SetSrc(p, s) \/ Restart(p, s)
  \/ \E p \in Procs, v \in Globals : SetGlobal(p, v)
  \/ \E file \in DOMAIN disk : Evict(file) /\ UNCHANGED jitVars

JitSpec == JitInit /\ [][JitNext]_<<cacheVars, jitVars>>
-----------------------------------------------------------------------------
Kernels(t) == IF call[t].step = "launch" THEN {call[t].kernel} ELSE {}

\* What a kernel was compiled for holds of the argument it is launched with.
Fits(config, a) ==
  /\ config.divisible_by_16 => a.div16
  /\ config.equal_to_1 => a.one
  /\ config.none <=> a.type = "none"
  /\ config.type \in {mangle_type(program, a), "*i8"}

(***************************************************************************)
(* jit.py:633-686 with compiler.py:243-331: whatever other threads and     *)
(* processes compile, evict or leave unfinished, the metadata and the      *)
(* binary that are launched are those of the function as it stands in this *)
(* process, compiled under assumptions that hold of this argument.  (A     *)
(* program that sets src after a call has to empty the cache itself.)      *)
(***************************************************************************)
LaunchedIsCurrent ==
  \A t \in Threads : \A kernel \in Kernels(t) :
    \A build \in {kernel.metadata, kernel.binary} :
      /\ build.src = src[ProcOf[t]] \/ "src" \in program.changes
      /\ Fits(build.config, call[t].arg)

(***************************************************************************)
(* "Then every time we run the function, we check that the values of the   *)
(* globals match what's expected, otherwise we raise an error."            *)
(* (jit.py:743-745): a kernel is launched under the value of the global it *)
(* was compiled with.                                                      *)
(***************************************************************************)
LaunchedUnderItsGlobals ==
  \A t \in Threads : \A kernel \in Kernels(t) : kernel.binary.global = global[ProcOf[t]]

\* The key whose kernel a build is a part of.
KernelOf(build) == [src |-> build.src, config |-> build.config]

Handed(t) ==
  IF job[t].step = "failed" THEN Failure
  ELSE IF job[t].step # "done" THEN None
  ELSE IF KernelOf(job[t].kernel.metadata) = KernelOf(job[t].kernel.binary)
  THEN KernelOf(job[t].kernel.binary) ELSE Failure

Asking == {"find", "make", "put", "load", "read"}

(***************************************************************************)
(* compile() and the files under it are a store that publishes whole       *)
(* kernels at once (module KernelStore).                                   *)
(***************************************************************************)
Store == INSTANCE KernelStore WITH
  Clients <- Threads, Nobody <- None, Failure <- Failure,
  published <- {x[1] : x \in {y \in DOMAIN disk : y[2] = "grp"}},
  want <- [t \in Threads |-> IF job[t].step \in Asking THEN job[t].key ELSE None],
  found <- {t \in Threads : job[t].step \in {"load", "read"}},
  got <- [t \in Threads |-> Handed(t)]

ImplementsStore == Store!Spec
=============================================================================
