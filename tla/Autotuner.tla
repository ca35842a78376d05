----------------------------- MODULE Autotuner ------------------------------
(***************************************************************************)
(* triton.autotune (runtime/autotuner.py) of a kernel that adds to one     *)
(* argument and overwrites another.  run() measures every configuration    *)
(* once per key, with hooks that zero the first argument and restore the   *)
(* second around each call, keeps the best, and calls the kernel with it.  *)
(* A configuration may ask for resources that are not there, or raise.     *)
(***************************************************************************)
EXTENDS Naturals, Sequences

CONSTANTS
  Tunings,    \* how the kernel is tuned
  ArgNames,   \* the parameters but those two
  ArgValues,
  MaxTuned    \* bound: the calls of run

ASSUME NamesAssumption == "META" \notin ArgNames

\* names is the order of the function's parameters, where "META" is one the
\* configurations give and not the caller; outcome is what a configuration
\* does, and kept the configurations that pruning leaves, in its order.
IsTuning(u) ==
  /\ u.names \in Seq(ArgNames \cup {"META"})
  /\ \A i, j \in 1 .. Len(u.names) : u.names[i] = u.names[j] => i = j
  /\ \A n \in u.key \cup {"META"} : \E i \in 1 .. Len(u.names) : u.names[i] = n
  /\ u.key \subseteq ArgNames
  /\ u.reset \in BOOLEAN /\ u.restore \in BOOLEAN
  /\ u.outcome \in Seq({"fast", "slow", "exhausted", "raises"}) /\ u.outcome # <<>>
  /\ u.kept \in Seq(1 .. Len(u.outcome))

ASSUME TuningsAssumption == \A u \in Tunings : IsTuning(u)

VARIABLES
  tuning,     \* of Tunings; it never changes
  best,       \* self.cache: key -> configuration
  tunedFor,   \* key -> the arguments of the call that measured it
  args,       \* the arguments of this call
  sum,        \* what the call's first tensor holds: "given", "zero",
              \* or "added" to
  data,       \* what the second holds: "given" or "overwritten"
  copies,     \* self.restore_copies
  doing,      \* where run is
  left,       \* the configurations to measure
  again,      \* whether do_bench calls the kernel once more
  timings,    \* what was measured, in order: configuration and time
  tuned,      \* whether this call has measured
  ncalls

tunerVars == <<tuning, best, tunedFor, args, sum, data, copies, doing, left, again,
               timings, tuned, ncalls>>

\* key_idx are places among all parameters; _args are those the caller gives a
\* value, in order.
key_idx(n) == CHOOSE i \in 1 .. Len(tuning.names) : tuning.names[i] = n

Given == [i \in 1 .. Len(tuning.names) - 1 |->
            tuning.names[IF i < key_idx("META") THEN i ELSE i + 1]]

InRange == \A n \in tuning.key : key_idx(n) <= Len(Given)

\* Mutant: what the key is made of is not looked at.
TunerKeyOfNone(v) == {}

TunerKey(v) == {<<n, v[Given[key_idx(n)]]>> : n \in tuning.key}

Chosen == IF Len(tuning.outcome) = 1 THEN 1 ELSE best[TunerKey(args)]

TunerInit ==
  /\ tuning \in Tunings
  /\ best = <<>> /\ tunedFor = <<>>
  /\ args \in [ArgNames -> ArgValues]
  /\ sum = "given" /\ data = "given" /\ copies = "none"
  /\ doing = "idle"
  /\ left = <<>> /\ again = TRUE /\ timings = <<>> /\ tuned = FALSE
  /\ ncalls = 0

-----------------------------------------------------------------------------
\* run: what it does depends on the number of configurations and on the key.
Tune(v) ==
  /\ doing = "idle"
  /\ ncalls < MaxTuned
  /\ ncalls' = ncalls + 1
  /\ args' = v
  /\ sum' = "given" /\ data' = "given"
  /\ tuned' = FALSE
  /\ timings' = <<>>
  /\ again' = TRUE
  /\ left' = tuning.kept
  /\ doing' = IF Len(tuning.outcome) = 1 THEN "launch"
              ELSE IF ~InRange THEN "failed"
              ELSE IF TunerKey(v) \in DOMAIN best THEN "launch" ELSE "measure"
  /\ UNCHANGED <<tuning, best, tunedFor, copies>>

measurement == <<left, again, timings>>
results == <<tuning, best, tunedFor, args, tuned, ncalls>>

pre_hook ==
  /\ doing = "measure"
  /\ left # <<>>
  /\ sum' = IF tuning.reset THEN "zero" ELSE sum
  /\ copies' = IF tuning.restore THEN data ELSE copies
  /\ doing' = "call"
  /\ UNCHANGED <<results, measurement, data>>

\* The kernel has run when it returns, has not when resources lack, and may have
\* when something else is raised.
RunsKernel(ran) ==
  /\ sum' = IF ~ran THEN sum ELSE "added"
  /\ data' = IF ran THEN "overwritten" ELSE data

KernelCall ==
  /\ doing = "call"
  /\ \E ran \in BOOLEAN :
       /\ tuning.outcome[left[1]] = "exhausted" => ~ran
       /\ tuning.outcome[left[1]] \in {"fast", "slow"} => ran
       /\ RunsKernel(ran)
  /\ doing' = tuning.outcome[left[1]]
  /\ UNCHANGED <<results, measurement, copies>>

\* Mutant: the hook runs when the kernel has returned, and not when it raised.
post_hook_if_fine ==
  IF tuning.restore /\ doing \in {"fast", "slow"}
  THEN data' = copies /\ copies' = "none" ELSE UNCHANGED <<data, copies>>

post_hook ==
  IF tuning.restore THEN data' = copies /\ copies' = "none" ELSE UNCHANGED <<data, copies>>

Measured(time) ==
  /\ timings' = Append(timings, [config |-> left[1], time |-> time])
  /\ left' = Tail(left)
  /\ again' = TRUE
  /\ doing' = "measure"

AfterCall ==
  /\ doing \in {"fast", "slow", "exhausted", "raises"}
  /\ post_hook
  /\ \/ doing = "raises" /\ doing' = "failed" /\ UNCHANGED measurement
     \/ doing = "exhausted" /\ Measured(9)
     \/ /\ doing \in {"fast", "slow"} /\ again
        /\ again' = FALSE /\ doing' = "measure" /\ UNCHANGED <<left, timings>>
     \/ doing \in {"fast", "slow"} /\ ~again /\ Measured(IF doing = "fast" THEN 1 ELSE 2)
  /\ UNCHANGED <<results, sum>>

\* min of no timings is a ValueError.
NothingMeasured ==
  /\ doing = "measure" /\ left = <<>> /\ timings = <<>>
  /\ doing' = "failed"
  /\ UNCHANGED <<results, measurement, sum, data, copies>>

\* pre_hook(args, reset_only=True)
Zero == sum' = IF tuning.reset THEN "zero" ELSE sum

\* What is known of this call's key.
Noted(f, value) ==
  [K \in DOMAIN f \cup {TunerKey(args)} |-> IF K = TunerKey(args) THEN value ELSE f[K]]

Choose ==
  LET first == CHOOSE i \in 1 .. Len(timings) :
        \A j \in 1 .. Len(timings) :
          timings[i].time < timings[j].time \/ (timings[i].time = timings[j].time /\ i <= j)
  IN  /\ doing = "measure" /\ left = <<>> /\ timings # <<>>
      /\ best' = Noted(best, timings[first].config)
      /\ tunedFor' = Noted(tunedFor, args)
      /\ tuned' = TRUE
      /\ Zero
      /\ doing' = "launch"
      /\ UNCHANGED <<tuning, args, ncalls, measurement, data, copies>>

FinalCall ==
  /\ doing = "launch"
  /\ RunsKernel(tuning.outcome[Chosen] # "exhausted")
  /\ doing' = "idle"
  /\ UNCHANGED <<results, measurement, copies>>

Raise ==
  /\ doing = "failed"
  /\ doing' = "idle"
  /\ UNCHANGED <<results, measurement, sum, data, copies>>

TunerNext ==
  \/ \E v \in [ArgNames -> ArgValues] : Tune(v)
  \/ pre_hook \/ KernelCall \/ AfterCall \/ NothingMeasured \/ Choose \/ FinalCall \/ Raise

TunerSpec == TunerInit /\ [][TunerNext]_tunerVars
-----------------------------------------------------------------------------
(***************************************************************************)
(* autotuner.py:313-316 and the hooks: however many configurations were    *)
(* measured, ran out of resources or raised, the kernel that is called in  *)
(* the end, or the caller that gets the error, finds restored what is to   *)
(* be restored; and measuring leaves zeroed what is to be zeroed.          *)
(***************************************************************************)
MeasuringLeavesNoTrace ==
  /\ doing \in {"launch", "failed"} /\ tuning.restore => data = "given"
  /\ doing = "launch" /\ tuned /\ tuning.reset => sum = "zero"

(***************************************************************************)
(* "key: a list of argument names whose change in value will trigger the   *)
(* evaluation of all provided configs" (autotuner.py:307): what is     *)
(* called was measured for the values this call has, if the parameters the *)
(* configurations give are declared behind those of the key.               *)
(***************************************************************************)
MetaLast == tuning.names[Len(tuning.names)] = "META"

MeasuredForThisKey ==
  doing = "launch" /\ MetaLast /\ Len(tuning.outcome) > 1 =>
    \A n \in tuning.key : tunedFor[TunerKey(args)][n] = args[n]
=============================================================================
