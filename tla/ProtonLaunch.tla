---------------------------- MODULE ProtonLaunch ----------------------------
(***************************************************************************)
(* One Proton session and the launches it profiles, as they run at once:   *)
(* launchers in nvidia's driver.py, which give up the interpreter lock     *)
(* around the launch itself; CUPTI's callbacks in them (callbackFn); the   *)
(* worker that hands finished activity to completeBuffer; and the calls of *)
(* the bindings, which hold the interpreter lock to the end.               *)
(*                                                                         *)
(* Everything of Profiler, GPUProfiler, TreeData and OpInterface that the  *)
(* four share is here, with the locks it is under.                         *)
(***************************************************************************)
EXTENDS Naturals, Sequences

CONSTANTS
  Launchers,    \* threads that launch kernels
  Main,         \* the thread that calls the bindings
  Programs,     \* the programs a run ranges over
  MaxLaunches,  \* bound: the launches of all threads
  MaxCalls,     \* bound: the calls of the bindings
  MaxRetries,   \* the retries of Correlation::flush (100 in the code)
  Free,         \* the holder of a lock nobody holds
  Nothing       \* no scope, or no record

ASSUME ThreadsAssumption == Main \notin Launchers /\ Free \notin Launchers \cup {Main}
ASSUME BoundsAssumption ==
  MaxLaunches \in Nat /\ MaxCalls \in Nat /\ MaxRetries \in Nat

LaunchIds == 1 .. MaxLaunches

\* A scope has an id of its own, whether the hook or the callback made it.
Scopes == [launch : LaunchIds, by : {"hook", "callback"}]

Scope(k, by) == [launch |-> k, by |-> by]

\* Activity: the scope it is correlated with, and whether the kernel had finished.
Records == [launch : LaunchIds, scope : Scopes \cup {Nothing}, complete : BOOLEAN]

ASSUME NothingAssumption ==
  Nothing \notin Scopes \cup [record : Records, dataSet : BOOLEAN]

\* What a program is: the calls before which it lets all launches return (it
\* finalizes only so), whether the Triton hook is registered, whether a launch
\* may fail between the hook and the driver call, whether the main thread has a
\* device context, and the context source.
ProgramType ==
  [joins : SUBSET {"add", "activate", "deactivate", "finalize"},
   hooked : BOOLEAN, fails : BOOLEAN, device : BOOLEAN, context : {"shadow", "python"}]

ASSUME ProgramsAssumption == Programs \subseteq ProgramType

VARIABLES
  program,     \* which of Programs; it never changes
  gil,         \* holder of the interpreter lock
  profLock,    \* holder of Profiler::mutex, exclusively
  dataLock,    \* holder of Data::mutex
  thread,      \* the state of every launcher
  main,        \* the step of the call under way, and what it is to do next
  launches,    \* the launches begun so far; a launch's correlation id
  calls,       \* the calls begun so far
  active,      \* activeSessions
  started,     \* Profiler::isInitialized: callbacks are delivered
  dataSet,     \* the session's data is in Profiler::dataSet
  freed,       \* the session is finalized and its data given back
  scopes,      \* the keys of TreeData::scopeIdToContextId
  running,     \* kernels on the device
  records,     \* activity that has finished and was not handed over
  worker,      \* the record completeBuffer is at, or Nothing
  submitted,   \* Correlation::maxSubmittedCorrelationId
  completed,   \* Correlation::maxCompletedCorrelationId
  metrics,     \* the metrics in the data
  caught,      \* history: the launches a deactivation was called in
  returned,    \* history: the profiled launches that returned and were not
  owed,        \* history: those that had when the last flush was called for
  stale        \* history: freed data was touched

session == <<calls, active, caught, owed>>
host == <<session, main, dataSet, freed, started>>
others == <<program, profLock, host>>
gpu == <<running, records, worker, completed, metrics>>
vars == <<program, gil, profLock, dataLock, thread, launches, scopes, submitted,
          returned, stale, host, gpu>>

Larger(a, b) == IF a < b THEN b ELSE a

\* The state of a launcher: its step, its launch, profilerState.isRecording, its
\* stack of external correlation ids, opInProgress of the data, whether the
\* callback's snapshot has the data, and whether there was a callback.
Launcher(step, k) ==
  [step |-> step, launch |-> k, recording |-> FALSE, external |-> <<>>,
   inOp |-> FALSE, snapshot |-> FALSE, called |-> FALSE]

Init ==
  /\ program \in Programs
  /\ gil = Free /\ profLock = Free /\ dataLock = Free
  /\ thread = [t \in Launchers |-> Launcher("idle", 0)]
  /\ main = [step |-> "idle", final |-> FALSE, target |-> 0, retries |-> 0]
  /\ launches = 0 /\ calls = 0
  /\ active = FALSE /\ started = FALSE /\ dataSet = FALSE /\ freed = FALSE
  /\ scopes = {} /\ running = {} /\ records = {} /\ worker = Nothing
  /\ submitted = 0 /\ completed = 0
  /\ metrics = {} /\ caught = {} /\ returned = {} /\ owed = {}
  /\ stale = FALSE

-----------------------------------------------------------------------------
(* OpInterface::enterOp and exitOp of the profiler and of the data.         *)

EnterProfilerOp(th, scope) ==
  IF th.recording THEN th
  ELSE [th EXCEPT !.recording = TRUE, !.external = Append(@, scope)]

\* Mutant: the profiler's op does not end.
ExitProfilerOpNever(th) == th

ExitProfilerOp(th) ==
  IF ~th.recording THEN th
  ELSE [th EXCEPT !.recording = FALSE, !.external = SubSeq(@, 1, Len(@) - 1)]

EnterDataOp(th) == [th EXCEPT !.inOp = TRUE]

ExitDataOp(th) == [th EXCEPT !.inOp = FALSE]

At(t, step) == thread[t].step = step

Step(t, th, step) == thread' = [thread EXCEPT ![t] = [th EXCEPT !.step = step]]

Quiet == \A t \in Launchers : At(t, "idle")

-----------------------------------------------------------------------------
(* A launch: driver.py's launch(), and callbackFn on entry and exit.        *)

CallLaunch(t) ==
  /\ At(t, "idle") /\ gil = Free /\ launches < MaxLaunches
  /\ gil' = t
  /\ launches' = launches + 1
  /\ thread' = [thread EXCEPT ![t].step = "hook", ![t].launch = launches + 1]
  /\ UNCHANGED <<dataLock, scopes, submitted, returned, stale, gpu, others>>

\* launch_enter_hook: SessionManager::enterOp of the registered interfaces.
EnterHook(t) ==
  LET th    == thread[t]
      scope == Scope(th.launch, "hook")
  IN  /\ At(t, "hook")
      /\ IF program.hooked /\ active
         THEN /\ th.inOp \/ dataLock = Free
              /\ scopes' = IF th.inOp THEN scopes ELSE scopes \cup {scope}
              /\ Step(t, EnterDataOp(EnterProfilerOp(th, scope)), "ready")
         ELSE Step(t, th, "ready") /\ UNCHANGED scopes
      /\ UNCHANGED <<gil, dataLock, launches, submitted, returned, stale, gpu, others>>

\* A pointer argument is not valid: launch() returns without the exit hook.
Fail(t) ==
  /\ At(t, "ready") /\ program.fails
  /\ gil' = Free
  /\ Step(t, thread[t], "idle")
  /\ UNCHANGED <<dataLock, launches, scopes, submitted, returned, stale, gpu, others>>

AllowThreads(t) ==
  /\ At(t, "ready")
  /\ gil' = Free
  /\ Step(t, thread[t], "enter")
  /\ UNCHANGED <<dataLock, launches, scopes, submitted, returned, stale, gpu, others>>

\* CUPTI_API_ENTER: record() takes a snapshot of the data set under the
\* profiler's mutex, and the profiler's own op begins.
Record(t) ==
  LET th    == [thread[t] EXCEPT !.snapshot = dataSet, !.called = TRUE]
      scope == Scope(th.launch, "callback")
  IN  /\ At(t, "enter") /\ started /\ profLock = Free
      /\ Step(t, EnterProfilerOp(th, scope), "data")
      /\ UNCHANGED <<gil, dataLock, launches, scopes, submitted, returned, stale, gpu, others>>

NoCallback(t) ==
  /\ At(t, "enter") /\ ~started
  /\ Step(t, [thread[t] EXCEPT !.snapshot = FALSE, !.called = FALSE], "kernel")
  /\ UNCHANGED <<gil, dataLock, launches, scopes, submitted, returned, stale, gpu, others>>

\* enterOp of the data in the snapshot.  With the python context source startOp
\* keeps the data's mutex while it waits for the interpreter lock.
EnterData(t) ==
  LET th == thread[t]
  IN  /\ At(t, "data")
      /\ stale' = (stale \/ (th.snapshot /\ freed))
      /\ \/ /\ ~th.snapshot \/ th.inOp
            /\ Step(t, th, "kernel")
            /\ UNCHANGED <<dataLock, scopes>>
         \/ /\ th.snapshot /\ ~th.inOp /\ dataLock = Free
            /\ program.context = "shadow"
            /\ scopes' = scopes \cup {Scope(th.launch, "callback")}
            /\ Step(t, EnterDataOp(th), "kernel")
            /\ UNCHANGED dataLock
         \/ /\ th.snapshot /\ ~th.inOp /\ dataLock = Free
            /\ program.context = "python"
            /\ dataLock' = t
            /\ Step(t, EnterDataOp(th), "context")
            /\ UNCHANGED scopes
      /\ UNCHANGED <<gil, launches, submitted, returned, gpu, others>>

GetContexts(t) ==
  /\ At(t, "context") /\ gil = Free
  /\ scopes' = scopes \cup {Scope(thread[t].launch, "callback")}
  /\ dataLock' = Free
  /\ Step(t, thread[t], "kernel")
  /\ UNCHANGED <<gil, launches, submitted, returned, stale, gpu, others>>

LastScope(th) == IF th.external = <<>> THEN Nothing ELSE th.external[Len(th.external)]

\* The driver puts the kernel on the device; its activity is correlated with the
\* scope that was pushed last.
Kernel(t) ==
  LET th == thread[t]
  IN  /\ At(t, "kernel")
      /\ running' =
           IF started THEN running \cup {[launch |-> th.launch, scope |-> LastScope(th)]}
           ELSE running
      /\ Step(t, th, IF th.called THEN "exit" ELSE "return")
      /\ UNCHANGED <<gil, dataLock, launches, scopes, submitted, returned, stale,
                     records, worker, completed, metrics, others>>

\* Mutant: the data set of the moment, not the snapshot.
ExitCallbackNow(t) ==
  LET th   == thread[t]
      done == ExitProfilerOp(th)
  IN  /\ At(t, "exit")
      /\ IF started
         THEN /\ Step(t, IF dataSet THEN ExitDataOp(done) ELSE done, "return")
              /\ submitted' = Larger(submitted, th.launch)
              /\ stale' = (stale \/ (dataSet /\ freed))
         ELSE Step(t, th, "return") /\ UNCHANGED <<submitted, stale>>
      /\ UNCHANGED <<gil, dataLock, launches, scopes, returned, gpu, others>>

\* CUPTI_API_EXIT.
ExitCallback(t) ==
  LET th   == thread[t]
      done == ExitProfilerOp(th)
  IN  /\ At(t, "exit")
      /\ IF started
         THEN /\ Step(t, IF th.snapshot THEN ExitDataOp(done) ELSE done, "return")
              /\ submitted' = Larger(submitted, th.launch)
              /\ stale' = (stale \/ (th.snapshot /\ freed))
         ELSE Step(t, th, "return") /\ UNCHANGED <<submitted, stale>>
      /\ UNCHANGED <<gil, dataLock, launches, scopes, returned, gpu, others>>

\* The launcher gets the interpreter lock back, and calls launch_exit_hook.
Return(t) ==
  LET th   == thread[t]
      over == [th EXCEPT !.snapshot = FALSE, !.called = FALSE]
  IN  /\ At(t, "return") /\ gil = Free
      /\ Step(t, IF program.hooked /\ active THEN ExitDataOp(ExitProfilerOp(over)) ELSE over,
              "idle")
      /\ returned' = IF th.snapshot /\ th.launch \notin caught
                     THEN returned \cup {th.launch} ELSE returned
      /\ UNCHANGED <<gil, dataLock, launches, scopes, submitted, stale, gpu, others>>

Launch(t) ==
  \/ EnterHook(t) \/ Fail(t) \/ AllowThreads(t)
  \/ Record(t) \/ NoCallback(t) \/ EnterData(t) \/ GetContexts(t) \/ Kernel(t)
  \/ ExitCallback(t) \/ Return(t)

-----------------------------------------------------------------------------
(* The device, and completeBuffer in CUPTI's worker.                        *)

Activity(kernels, complete) ==
  {[launch |-> r.launch, scope |-> r.scope, complete |-> complete] : r \in kernels}

hostThreads == <<program, gil, profLock, dataLock, thread, launches, scopes, submitted, returned>>

FinishKernel(r) ==
  /\ running' = running \ {r}
  /\ records' = records \cup Activity({r}, TRUE)
  /\ UNCHANGED <<hostThreads, stale, host, worker, completed, metrics>>

\* Mutant: the data set is read with getDataSet().
TakeRecordLocked(r) ==
  /\ worker = Nothing /\ profLock = Free
  /\ worker' = [record |-> r, dataSet |-> dataSet]
  /\ records' = records \ {r}
  /\ UNCHANGED <<hostThreads, stale, host, running, completed, metrics>>

\* The worker looks at the data set without the profiler's mutex: whoever
\* flushes holds it and waits for the worker.
TakeRecord(r) ==
  /\ worker = Nothing
  /\ worker' = [record |-> r, dataSet |-> dataSet]
  /\ records' = records \ {r}
  /\ UNCHANGED <<hostThreads, stale, host, running, completed, metrics>>

\* TreeData::addMetric ignores a scope it does not know.
AddMetric ==
  /\ worker # Nothing
  /\ worker.dataSet => dataLock = Free
  /\ metrics' = IF worker.dataSet /\ worker.record.scope \in scopes
                THEN metrics \cup {worker.record} ELSE metrics
  /\ stale' = (stale \/ (worker.dataSet /\ freed))
  /\ completed' = Larger(completed, worker.record.launch)
  /\ worker' = Nothing
  /\ UNCHANGED <<hostThreads, host, running, records>>

Delivered == records = {} /\ worker = Nothing

-----------------------------------------------------------------------------
(* The calls of the bindings.                                               *)

launching == <<program, dataLock, thread, launches, scopes, submitted, returned, stale>>

Begin(step, final) ==
  /\ main.step = "idle" /\ gil = Free /\ calls < MaxCalls
  /\ gil' = Main
  /\ calls' = calls + 1
  /\ main' = [step |-> step, final |-> final, target |-> 0, retries |-> 0]
  /\ UNCHANGED <<launching, profLock, gpu, dataSet, freed, started>>

Joined(call) == call \in program.joins => Quiet

Then(step) == main' = [main EXCEPT !.step = step]

\* addMetrics holds on to the data's mutex while it looks for the context, with
\* the interpreter lock it has already.
CallAddMetrics ==
  /\ active /\ Joined("add")
  /\ Begin("add", FALSE)
  /\ UNCHANGED <<active, caught, owed>>

CallActivate ==
  /\ ~active /\ ~freed /\ Joined("activate")
  /\ Begin("start", FALSE)
  /\ active' = TRUE
  /\ UNCHANGED <<caught, owed>>

CallDeactivate ==
  /\ active /\ Joined("deactivate")
  /\ Begin("flush", FALSE)
  /\ active' = FALSE
  /\ owed' = returned
  /\ caught' = caught \cup {thread[t].launch : t \in {u \in Launchers : ~At(u, "idle")}}

CallFinalize ==
  /\ calls > 0 /\ ~freed
  /\ "finalize" \in program.joins /\ Quiet
  /\ Begin(IF active THEN "flush" ELSE "stop", TRUE)
  /\ active' = FALSE
  /\ owed' = IF active THEN returned ELSE owed
  /\ UNCHANGED caught

Call == CallAddMetrics \/ CallActivate \/ CallDeactivate \/ CallFinalize

AddMetrics ==
  /\ main.step = "add" /\ dataLock = Free
  /\ Then("return")
  /\ UNCHANGED <<launching, gil, profLock, gpu, dataSet, freed, started, session>>

Start ==
  /\ main.step = "start" /\ profLock = Free
  /\ started' = TRUE
  /\ Then("register")
  /\ UNCHANGED <<launching, gil, profLock, gpu, dataSet, freed, session>>

RegisterData ==
  /\ main.step = "register" /\ profLock = Free
  /\ dataSet' = TRUE
  /\ Then("return")
  /\ UNCHANGED <<launching, gil, profLock, gpu, freed, started, session>>

\* Profiler::flush keeps the mutex; doFlush waits for the kernels of the current
\* context, if there is one.
Flush ==
  /\ main.step = "flush" /\ profLock = Free
  /\ profLock' = Main
  /\ IF program.device
     THEN running' = {} /\ records' = records \cup Activity(running, TRUE)
     ELSE UNCHANGED <<running, records>>
  /\ Then("first")
  /\ UNCHANGED <<launching, gil, worker, completed, metrics, dataSet, freed, started, session>>

\* Correlation::flush: activityFlushAll returns when all is handed over.
FlushFirst ==
  /\ main.step = "first" /\ Delivered
  /\ main' = [main EXCEPT !.step = "retry", !.target = submitted, !.retries = MaxRetries]
  /\ UNCHANGED <<launching, gil, profLock, gpu, dataSet, freed, started, session>>

FlushRetry ==
  /\ main.step = "retry" /\ completed < main.target /\ main.retries > 0
  /\ Delivered
  /\ main' = [main EXCEPT !.retries = @ - 1]
  /\ UNCHANGED <<launching, gil, profLock, gpu, dataSet, freed, started, session>>

\* CUPTI_ACTIVITY_FLAG_FLUSH_FORCED hands over incomplete activity too.
FlushForced ==
  /\ main.step = "retry" /\ (completed >= main.target \/ main.retries = 0)
  /\ running' = {} /\ records' = records \cup Activity(running, FALSE)
  /\ Then("flushed")
  /\ UNCHANGED <<launching, gil, profLock, worker, completed, metrics, dataSet, freed,
                 started, session>>

Flushed ==
  /\ main.step = "flushed" /\ Delivered
  /\ profLock' = Free
  /\ Then("unregister")
  /\ UNCHANGED <<launching, gil, gpu, dataSet, freed, started, session>>

\* Mutant: the data stays in the data set.
UnregisterNothing ==
  /\ main.step = "unregister" /\ profLock = Free
  /\ Then(IF main.final THEN "stop" ELSE "return")
  /\ UNCHANGED <<launching, gil, profLock, gpu, dataSet, freed, started, session>>

UnregisterData ==
  /\ main.step = "unregister" /\ profLock = Free
  /\ dataSet' = FALSE
  /\ Then(IF main.final THEN "stop" ELSE "return")
  /\ UNCHANGED <<launching, gil, profLock, gpu, freed, started, session>>

Stop ==
  /\ main.step = "stop" /\ profLock = Free
  /\ started' = FALSE
  /\ Then("dump")
  /\ UNCHANGED <<launching, gil, profLock, gpu, dataSet, freed, session>>

\* Data::dump, and removeSession destroys the session with its data.
Dump ==
  /\ main.step = "dump" /\ dataLock = Free
  /\ freed' = TRUE
  /\ Then("return")
  /\ UNCHANGED <<launching, gil, profLock, gpu, dataSet, started, session>>

ReturnMain ==
  /\ main.step = "return"
  /\ gil' = Free
  /\ Then("idle")
  /\ UNCHANGED <<launching, profLock, gpu, dataSet, freed, started, session>>

Continue ==
  \/ AddMetrics \/ Start \/ RegisterData
  \/ Flush \/ FlushFirst \/ FlushRetry \/ FlushForced \/ Flushed
  \/ UnregisterData \/ Stop \/ Dump \/ ReturnMain

Worker == AddMetric \/ \E r \in records : TakeRecord(r)

Next ==
  \/ \E t \in Launchers : CallLaunch(t) \/ Launch(t)
  \/ \E r \in running : FinishKernel(r)
  \/ Worker
  \/ Call \/ Continue

\* Every thread is scheduled, and the device and the worker get on; nobody has
\* to launch or to call.
Spec ==
  /\ Init /\ [][Next]_vars
  /\ \A t \in Launchers : WF_vars(Launch(t))
  /\ WF_vars(Continue)
  /\ WF_vars(Worker)
  /\ WF_vars(\E r \in running : FinishKernel(r))
-----------------------------------------------------------------------------
(***************************************************************************)
(* Every launch and every call of the bindings returns, which for as many  *)
(* of them as a run has means that time and again none is under way.  The  *)
(* interpreter lock, Profiler::mutex and Data::mutex are taken by threads  *)
(* that hold some of the others, in more than one order, and the flush     *)
(* that holds two of them waits for a worker that needs the third          *)
(* (Profiler.h:39-43, CuptiProfiler.cpp:167-195, TreeData.cpp:19-28).      *)
(***************************************************************************)
CallsReturn == []<>(Quiet /\ main.step = "idle")

(***************************************************************************)
(* Data that finalize() has destroyed is not touched again, by a callback  *)
(* that took its snapshot before or by the worker, for a program that lets *)
(* its launches return before it deactivates and finalizes.                *)
(***************************************************************************)
NoUseAfterFree == ~stale

(***************************************************************************)
(* A metric is recorded under the launch it was measured for, once: the    *)
(* profiler's op and the data's op, which different threads and calls turn *)
(* on and off one by one, never tell the device and the tree different     *)
(* scopes (GPUProfiler.h:48-65, TreeData.cpp:19-44).                       *)
(***************************************************************************)
MetricsAttributed ==
  /\ \A m \in metrics : m.scope.launch = m.launch
  /\ \A m, n \in metrics : m.launch = n.launch => m = n

(***************************************************************************)
(* "The profiling session will be active and data will be recorded"        *)
(* (profile.py:78): when deactivate() has flushed, with a device context   *)
(* to wait for, every launch that had returned before and had begun with   *)
(* the session active is in the data with its times; also one that comes   *)
(* after a deactivation and activation another launch was caught in.       *)
(***************************************************************************)
ReturnedIsRecorded ==
  main.step = "unregister" /\ program.device =>
    \A k \in owed : \E m \in metrics : m.launch = k /\ m.complete
=============================================================================
