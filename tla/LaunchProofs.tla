---------------------------- MODULE LaunchProofs ----------------------------
(***************************************************************************)
(* Proofs about a Proton session and the launches it profiles, for every   *)
(* number of launching threads, of launches and of calls, and every        *)
(* program that keeps to the rule a theorem names.                         *)
(***************************************************************************)
EXTENDS ProtonLaunch, Integers, TLAPS

Steps == {"idle", "hook", "ready", "enter", "data", "context", "kernel", "exit", "return"}

\* From flush() to the removal of the data from the data set, and to the end of
\* finalize().
Flushing == {"flush", "first", "retry", "flushed", "unregister"}

Ending == Flushing \cup {"stop", "dump"}

\* There is an external correlation id exactly while the profiler's op lasts, and
\* a launch that is under way has its number.
LauncherType ==
  {th \in [step : Steps, launch : 0 .. MaxLaunches, recording : BOOLEAN,
           external : {<<>>} \cup {<<s>> : s \in Scopes},
           inOp : BOOLEAN, snapshot : BOOLEAN, called : BOOLEAN] :
     /\ th.recording <=> th.external # <<>>
     /\ th.step # "idle" => th.launch # 0}

Kernels == [launch : LaunchIds, scope : Scopes \cup {Nothing}]

MainSteps == {"idle", "add", "start", "register", "return"} \cup Ending

MainType ==
  [step : MainSteps, final : BOOLEAN, target : 0 .. MaxLaunches, retries : 0 .. MaxRetries]

TypeOK ==
  /\ program \in ProgramType
  /\ gil \in Launchers \cup {Main, Free}
  /\ profLock \in {Main, Free}
  /\ dataLock \in Launchers \cup {Free}
  /\ thread \in [Launchers -> LauncherType]
  /\ main \in MainType
  /\ launches \in 0 .. MaxLaunches
  /\ active \in BOOLEAN /\ started \in BOOLEAN /\ dataSet \in BOOLEAN /\ freed \in BOOLEAN
  /\ scopes \subseteq Scopes
  /\ running \subseteq Kernels
  /\ records \subseteq Records
  /\ worker \in {Nothing} \cup [record : Records, dataSet : BOOLEAN]
  /\ submitted \in 0 .. MaxLaunches
  /\ completed \in 0 .. MaxLaunches
  /\ metrics \subseteq Records
  /\ caught \subseteq LaunchIds /\ returned \subseteq LaunchIds /\ owed \subseteq LaunchIds
  /\ stale \in BOOLEAN

-----------------------------------------------------------------------------
(* What a step of a launcher does to the launchers.                         *)

Others(t) == \A u \in Launchers \ {t} : thread'[u] = thread[u]

\* The launcher keeps its launch, its op and whether it was called back.
SameLaunch(th, old) == th.launch = old.launch

SameOp(th, old) == th.recording = old.recording /\ th.external = old.external

SameCallback(th, old) == th.snapshot = old.snapshot /\ th.called = old.called

\* The step of a launcher, and the fields it leaves alone.
LEMMA StepFacts ==
  ASSUME TypeOK, NEW t \in Launchers, NEW th \in LauncherType, NEW s \in Steps,
         th.launch # 0 \/ s = "idle", Step(t, th, s)
  PROVE  /\ thread' \in [Launchers -> LauncherType]
         /\ Others(t)
         /\ thread'[t].step = s
         /\ SameLaunch(thread'[t], th) /\ SameOp(thread'[t], th)
         /\ SameCallback(thread'[t], th) /\ thread'[t].inOp = th.inOp
<1>1. PICK n : n = [th EXCEPT !.step = s]
  OBVIOUS
<1>2. n \in LauncherType
  <2>1. n.step = s /\ n.launch = th.launch /\ n.recording = th.recording
        /\ n.external = th.external
    BY <1>1 DEF LauncherType
  <2>2. n \in [step : Steps, launch : 0 .. MaxLaunches, recording : BOOLEAN,
               external : {<<>>} \cup {<<x>> : x \in Scopes},
               inOp : BOOLEAN, snapshot : BOOLEAN, called : BOOLEAN]
    BY <1>1 DEF LauncherType
  <2> QED
    BY <2>1, <2>2 DEF LauncherType
<1>3. thread' = [thread EXCEPT ![t] = n]
  BY <1>1 DEF Step
<1>4. thread \in [Launchers -> LauncherType]
  BY DEF TypeOK
<1>5. thread' \in [Launchers -> LauncherType] /\ thread'[t] = n /\ Others(t)
  BY <1>2, <1>3, <1>4 DEF Others
<1>6. /\ n.step = s /\ n.launch = th.launch /\ n.recording = th.recording
      /\ n.external = th.external /\ n.inOp = th.inOp /\ n.snapshot = th.snapshot
      /\ n.called = th.called
  BY <1>1 DEF LauncherType
<1> QED
  BY <1>5, <1>6 DEF SameLaunch, SameOp, SameCallback

LEMMA OneScope ==
  \A s : Append(<<>>, s) = <<s>> /\ SubSeq(<<s>>, 1, 0) = <<>> /\ Len(<<s>>) = 1
         /\ <<s>>[1] = s /\ <<s>> # <<>>
<1> SUFFICES ASSUME NEW s
             PROVE  Append(<<>>, s) = <<s>> /\ SubSeq(<<s>>, 1, 0) = <<>> /\ Len(<<s>>) = 1
                    /\ <<s>>[1] = s /\ <<s>> # <<>>
  OBVIOUS
<1>1. Append(<<>>, s) = <<s>>
  OBVIOUS
<1>2. SubSeq(<<s>>, 1, 0) = <<>>
  OBVIOUS
<1>3. Len(<<s>>) = 1 /\ <<s>>[1] = s
  OBVIOUS
<1>4. <<s>> # <<>>
  BY <1>3
<1> QED
  BY <1>1, <1>2, <1>3, <1>4

\* The profiler's op begins with the scope it is given, if it had not begun.
LEMMA EnterProfilerOpFacts ==
  ASSUME NEW th \in LauncherType, NEW scope \in Scopes, NEW n,
         n = EnterProfilerOp(th, scope)
  PROVE  /\ n \in LauncherType
         /\ n.recording
         /\ n.external = IF th.recording THEN th.external ELSE <<scope>>
         /\ n.step = th.step /\ SameLaunch(n, th) /\ SameCallback(n, th) /\ n.inOp = th.inOp
<1>1. CASE th.recording
  BY <1>1 DEF EnterProfilerOp, SameLaunch, SameCallback, LauncherType
<1>2. CASE ~th.recording
  <2>1. th.external = <<>>
    BY <1>2 DEF LauncherType
  <2>2. n = [th EXCEPT !.recording = TRUE, !.external = <<scope>>]
    BY <1>2, <2>1, OneScope DEF EnterProfilerOp
  <2>3. /\ n.recording /\ n.external = <<scope>> /\ n.step = th.step /\ n.launch = th.launch
        /\ n.snapshot = th.snapshot /\ n.called = th.called /\ n.inOp = th.inOp
    BY <2>2 DEF LauncherType
  <2>4. n \in [step : Steps, launch : 0 .. MaxLaunches, recording : BOOLEAN,
               external : {<<>>} \cup {<<x>> : x \in Scopes},
               inOp : BOOLEAN, snapshot : BOOLEAN, called : BOOLEAN]
    BY <2>2 DEF LauncherType
  <2>5. n.external # <<>>
    BY <2>3, OneScope
  <2>6. n \in LauncherType
    BY <2>3, <2>4, <2>5 DEF LauncherType
  <2> QED
    BY <1>2, <2>3, <2>6 DEF SameLaunch, SameCallback
<1> QED
  BY <1>1, <1>2

\* The profiler's op is over.
LEMMA ExitProfilerOpFacts ==
  ASSUME NEW th \in LauncherType, NEW n, n = ExitProfilerOp(th)
  PROVE  /\ n \in LauncherType
         /\ ~n.recording /\ n.external = <<>>
         /\ n.step = th.step /\ SameLaunch(n, th) /\ SameCallback(n, th) /\ n.inOp = th.inOp
<1>1. CASE ~th.recording
  BY <1>1 DEF ExitProfilerOp, SameLaunch, SameCallback, LauncherType
<1>2. CASE th.recording
  <2>1. PICK s \in Scopes : th.external = <<s>>
    BY <1>2 DEF LauncherType
  <2>2. Len(th.external) - 1 = 0
    BY <2>1, OneScope
  <2>3. SubSeq(th.external, 1, Len(th.external) - 1) = <<>>
    BY <2>1, <2>2, OneScope
  <2>4. n = [th EXCEPT !.recording = FALSE, !.external = <<>>]
    BY <1>2, <2>3 DEF ExitProfilerOp
  <2>5. /\ ~n.recording /\ n.external = <<>> /\ n.step = th.step /\ n.launch = th.launch
        /\ n.snapshot = th.snapshot /\ n.called = th.called /\ n.inOp = th.inOp
    BY <2>4 DEF LauncherType
  <2>6. n \in [step : Steps, launch : 0 .. MaxLaunches, recording : BOOLEAN,
               external : {<<>>} \cup {<<x>> : x \in Scopes},
               inOp : BOOLEAN, snapshot : BOOLEAN, called : BOOLEAN]
    BY <2>4 DEF LauncherType
  <2>7. n \in LauncherType
    BY <2>5, <2>6 DEF LauncherType
  <2> QED
    BY <2>5, <2>7 DEF SameLaunch, SameCallback
<1> QED
  BY <1>1, <1>2

\* The data's op begins, or is over.
LEMMA DataOpFacts ==
  ASSUME NEW th \in LauncherType, NEW n, NEW on \in BOOLEAN,
         n = IF on THEN EnterDataOp(th) ELSE ExitDataOp(th)
  PROVE  /\ n \in LauncherType
         /\ n.inOp = on
         /\ n.step = th.step /\ SameLaunch(n, th) /\ SameCallback(n, th) /\ SameOp(n, th)
<1>1. n = [th EXCEPT !.inOp = on]
  BY DEF EnterDataOp, ExitDataOp
<1>2. /\ n.inOp = on /\ n.step = th.step /\ n.launch = th.launch /\ n.recording = th.recording
      /\ n.external = th.external /\ n.snapshot = th.snapshot /\ n.called = th.called
  BY <1>1 DEF LauncherType
<1>3. n \in [step : Steps, launch : 0 .. MaxLaunches, recording : BOOLEAN,
             external : {<<>>} \cup {<<x>> : x \in Scopes},
             inOp : BOOLEAN, snapshot : BOOLEAN, called : BOOLEAN]
  BY <1>1 DEF LauncherType
<1>4. n \in LauncherType
  BY <1>2, <1>3 DEF LauncherType
<1> QED
  BY <1>2, <1>4 DEF SameLaunch, SameCallback, SameOp

\* The callback's snapshot, and whether there was a callback.
Called(th, has, was) == [th EXCEPT !.snapshot = has, !.called = was]

LEMMA CallbackFacts ==
  ASSUME NEW th \in LauncherType, NEW n, NEW has \in BOOLEAN, NEW was \in BOOLEAN,
         n = Called(th, has, was)
  PROVE  /\ n \in LauncherType
         /\ n.snapshot = has /\ n.called = was
         /\ n.step = th.step /\ SameLaunch(n, th) /\ SameOp(n, th) /\ n.inOp = th.inOp
<1>1. /\ n.inOp = th.inOp /\ n.step = th.step /\ n.launch = th.launch
      /\ n.recording = th.recording /\ n.external = th.external
      /\ n.snapshot = has /\ n.called = was
  BY DEF LauncherType, Called
<1>2. n \in [step : Steps, launch : 0 .. MaxLaunches, recording : BOOLEAN,
             external : {<<>>} \cup {<<x>> : x \in Scopes},
             inOp : BOOLEAN, snapshot : BOOLEAN, called : BOOLEAN]
  BY DEF LauncherType, Called
<1>3. n \in LauncherType
  BY <1>1, <1>2 DEF LauncherType
<1> QED
  BY <1>1, <1>3 DEF SameLaunch, SameOp

\* Of a step of one launcher: the types, and that the others wait.
Moves(t) == thread' \in [Launchers -> LauncherType] /\ Others(t)

LEMMA CallLaunchEffect ==
  ASSUME TypeOK, NEW t \in Launchers, CallLaunch(t)
  PROVE  /\ Moves(t) /\ thread[t].step = "idle" /\ thread'[t].step = "hook"
         /\ thread'[t].launch = launches + 1 /\ launches + 1 \in LaunchIds
         /\ SameOp(thread'[t], thread[t]) /\ SameCallback(thread'[t], thread[t])
         /\ thread'[t].inOp = thread[t].inOp
<1>1. launches \in 0 .. MaxLaunches /\ MaxLaunches \in Nat
  BY BoundsAssumption DEF TypeOK
<1>2. launches + 1 \in LaunchIds /\ launches + 1 \in 0 .. MaxLaunches /\ launches + 1 # 0
  BY <1>1 DEF CallLaunch, LaunchIds
<1>3. thread \in [Launchers -> LauncherType] /\ thread[t] \in LauncherType
  BY DEF TypeOK
<1>4. PICK th : th = thread[t]
  OBVIOUS
<1>5. PICK n : n = [th EXCEPT !.step = "hook", !.launch = launches + 1]
  OBVIOUS
<1>6. thread' = [thread EXCEPT ![t] = n]
  BY <1>3, <1>4, <1>5 DEF CallLaunch
<1>7. /\ n.inOp = th.inOp /\ n.step = "hook" /\ n.launch = launches + 1
      /\ n.recording = th.recording /\ n.external = th.external
      /\ n.snapshot = th.snapshot /\ n.called = th.called
  BY <1>3, <1>4, <1>5 DEF LauncherType
<1>8. n \in [step : Steps, launch : 0 .. MaxLaunches, recording : BOOLEAN,
             external : {<<>>} \cup {<<x>> : x \in Scopes},
             inOp : BOOLEAN, snapshot : BOOLEAN, called : BOOLEAN]
  BY <1>2, <1>3, <1>4, <1>5 DEF LauncherType, Steps
<1>9. n \in LauncherType
  BY <1>2, <1>3, <1>4, <1>7, <1>8 DEF LauncherType
<1>10. thread' \in [Launchers -> LauncherType] /\ thread'[t] = n /\ Others(t)
  BY <1>3, <1>6, <1>9 DEF Others
<1> QED
  BY <1>2, <1>4, <1>7, <1>10 DEF Moves, SameOp, SameCallback, CallLaunch, At

\* The scope of a launch under way.
LEMMA ScopeOf ==
  ASSUME NEW th \in LauncherType, th.step # "idle", NEW by \in {"hook", "callback"}
  PROVE  /\ Scope(th.launch, by) \in Scopes /\ Scope(th.launch, by).launch = th.launch
         /\ th.launch \in LaunchIds /\ th.launch # 0
<1>1. th.launch \in 0 .. MaxLaunches /\ th.launch # 0 /\ MaxLaunches \in Nat
  BY BoundsAssumption DEF LauncherType
<1>2. th.launch \in LaunchIds
  BY <1>1 DEF LaunchIds
<1> QED
  BY <1>1, <1>2 DEF Scope, Scopes

LEMMA EnterHookEffect ==
  ASSUME TypeOK, NEW t \in Launchers, EnterHook(t)
  PROVE  /\ Moves(t) /\ thread[t].step = "hook" /\ thread'[t].step = "ready"
         /\ SameLaunch(thread'[t], thread[t]) /\ SameCallback(thread'[t], thread[t])
         /\ program.hooked /\ active =>
              /\ thread'[t].recording /\ thread'[t].inOp
              /\ thread'[t].external =
                   IF thread[t].recording THEN thread[t].external
                   ELSE <<Scope(thread[t].launch, "hook")>>
         /\ ~(program.hooked /\ active) =>
              SameOp(thread'[t], thread[t]) /\ thread'[t].inOp = thread[t].inOp
<1>1. thread[t] \in LauncherType /\ thread[t].step = "hook"
  BY DEF TypeOK, EnterHook, At
<1>2. PICK th : th = thread[t]
  OBVIOUS
<1>3. th \in LauncherType /\ th.launch # 0 /\ Scope(th.launch, "hook") \in Scopes /\ "ready" \in Steps
  BY <1>1, <1>2, ScopeOf DEF Steps
<1>4. CASE program.hooked /\ active
  <2>1. PICK o : o = EnterProfilerOp(th, Scope(th.launch, "hook"))
    OBVIOUS
  <2>2. /\ o \in LauncherType /\ o.recording
        /\ o.external = IF th.recording THEN th.external ELSE <<Scope(th.launch, "hook")>>
        /\ SameLaunch(o, th) /\ SameCallback(o, th)
    BY <1>3, <2>1, EnterProfilerOpFacts
  <2>3. PICK d : d = EnterDataOp(o)
    OBVIOUS
  <2>4. /\ d \in LauncherType /\ d.inOp
        /\ SameLaunch(d, o) /\ SameCallback(d, o) /\ SameOp(d, o)
    BY <2>2, <2>3, DataOpFacts
  <2>5. Step(t, d, "ready") /\ d.launch # 0
    BY <1>2, <1>3, <1>4, <2>1, <2>2, <2>3, <2>4 DEF EnterHook, SameLaunch
  <2>6. /\ Moves(t) /\ thread'[t].step = "ready"
        /\ SameLaunch(thread'[t], d) /\ SameOp(thread'[t], d)
        /\ SameCallback(thread'[t], d) /\ thread'[t].inOp = d.inOp
    BY <1>3, <2>4, <2>5, StepFacts DEF Moves
  <2> QED
    BY <1>1, <1>2, <1>4, <2>2, <2>4, <2>6 DEF SameLaunch, SameCallback, SameOp
<1>5. CASE ~(program.hooked /\ active)
  <2>1. Step(t, th, "ready")
    BY <1>2, <1>5 DEF EnterHook
  <2>2. /\ Moves(t) /\ thread'[t].step = "ready"
        /\ SameLaunch(thread'[t], th) /\ SameOp(thread'[t], th)
        /\ SameCallback(thread'[t], th) /\ thread'[t].inOp = th.inOp
    BY <1>3, <2>1, StepFacts DEF Moves
  <2> QED
    BY <1>1, <1>2, <1>5, <2>2
<1> QED
  BY <1>4, <1>5

\* A step of a launcher from one place to another that changes nothing else.
Plain(t, from, to) ==
  /\ Moves(t) /\ thread[t].step = from /\ thread'[t].step = to
  /\ SameLaunch(thread'[t], thread[t]) /\ SameOp(thread'[t], thread[t])
  /\ SameCallback(thread'[t], thread[t]) /\ thread'[t].inOp = thread[t].inOp

\* The steps that change nothing but the step of the launcher.
LEMMA OnlyStepEffect ==
  ASSUME TypeOK, NEW t \in Launchers, NEW s \in Steps,
         thread[t].step # "idle", Step(t, thread[t], s)
  PROVE  /\ Moves(t) /\ thread'[t].step = s
         /\ SameLaunch(thread'[t], thread[t]) /\ SameOp(thread'[t], thread[t])
         /\ SameCallback(thread'[t], thread[t]) /\ thread'[t].inOp = thread[t].inOp
<1>1. thread[t] \in LauncherType /\ thread[t].launch # 0
  BY DEF TypeOK, LauncherType
<1> QED
  BY <1>1, StepFacts DEF Moves

LEMMA RecordEffect ==
  ASSUME TypeOK, NEW t \in Launchers, Record(t)
  PROVE  /\ Moves(t) /\ thread[t].step = "enter" /\ thread'[t].step = "data"
         /\ thread'[t].snapshot = dataSet /\ thread'[t].called
         /\ SameLaunch(thread'[t], thread[t]) /\ thread'[t].inOp = thread[t].inOp
         /\ thread'[t].recording
         /\ thread'[t].external =
              IF thread[t].recording THEN thread[t].external
              ELSE <<Scope(thread[t].launch, "callback")>>
<1>1. thread[t] \in LauncherType /\ thread[t].step = "enter" /\ dataSet \in BOOLEAN
  BY DEF TypeOK, Record, At
<1>2. PICK th : th = Called(thread[t], dataSet, TRUE)
  OBVIOUS
<1>3. /\ th \in LauncherType /\ th.snapshot = dataSet /\ th.called /\ th.step # "idle"
      /\ SameLaunch(th, thread[t]) /\ SameOp(th, thread[t]) /\ th.inOp = thread[t].inOp
  <2>1. th.step = thread[t].step
    BY <1>1, <1>2 DEF Called, LauncherType
  <2>2. th \in LauncherType /\ th.snapshot = dataSet /\ th.called
    <3>1. th.snapshot = dataSet /\ th.called
      BY <1>1, <1>2 DEF Called, LauncherType
    <3>2. PICK has \in BOOLEAN, was \in BOOLEAN : has = dataSet /\ was = TRUE
      BY <1>1
    <3>3. th = Called(thread[t], has, was)
      BY <1>2, <3>2
    <3>4. th \in LauncherType
      BY <1>1, <3>3, CallbackFacts
    <3> QED
      BY <3>1, <3>4
  <2>3. SameLaunch(th, thread[t]) /\ SameOp(th, thread[t]) /\ th.inOp = thread[t].inOp
    BY <1>1, <1>2, CallbackFacts
  <2> QED
    BY <1>1, <2>1, <2>2, <2>3
<1>4. th.launch # 0 /\ Scope(th.launch, "callback") \in Scopes /\ "data" \in Steps
  BY <1>1, <1>3, ScopeOf DEF Steps
<1>5. PICK o : o = EnterProfilerOp(th, Scope(th.launch, "callback"))
  OBVIOUS
<1>6. /\ o \in LauncherType /\ o.recording
      /\ o.external = IF th.recording THEN th.external ELSE <<Scope(th.launch, "callback")>>
      /\ SameLaunch(o, th) /\ SameCallback(o, th) /\ o.inOp = th.inOp
  BY <1>3, <1>4, <1>5, EnterProfilerOpFacts
<1>7. Step(t, o, "data") /\ o.launch # 0
  BY <1>2, <1>4, <1>5, <1>6 DEF Record, Called, SameLaunch
<1>8. /\ Moves(t) /\ thread'[t].step = "data"
      /\ SameLaunch(thread'[t], o) /\ SameOp(thread'[t], o)
      /\ SameCallback(thread'[t], o) /\ thread'[t].inOp = o.inOp
  BY <1>4, <1>6, <1>7, StepFacts DEF Moves
<1> QED
  BY <1>1, <1>3, <1>6, <1>8 DEF SameLaunch, SameCallback, SameOp

LEMMA NoCallbackEffect ==
  ASSUME TypeOK, NEW t \in Launchers, NoCallback(t)
  PROVE  /\ Moves(t) /\ thread[t].step = "enter" /\ thread'[t].step = "kernel"
         /\ ~thread'[t].snapshot /\ ~thread'[t].called
         /\ SameLaunch(thread'[t], thread[t]) /\ SameOp(thread'[t], thread[t])
         /\ thread'[t].inOp = thread[t].inOp
<1>1. thread[t] \in LauncherType /\ thread[t].step = "enter"
  BY DEF TypeOK, NoCallback, At
<1>2. PICK th : th = Called(thread[t], FALSE, FALSE)
  OBVIOUS
<1>3. /\ th \in LauncherType /\ ~th.snapshot /\ ~th.called /\ th.step # "idle"
      /\ SameLaunch(th, thread[t]) /\ SameOp(th, thread[t]) /\ th.inOp = thread[t].inOp
  <2>1. th.step = thread[t].step
    BY <1>1, <1>2 DEF Called, LauncherType
  <2>2. th \in LauncherType /\ ~th.snapshot /\ ~th.called
    BY <1>1, <1>2, CallbackFacts
  <2>3. SameLaunch(th, thread[t]) /\ SameOp(th, thread[t]) /\ th.inOp = thread[t].inOp
    BY <1>1, <1>2, CallbackFacts
  <2> QED
    BY <1>1, <2>1, <2>2, <2>3
<1>4. th.launch # 0 /\ "kernel" \in Steps
  BY <1>1, <1>3, ScopeOf DEF Steps
<1>5. Step(t, th, "kernel")
  BY <1>2 DEF NoCallback, Called
<1>6. /\ Moves(t) /\ thread'[t].step = "kernel"
      /\ SameLaunch(thread'[t], th) /\ SameOp(thread'[t], th)
      /\ SameCallback(thread'[t], th) /\ thread'[t].inOp = th.inOp
  BY <1>3, <1>4, <1>5, StepFacts DEF Moves
<1> QED
  BY <1>1, <1>3, <1>6 DEF SameLaunch, SameCallback, SameOp

LEMMA EnterDataEffect ==
  ASSUME TypeOK, NEW t \in Launchers, EnterData(t)
  PROVE  /\ Moves(t) /\ thread[t].step = "data"
         /\ SameLaunch(thread'[t], thread[t]) /\ SameOp(thread'[t], thread[t])
         /\ SameCallback(thread'[t], thread[t])
         /\ \/ /\ thread'[t].step = "kernel" /\ (~thread[t].snapshot \/ thread[t].inOp)
               /\ thread'[t].inOp = thread[t].inOp /\ scopes' = scopes /\ dataLock' = dataLock
            \/ /\ thread'[t].step = "kernel" /\ thread[t].snapshot /\ thread'[t].inOp
               /\ scopes' = scopes \cup {Scope(thread[t].launch, "callback")}
               /\ dataLock' = dataLock /\ ~thread[t].inOp
            \/ /\ thread'[t].step = "context" /\ thread[t].snapshot /\ thread'[t].inOp
               /\ scopes' = scopes /\ dataLock' = t /\ ~thread[t].inOp
<1>1. thread[t] \in LauncherType /\ thread[t].step = "data" /\ thread[t].launch # 0
  BY DEF TypeOK, EnterData, At, LauncherType
<1>2. PICK th : th = thread[t]
  OBVIOUS
<1>3. PICK d : d = EnterDataOp(th)
  OBVIOUS
<1>4. /\ d \in LauncherType /\ d.inOp
      /\ SameLaunch(d, th) /\ SameCallback(d, th) /\ SameOp(d, th)
  BY <1>1, <1>2, <1>3, DataOpFacts
<1>5. "kernel" \in Steps /\ "context" \in Steps /\ d.launch # 0
  BY <1>1, <1>2, <1>4 DEF Steps, SameLaunch
<1>6. CASE (~th.snapshot \/ th.inOp) /\ Step(t, th, "kernel") /\ UNCHANGED <<dataLock, scopes>>
  BY <1>1, <1>2, <1>5, <1>6, OnlyStepEffect
<1>7. CASE /\ th.snapshot /\ ~th.inOp /\ Step(t, d, "kernel") /\ UNCHANGED dataLock
           /\ scopes' = scopes \cup {Scope(th.launch, "callback")}
  <2>1. /\ Moves(t) /\ thread'[t].step = "kernel"
        /\ SameLaunch(thread'[t], d) /\ SameOp(thread'[t], d)
        /\ SameCallback(thread'[t], d) /\ thread'[t].inOp = d.inOp
    BY <1>4, <1>5, <1>7, StepFacts DEF Moves
  <2> QED
    BY <1>1, <1>2, <1>4, <1>7, <2>1 DEF SameLaunch, SameCallback, SameOp
<1>8. CASE /\ th.snapshot /\ ~th.inOp /\ Step(t, d, "context") /\ UNCHANGED scopes
           /\ dataLock' = t
  <2>1. /\ Moves(t) /\ thread'[t].step = "context"
        /\ SameLaunch(thread'[t], d) /\ SameOp(thread'[t], d)
        /\ SameCallback(thread'[t], d) /\ thread'[t].inOp = d.inOp
    BY <1>4, <1>5, <1>8, StepFacts DEF Moves
  <2> QED
    BY <1>1, <1>2, <1>4, <1>8, <2>1 DEF SameLaunch, SameCallback, SameOp
<1> QED
  BY <1>2, <1>3, <1>6, <1>7, <1>8 DEF EnterData

LEMMA ExitCallbackEffect ==
  ASSUME TypeOK, NEW t \in Launchers, ExitCallback(t)
  PROVE  /\ Moves(t) /\ thread[t].step = "exit" /\ thread'[t].step = "return"
         /\ SameLaunch(thread'[t], thread[t]) /\ SameCallback(thread'[t], thread[t])
         /\ started => ~thread'[t].recording /\ thread'[t].external = <<>>
         /\ ~started => SameOp(thread'[t], thread[t])
         /\ thread'[t].inOp = (thread[t].inOp /\ ~(started /\ thread[t].snapshot))
<1>1. thread[t] \in LauncherType /\ thread[t].step = "exit" /\ thread[t].launch # 0
      /\ "return" \in Steps
  BY DEF TypeOK, ExitCallback, At, LauncherType, Steps
<1>2. PICK th : th = thread[t]
  OBVIOUS
<1>3. PICK o : o = ExitProfilerOp(th)
  OBVIOUS
<1>4. /\ o \in LauncherType /\ ~o.recording /\ o.external = <<>>
      /\ SameLaunch(o, th) /\ SameCallback(o, th) /\ o.inOp = th.inOp
  BY <1>1, <1>2, <1>3, ExitProfilerOpFacts
<1>5. PICK d : d = ExitDataOp(o)
  OBVIOUS
<1>6. /\ d \in LauncherType /\ ~d.inOp
      /\ SameLaunch(d, o) /\ SameCallback(d, o) /\ SameOp(d, o)
  BY <1>4, <1>5, DataOpFacts
<1>7. th \in LauncherType /\ th.launch # 0 /\ o.launch # 0 /\ d.launch # 0
  BY <1>1, <1>2, <1>4, <1>6 DEF SameLaunch
<1>8. th.inOp \in BOOLEAN /\ (Moves(t) => thread'[t].inOp \in BOOLEAN)
  BY <1>7 DEF LauncherType, Moves
<1>9. CASE started /\ th.snapshot
  <2>1. Step(t, d, "return")
    BY <1>2, <1>3, <1>5, <1>9 DEF ExitCallback
  <2>2. /\ Moves(t) /\ thread'[t].step = "return"
        /\ SameLaunch(thread'[t], d) /\ SameOp(thread'[t], d)
        /\ SameCallback(thread'[t], d) /\ thread'[t].inOp = d.inOp
    BY <1>1, <1>6, <1>7, <2>1, StepFacts DEF Moves
  <2> QED
    BY <1>1, <1>2, <1>4, <1>6, <1>8, <1>9, <2>2 DEF SameLaunch, SameCallback, SameOp
<1>10. CASE started /\ ~th.snapshot
  <2>1. Step(t, o, "return")
    BY <1>2, <1>3, <1>10 DEF ExitCallback
  <2>2. /\ Moves(t) /\ thread'[t].step = "return"
        /\ SameLaunch(thread'[t], o) /\ SameOp(thread'[t], o)
        /\ SameCallback(thread'[t], o) /\ thread'[t].inOp = o.inOp
    BY <1>1, <1>4, <1>7, <2>1, StepFacts DEF Moves
  <2> QED
    BY <1>1, <1>2, <1>4, <1>8, <1>10, <2>2 DEF SameLaunch, SameCallback, SameOp
<1>11. CASE ~started
  <2>1. Step(t, th, "return")
    BY <1>2, <1>11 DEF ExitCallback
  <2>2. /\ Moves(t) /\ thread'[t].step = "return"
        /\ SameLaunch(thread'[t], th) /\ SameOp(thread'[t], th)
        /\ SameCallback(thread'[t], th) /\ thread'[t].inOp = th.inOp
    BY <1>1, <1>7, <2>1, StepFacts DEF Moves
  <2> QED
    BY <1>1, <1>2, <1>8, <1>11, <2>2
<1> QED
  BY <1>9, <1>10, <1>11

LEMMA ReturnEffect ==
  ASSUME TypeOK, NEW t \in Launchers, Return(t)
  PROVE  /\ Moves(t) /\ thread[t].step = "return" /\ thread'[t].step = "idle"
         /\ SameLaunch(thread'[t], thread[t])
         /\ ~thread'[t].snapshot /\ ~thread'[t].called
         /\ program.hooked /\ active =>
              ~thread'[t].recording /\ thread'[t].external = <<>> /\ ~thread'[t].inOp
         /\ ~(program.hooked /\ active) =>
              SameOp(thread'[t], thread[t]) /\ thread'[t].inOp = thread[t].inOp
<1>1. thread[t] \in LauncherType /\ thread[t].step = "return" /\ "idle" \in Steps
  BY DEF TypeOK, Return, At, Steps
<1>2. PICK th : th = Called(thread[t], FALSE, FALSE)
  OBVIOUS
<1>3. /\ th \in LauncherType /\ ~th.snapshot /\ ~th.called
      /\ SameLaunch(th, thread[t]) /\ SameOp(th, thread[t]) /\ th.inOp = thread[t].inOp
  BY <1>1, <1>2, CallbackFacts
<1>4. PICK o : o = ExitProfilerOp(th)
  OBVIOUS
<1>5. /\ o \in LauncherType /\ ~o.recording /\ o.external = <<>>
      /\ SameLaunch(o, th) /\ SameCallback(o, th)
  BY <1>3, <1>4, ExitProfilerOpFacts
<1>6. PICK d : d = ExitDataOp(o)
  OBVIOUS
<1>7. /\ d \in LauncherType /\ ~d.inOp
      /\ SameLaunch(d, o) /\ SameCallback(d, o) /\ SameOp(d, o)
  BY <1>5, <1>6, DataOpFacts
<1>8. CASE program.hooked /\ active
  <2>1. Step(t, d, "idle")
    BY <1>2, <1>4, <1>6, <1>8 DEF Return, Called
  <2>2. /\ Moves(t) /\ thread'[t].step = "idle"
        /\ SameLaunch(thread'[t], d) /\ SameOp(thread'[t], d)
        /\ SameCallback(thread'[t], d) /\ thread'[t].inOp = d.inOp
    BY <1>1, <1>7, <2>1, StepFacts DEF Moves
  <2> QED
    BY <1>1, <1>3, <1>5, <1>7, <1>8, <2>2 DEF SameLaunch, SameCallback, SameOp
<1>9. CASE ~(program.hooked /\ active)
  <2>1. Step(t, th, "idle")
    BY <1>2, <1>9 DEF Return, Called
  <2>2. /\ Moves(t) /\ thread'[t].step = "idle"
        /\ SameLaunch(thread'[t], th) /\ SameOp(thread'[t], th)
        /\ SameCallback(thread'[t], th) /\ thread'[t].inOp = th.inOp
    BY <1>1, <1>3, <2>1, StepFacts DEF Moves
  <2> QED
    BY <1>1, <1>3, <1>9, <2>2 DEF SameLaunch, SameCallback, SameOp
<1> QED
  BY <1>8, <1>9

\* The four steps above, with their names.
LEMMA PlainEffects ==
  ASSUME TypeOK, NEW t \in Launchers
  PROVE  /\ Fail(t) => Plain(t, "ready", "idle")
         /\ AllowThreads(t) => Plain(t, "ready", "enter")
         /\ GetContexts(t) => Plain(t, "context", "kernel")
         /\ Kernel(t) => Plain(t, "kernel", IF thread[t].called THEN "exit" ELSE "return")
<1>1. \A s \in Steps : thread[t].step # "idle" /\ Step(t, thread[t], s) =>
        /\ Moves(t) /\ thread'[t].step = s
        /\ SameLaunch(thread'[t], thread[t]) /\ SameOp(thread'[t], thread[t])
        /\ SameCallback(thread'[t], thread[t]) /\ thread'[t].inOp = thread[t].inOp
  BY OnlyStepEffect
<1>2. \A from, to \in Steps : from # "idle" /\ At(t, from) /\ Step(t, thread[t], to) =>
        Plain(t, from, to)
  BY <1>1 DEF Plain, At
<1>3. {"ready", "idle", "enter", "context", "kernel", "exit", "return"} \subseteq Steps
  BY DEF Steps
<1>4. Fail(t) => Plain(t, "ready", "idle")
  BY <1>2, <1>3 DEF Fail
<1>5. AllowThreads(t) => Plain(t, "ready", "enter")
  BY <1>2, <1>3 DEF AllowThreads
<1>6. GetContexts(t) => Plain(t, "context", "kernel")
  BY <1>2, <1>3 DEF GetContexts
<1>7. Kernel(t) => Plain(t, "kernel", IF thread[t].called THEN "exit" ELSE "return")
  <2>1. PICK to \in Steps : to = IF thread[t].called THEN "exit" ELSE "return"
    BY <1>3
  <2>2. Kernel(t) => At(t, "kernel") /\ Step(t, thread[t], to)
    BY <2>1 DEF Kernel
  <2> QED
    BY <1>2, <1>3, <2>1, <2>2
<1> QED
  BY <1>4, <1>5, <1>6, <1>7

-----------------------------------------------------------------------------
(* The types.                                                               *)

\* A larger number is one of the two.
LEMMA LargerIsOne == \A a, b \in Int : Larger(a, b) \in {a, b} /\ Larger(a, b) >= a /\ Larger(a, b) >= b
BY DEF Larger

LEMMA TypeInit == Init => TypeOK
<1> SUFFICES ASSUME Init PROVE TypeOK
  OBVIOUS
<1>1. MaxLaunches \in Nat /\ MaxRetries \in Nat /\ 0 \in 0 .. MaxLaunches /\ 0 \in 0 .. MaxRetries
  BY BoundsAssumption
<1>2. Launcher("idle", 0) \in LauncherType
  BY <1>1 DEF Launcher, LauncherType, Steps
<1>3. thread \in [Launchers -> LauncherType]
  BY <1>2 DEF Init
<1>4. program \in ProgramType
  BY ProgramsAssumption DEF Init
<1> QED
  BY <1>1, <1>3, <1>4 DEF Init, TypeOK, MainType, MainSteps

LEMMA TypeLauncher ==
  ASSUME TypeOK, NEW t \in Launchers, CallLaunch(t) \/ Launch(t)
  PROVE  TypeOK'
<1> USE DEF others, host, session, gpu
<1>1. thread[t] \in LauncherType /\ (thread[t].step # "idle" => thread[t].launch \in LaunchIds)
  BY ScopeOf DEF TypeOK
<1>2. CASE CallLaunch(t)
  <2>1. Moves(t) /\ launches + 1 \in LaunchIds
    BY <1>2, CallLaunchEffect
  <2>2. launches + 1 \in 0 .. MaxLaunches
    BY <2>1, BoundsAssumption DEF LaunchIds
  <2> QED
    BY <1>2, <2>1, <2>2 DEF TypeOK, CallLaunch, Moves
<1>3. CASE EnterHook(t)
  <2>1. Moves(t) /\ Scope(thread[t].launch, "hook") \in Scopes
    BY <1>1, <1>3, EnterHookEffect, ScopeOf
  <2>2. scopes' \subseteq Scopes
    BY <1>3, <2>1 DEF TypeOK, EnterHook
  <2> QED
    BY <1>3, <2>1, <2>2 DEF TypeOK, EnterHook, Moves
<1>4. CASE Fail(t)
  BY <1>4, PlainEffects DEF TypeOK, Fail, Moves, Plain
<1>5. CASE AllowThreads(t)
  BY <1>5, PlainEffects DEF TypeOK, AllowThreads, Moves, Plain
<1>6. CASE Record(t)
  BY <1>6, RecordEffect DEF TypeOK, Record, Moves
<1>7. CASE NoCallback(t)
  BY <1>7, NoCallbackEffect DEF TypeOK, NoCallback, Moves
<1>8. CASE EnterData(t)
  <2>1. Moves(t) /\ Scope(thread[t].launch, "callback") \in Scopes
    BY <1>1, <1>8, EnterDataEffect, ScopeOf
  <2>2. scopes' \subseteq Scopes /\ dataLock' \in Launchers \cup {Free}
    BY <1>8, <2>1 DEF TypeOK, EnterData
  <2>3. stale' \in BOOLEAN
    BY <1>8 DEF EnterData
  <2> QED
    BY <1>8, <2>1, <2>2, <2>3 DEF TypeOK, EnterData, Moves
<1>9. CASE GetContexts(t)
  <2>1. Moves(t) /\ Scope(thread[t].launch, "callback") \in Scopes
    BY <1>1, <1>9, PlainEffects, ScopeOf DEF Plain
  <2>2. scopes' \subseteq Scopes
    BY <1>9, <2>1 DEF TypeOK, GetContexts
  <2> QED
    BY <1>9, <2>1, <2>2 DEF TypeOK, GetContexts, Moves
<1>10. CASE Kernel(t)
  <2>1. Moves(t) /\ thread[t].launch \in LaunchIds
    BY <1>1, <1>10, PlainEffects DEF Plain
  <2>2. LastScope(thread[t]) \in Scopes \cup {Nothing}
    <3>1. CASE thread[t].external = <<>>
      BY <3>1 DEF LastScope
    <3>2. CASE thread[t].external # <<>>
      <4>1. PICK s \in Scopes : thread[t].external = <<s>>
        BY <1>1, <3>2 DEF LauncherType
      <4> QED
        BY <3>2, <4>1, OneScope DEF LastScope
    <3> QED
      BY <3>1, <3>2
  <2>3. running' \subseteq Kernels
    BY <1>10, <2>1, <2>2 DEF TypeOK, Kernel, Kernels
  <2> QED
    BY <1>10, <2>1, <2>3 DEF TypeOK, Kernel, Moves
<1>11. CASE ExitCallback(t)
  <2>1. submitted' \in 0 .. MaxLaunches
    <3>1. submitted \in 0 .. MaxLaunches /\ thread[t].launch \in 0 .. MaxLaunches
      BY <1>1 DEF TypeOK, LauncherType
    <3>2. Larger(submitted, thread[t].launch) \in 0 .. MaxLaunches
      BY <3>1 DEF Larger
    <3> QED
      BY <1>11, <3>1, <3>2 DEF ExitCallback
  <2>2. stale' \in BOOLEAN
    BY <1>11 DEF ExitCallback, TypeOK
  <2> QED
    BY <1>11, <2>1, <2>2, ExitCallbackEffect DEF TypeOK, ExitCallback, Moves
<1>12. CASE Return(t)
  <2>1. Moves(t) /\ thread[t].launch \in LaunchIds
    BY <1>1, <1>12, ReturnEffect
  <2>2. returned' \subseteq LaunchIds
    BY <1>12, <2>1 DEF TypeOK, Return
  <2> QED
    BY <1>12, <2>1, <2>2 DEF TypeOK, Return, Moves
<1> QED
  BY <1>2, <1>3, <1>4, <1>5, <1>6, <1>7, <1>8, <1>9, <1>10, <1>11, <1>12 DEF Launch

\* The activity of kernels, finished or not.
LEMMA ActivityFacts ==
  \A K \in SUBSET Kernels, done \in BOOLEAN :
    /\ Activity(K, done) \subseteq Records
    /\ \A a \in Activity(K, done) :
         a.complete = done /\ \E r \in K : a.launch = r.launch /\ a.scope = r.scope
    /\ \A r \in K : \E a \in Activity(K, done) :
         a.complete = done /\ a.launch = r.launch /\ a.scope = r.scope
    /\ \A a, b \in Activity(K, done) : a.launch = b.launch /\ a.scope = b.scope => a = b
<1> SUFFICES ASSUME NEW K \in SUBSET Kernels, NEW done \in BOOLEAN
             PROVE  /\ Activity(K, done) \subseteq Records
                    /\ \A a \in Activity(K, done) :
                         a.complete = done
                         /\ \E r \in K : a.launch = r.launch /\ a.scope = r.scope
                    /\ \A r \in K : \E a \in Activity(K, done) :
                         a.complete = done /\ a.launch = r.launch /\ a.scope = r.scope
                    /\ \A a, b \in Activity(K, done) :
                         a.launch = b.launch /\ a.scope = b.scope => a = b
  OBVIOUS
<1>1. ASSUME NEW r \in K, NEW a,
             a = [launch |-> r.launch, scope |-> r.scope, complete |-> done]
      PROVE  a \in Records /\ a.complete = done /\ a.launch = r.launch /\ a.scope = r.scope
  BY <1>1 DEF Records, Kernels
<1>2. \A r \in K : [launch |-> r.launch, scope |-> r.scope, complete |-> done]
                      \in Activity(K, done)
  BY DEF Activity
<1>3. \A a \in Activity(K, done) :
        \E r \in K : a = [launch |-> r.launch, scope |-> r.scope, complete |-> done]
  BY DEF Activity
<1>4. \A a \in Activity(K, done) :
        /\ a \in Records /\ a.complete = done
        /\ \E r \in K : a.launch = r.launch /\ a.scope = r.scope
  BY <1>1, <1>3
<1>5. ASSUME NEW r \in K
      PROVE  \E a \in Activity(K, done) :
               a.complete = done /\ a.launch = r.launch /\ a.scope = r.scope
  <2>1. PICK a \in Activity(K, done) :
          a = [launch |-> r.launch, scope |-> r.scope, complete |-> done]
    BY <1>2
  <2> QED
    BY <1>1, <2>1
<1>6. \A a, b \in Activity(K, done) : a.launch = b.launch /\ a.scope = b.scope => a = b
  BY <1>3
<1> QED
  BY <1>4, <1>5, <1>6

LEMMA TypeDevice ==
  ASSUME TypeOK, (\E r \in running : FinishKernel(r)) \/ Worker
  PROVE  TypeOK'
<1> USE DEF hostThreads, host, session
<1>1. ASSUME NEW r \in running, FinishKernel(r)
      PROVE  TypeOK'
  <2>1. Activity({r}, TRUE) \subseteq Records
    <3>1. {r} \in SUBSET Kernels /\ TRUE \in BOOLEAN
      BY DEF TypeOK
    <3> QED
      BY <3>1, ActivityFacts
  <2>2. records' \subseteq Records
    BY <1>1, <2>1 DEF FinishKernel, TypeOK
  <2> QED
    BY <1>1, <2>2 DEF FinishKernel, TypeOK
<1>2. ASSUME NEW r \in records, TakeRecord(r)
      PROVE  TypeOK'
  <2>1. worker' \in [record : Records, dataSet : BOOLEAN] /\ records' \subseteq Records
    BY <1>2 DEF TakeRecord, TypeOK
  <2> QED
    BY <1>2, <2>1 DEF TakeRecord, TypeOK
<1>3. CASE AddMetric
  <2>1. worker.record \in Records /\ worker' = Nothing
    BY <1>3 DEF AddMetric, TypeOK
  <2>2. metrics' \subseteq Records
    BY <1>3, <2>1 DEF AddMetric, TypeOK
  <2>3. completed' \in 0 .. MaxLaunches
    <3>1. completed \in 0 .. MaxLaunches /\ worker.record.launch \in 0 .. MaxLaunches
      BY <2>1, BoundsAssumption DEF TypeOK, Records, LaunchIds
    <3>2. Larger(completed, worker.record.launch) \in 0 .. MaxLaunches
      BY <3>1 DEF Larger
    <3> QED
      BY <1>3, <3>2 DEF AddMetric
  <2>4. stale' \in BOOLEAN
    BY <1>3 DEF AddMetric
  <2> QED
    BY <1>3, <2>1, <2>2, <2>3, <2>4 DEF AddMetric, TypeOK
<1> QED
  BY <1>1, <1>2, <1>3 DEF Worker

\* The fields of the step of a call.
LEMMA MainFacts ==
  ASSUME TypeOK, NEW s \in MainSteps
  PROVE  /\ Then(s) => /\ main'.step = s /\ main'.final = main.final
                       /\ main'.target = main.target /\ main'.retries = main.retries
         /\ Then(s) => main' \in MainType
         /\ \A f \in BOOLEAN : Begin(s, f) =>
              main' \in MainType /\ main'.step = s /\ main'.final = f
<1>1. MaxLaunches \in Nat /\ MaxRetries \in Nat /\ 0 \in 0 .. MaxLaunches /\ 0 \in 0 .. MaxRetries
  BY BoundsAssumption
<1>2. main \in MainType
  BY DEF TypeOK
<1> QED
  BY <1>1, <1>2 DEF Then, Begin, MainType

LEMMA TypeCall ==
  ASSUME TypeOK, Call
  PROVE  TypeOK'
<1> USE DEF launching, gpu
<1>1. \A s \in MainSteps, f \in BOOLEAN : Begin(s, f) =>
        /\ main' \in MainType /\ gil' \in Launchers \cup {Main, Free}
        /\ UNCHANGED <<launching, profLock, gpu, dataSet, freed, started>>
  BY MainFacts DEF Begin
<1>2. {"add", "start", "flush", "stop"} \subseteq MainSteps
  BY DEF MainSteps, Ending, Flushing
<1>3. CASE CallAddMetrics
  BY <1>1, <1>2, <1>3 DEF CallAddMetrics, TypeOK
<1>4. CASE CallActivate
  BY <1>1, <1>2, <1>4 DEF CallActivate, TypeOK
<1>5. CASE CallDeactivate
  <2>1. \A t \in Launchers : ~At(t, "idle") => thread[t].launch \in LaunchIds
    BY ScopeOf DEF TypeOK, At
  <2>2. caught' \subseteq LaunchIds
    BY <1>5, <2>1 DEF CallDeactivate, TypeOK
  <2> QED
    BY <1>1, <1>2, <1>5, <2>2 DEF CallDeactivate, TypeOK
<1>6. CASE CallFinalize
  <2>1. Begin("flush", TRUE) \/ Begin("stop", TRUE)
    BY <1>6 DEF CallFinalize
  <2> QED
    BY <1>1, <1>2, <1>6, <2>1 DEF CallFinalize, TypeOK
<1> QED
  BY <1>3, <1>4, <1>5, <1>6 DEF Call

LEMMA TypeContinue ==
  ASSUME TypeOK, Continue
  PROVE  TypeOK'
<1> USE DEF launching, gpu, session
<1>1. \A s \in MainSteps : Then(s) => main' \in MainType
  BY MainFacts
<1>2. {"return", "register", "first", "flushed", "unregister", "stop", "dump", "idle"}
        \subseteq MainSteps
  BY DEF MainSteps, Ending, Flushing
<1>3. CASE AddMetrics
  BY <1>1, <1>2, <1>3 DEF AddMetrics, TypeOK
<1>4. CASE Start
  BY <1>1, <1>2, <1>4 DEF Start, TypeOK
<1>5. CASE RegisterData
  BY <1>1, <1>2, <1>5 DEF RegisterData, TypeOK
<1>6. CASE Flush
  <2>1. Activity(running, TRUE) \subseteq Records
    <3>1. running \in SUBSET Kernels /\ TRUE \in BOOLEAN
      BY DEF TypeOK
    <3> QED
      BY <3>1, ActivityFacts
  <2>2. records' \subseteq Records /\ running' \subseteq running
    BY <1>6, <2>1 DEF Flush, TypeOK
  <2> QED
    BY <1>1, <1>2, <1>6, <2>2 DEF Flush, TypeOK
<1>7. CASE FlushFirst
  <2>1. "retry" \in MainSteps /\ MaxRetries \in 0 .. MaxRetries /\ submitted \in 0 .. MaxLaunches
    BY BoundsAssumption DEF TypeOK, MainSteps, Ending, Flushing
  <2>2. main' \in MainType
    BY <1>7, <2>1 DEF FlushFirst, TypeOK, MainType
  <2> QED
    BY <1>7, <2>2 DEF FlushFirst, TypeOK
<1>8. CASE FlushRetry
  <2>1. main.retries \in 0 .. MaxRetries /\ main.retries > 0
    BY <1>8 DEF FlushRetry, TypeOK, MainType
  <2>2. main.retries - 1 \in 0 .. MaxRetries
    BY <2>1, BoundsAssumption
  <2>3. main' \in MainType
    BY <1>8, <2>2 DEF FlushRetry, TypeOK, MainType
  <2> QED
    BY <1>8, <2>3 DEF FlushRetry, TypeOK
<1>9. CASE FlushForced
  <2>1. Activity(running, FALSE) \subseteq Records
    <3>1. running \in SUBSET Kernels /\ FALSE \in BOOLEAN
      BY DEF TypeOK
    <3> QED
      BY <3>1, ActivityFacts
  <2>2. records' \subseteq Records /\ running' \subseteq running
    BY <1>9, <2>1 DEF FlushForced, TypeOK
  <2> QED
    BY <1>1, <1>2, <1>9, <2>2 DEF FlushForced, TypeOK
<1>10. CASE Flushed
  BY <1>1, <1>2, <1>10 DEF Flushed, TypeOK
<1>11. CASE UnregisterData
  <2>1. main' \in MainType
    BY <1>1, <1>2, <1>11 DEF UnregisterData
  <2> QED
    BY <1>11, <2>1 DEF UnregisterData, TypeOK
<1>12. CASE Stop
  BY <1>1, <1>2, <1>12 DEF Stop, TypeOK
<1>13. CASE Dump
  BY <1>1, <1>2, <1>13 DEF Dump, TypeOK
<1>14. CASE ReturnMain
  BY <1>1, <1>2, <1>14 DEF ReturnMain, TypeOK
<1> QED
  BY <1>3, <1>4, <1>5, <1>6, <1>7, <1>8, <1>9, <1>10, <1>11, <1>12, <1>13, <1>14 DEF Continue

LEMMA TypeNext == TypeOK /\ [Next]_vars => TypeOK'
<1> SUFFICES ASSUME TypeOK, [Next]_vars PROVE TypeOK'
  OBVIOUS
<1>1. CASE UNCHANGED vars
  BY <1>1 DEF vars, host, session, gpu, TypeOK
<1> QED
  BY <1>1, TypeLauncher, TypeDevice, TypeCall, TypeContinue DEF Next

-----------------------------------------------------------------------------
(* The calls and the launches.                                              *)

\* The interpreter lock is with the call under way, or with a launcher that is
\* before the driver call.
LockHeld ==
  /\ main.step # "idle" <=> gil = Main
  /\ \A t \in Launchers : thread[t].step \in {"hook", "ready"} => gil = t

\* A callback has its exit when it had its entry, and a snapshot only then; and
\* the profiler does not stop in between.
CallbacksPaired ==
  \A t \in Launchers :
    /\ thread[t].snapshot => thread[t].called
    /\ thread[t].called =>
         started /\ thread[t].step \in {"data", "context", "kernel", "exit", "return"}
    /\ thread[t].step \in {"data", "context", "exit"} => thread[t].called

\* No launch is under way while finalize() is; and whether the session is active
\* is whether its data is in the data set, but for the calls that change both;
\* while it is active the profiler has started.
CallsInOrder ==
  /\ main.step \in {"stop", "dump"} => main.final /\ ~active
  /\ main.step \in Ending /\ main.final => \A t \in Launchers : thread[t].step = "idle"
  /\ main.step \in {"start", "register"} => active /\ ~freed
  /\ main.step \in Flushing => ~active /\ dataSet
  /\ main.step \notin {"start", "register"} \cup Flushing => (active <=> dataSet)
  /\ active /\ main.step # "start" => started

BaseInv == LockHeld /\ CallbacksPaired /\ CallsInOrder

LEMMA QuietIs == Quiet <=> \A t \in Launchers : thread[t].step = "idle"
BY DEF Quiet, At

LEMMA BaseInit == Init => BaseInv
<1> SUFFICES ASSUME Init PROVE BaseInv
  OBVIOUS
<1>1. \A t \in Launchers :
        thread[t].step = "idle" /\ ~thread[t].snapshot /\ ~thread[t].called
  BY DEF Init, Launcher
<1>2. Main # Free
  BY ThreadsAssumption
<1> QED
  BY <1>1, <1>2 DEF Init, BaseInv, LockHeld, CallbacksPaired, CallsInOrder, Ending, Flushing

\* The steps of a launcher that leave the calls alone.
LEMMA BaseMove ==
  ASSUME TypeOK, BaseInv, NEW t \in Launchers, Moves(t),
         UNCHANGED <<main, started, active, dataSet, freed>>,
         gil' = gil \/ (gil = t /\ gil' = Free),
         thread'[t].step \in {"hook", "ready"} => gil' = t,
         thread[t].step # "idle",
         thread'[t].snapshot => thread'[t].called,
         thread'[t].called =>
           started /\ thread'[t].step \in {"data", "context", "kernel", "exit", "return"},
         thread'[t].step \in {"data", "context", "exit"} => thread'[t].called
  PROVE  BaseInv'
<1>1. t # Main /\ t # Free /\ Main # Free
  BY ThreadsAssumption
<1>2. \A u \in Launchers : u # t => thread'[u] = thread[u]
  BY DEF Moves, Others
<1>3. \A u \in Launchers : u # Main /\ u # Free
  BY ThreadsAssumption
<1>4. LockHeld'
  BY <1>1, <1>2, <1>3 DEF BaseInv, LockHeld
<1>5. CallbacksPaired'
  BY <1>2 DEF BaseInv, CallbacksPaired
<1>6. CallsInOrder'
  <2>1. ~(main.step \in Ending /\ main.final)
    BY DEF BaseInv, CallsInOrder
  <2> QED
    BY <2>1 DEF BaseInv, CallsInOrder
<1> QED
  BY <1>4, <1>5, <1>6 DEF BaseInv

LEMMA BaseLauncher ==
  ASSUME TypeOK, BaseInv, NEW t \in Launchers, CallLaunch(t) \/ Launch(t)
  PROVE  BaseInv'
<1> USE DEF others, host, session, gpu, SameLaunch, SameOp, SameCallback
<1>1. /\ thread[t].step \in {"hook", "ready"} => gil = t
      /\ thread[t].snapshot => thread[t].called
      /\ thread[t].called =>
           started /\ thread[t].step \in {"data", "context", "kernel", "exit", "return"}
      /\ thread[t].step \in {"data", "context", "exit"} => thread[t].called
  BY DEF BaseInv, LockHeld, CallbacksPaired
<1>2. CASE CallLaunch(t)
  <2>1. /\ Moves(t) /\ thread'[t].step = "hook" /\ SameCallback(thread'[t], thread[t])
        /\ thread[t].step = "idle"
    BY <1>2, CallLaunchEffect
  <2>2. t # Main /\ t # Free /\ Main # Free /\ gil' = t /\ gil = Free
        /\ UNCHANGED <<main, started, active, dataSet, freed>>
    BY <1>2, ThreadsAssumption DEF CallLaunch
  <2>3. main.step = "idle"
    BY <2>2 DEF BaseInv, LockHeld
  <2>4. \A u \in Launchers : u # t => thread'[u] = thread[u]
    BY <2>1 DEF Moves, Others
  <2>5. LockHeld'
    BY <2>2, <2>3, <2>1, <2>4, ThreadsAssumption DEF BaseInv, LockHeld
  <2>6. CallbacksPaired'
    BY <1>1, <2>1, <2>2, <2>4 DEF BaseInv, CallbacksPaired
  <2>7. CallsInOrder'
    BY <2>2, <2>3 DEF BaseInv, CallsInOrder, Ending, Flushing
  <2> QED
    BY <2>5, <2>6, <2>7 DEF BaseInv
<1>3. CASE EnterHook(t)
  <2>1. /\ Moves(t) /\ thread[t].step = "hook" /\ thread'[t].step = "ready"
        /\ SameCallback(thread'[t], thread[t])
    BY <1>3, EnterHookEffect
  <2>2. gil' = gil /\ UNCHANGED <<main, started, active, dataSet, freed>>
    BY <1>3 DEF EnterHook
  <2> QED
    BY <1>1, <2>1, <2>2, BaseMove
<1>4. CASE Fail(t)
  <2>1. Plain(t, "ready", "idle")
    BY <1>4, PlainEffects
  <2>2. gil' = Free /\ UNCHANGED <<main, started, active, dataSet, freed>>
    BY <1>4 DEF Fail
  <2> QED
    BY <1>1, <2>1, <2>2, BaseMove DEF Plain
<1>5. CASE AllowThreads(t)
  <2>1. Plain(t, "ready", "enter")
    BY <1>5, PlainEffects
  <2>2. gil' = Free /\ UNCHANGED <<main, started, active, dataSet, freed>>
    BY <1>5 DEF AllowThreads
  <2> QED
    BY <1>1, <2>1, <2>2, BaseMove DEF Plain
<1>6. CASE Record(t)
  <2>1. /\ Moves(t) /\ thread[t].step = "enter" /\ thread'[t].step = "data"
        /\ thread'[t].called
    BY <1>6, RecordEffect
  <2>2. started /\ gil' = gil /\ UNCHANGED <<main, started, active, dataSet, freed>>
    BY <1>6 DEF Record
  <2> QED
    BY <1>1, <2>1, <2>2, BaseMove
<1>7. CASE NoCallback(t)
  <2>1. /\ Moves(t) /\ thread[t].step = "enter" /\ thread'[t].step = "kernel"
        /\ ~thread'[t].snapshot /\ ~thread'[t].called
    BY <1>7, NoCallbackEffect
  <2>2. gil' = gil /\ UNCHANGED <<main, started, active, dataSet, freed>>
    BY <1>7 DEF NoCallback
  <2> QED
    BY <1>1, <2>1, <2>2, BaseMove
<1>8. CASE EnterData(t)
  <2>1. /\ Moves(t) /\ thread[t].step = "data" /\ thread'[t].step \in {"kernel", "context"}
        /\ SameCallback(thread'[t], thread[t])
    BY <1>8, EnterDataEffect
  <2>2. gil' = gil /\ UNCHANGED <<main, started, active, dataSet, freed>>
    BY <1>8 DEF EnterData
  <2> QED
    BY <1>1, <2>1, <2>2, BaseMove
<1>9. CASE GetContexts(t)
  <2>1. Plain(t, "context", "kernel")
    BY <1>9, PlainEffects
  <2>2. gil' = gil /\ UNCHANGED <<main, started, active, dataSet, freed>>
    BY <1>9 DEF GetContexts
  <2> QED
    BY <1>1, <2>1, <2>2, BaseMove DEF Plain
<1>10. CASE Kernel(t)
  <2>1. Plain(t, "kernel", IF thread[t].called THEN "exit" ELSE "return")
    BY <1>10, PlainEffects
  <2>2. gil' = gil /\ UNCHANGED <<main, started, active, dataSet, freed>>
    BY <1>10 DEF Kernel
  <2>3. CASE thread[t].called
    BY <1>1, <2>1, <2>2, <2>3, BaseMove DEF Plain
  <2>4. CASE ~thread[t].called
    BY <1>1, <2>1, <2>2, <2>4, BaseMove DEF Plain
  <2> QED
    BY <2>3, <2>4
<1>11. CASE ExitCallback(t)
  <2>1. /\ Moves(t) /\ thread[t].step = "exit" /\ thread'[t].step = "return"
        /\ SameCallback(thread'[t], thread[t])
    BY <1>11, ExitCallbackEffect
  <2>2. gil' = gil /\ UNCHANGED <<main, started, active, dataSet, freed>>
    BY <1>11 DEF ExitCallback
  <2> QED
    BY <1>1, <2>1, <2>2, BaseMove
<1>12. CASE Return(t)
  <2>1. /\ Moves(t) /\ thread[t].step = "return" /\ thread'[t].step = "idle"
        /\ ~thread'[t].snapshot /\ ~thread'[t].called
    BY <1>12, ReturnEffect
  <2>2. gil' = gil /\ UNCHANGED <<main, started, active, dataSet, freed>>
    BY <1>12 DEF Return
  <2> QED
    BY <1>1, <2>1, <2>2, BaseMove
<1> QED
  BY <1>2, <1>3, <1>4, <1>5, <1>6, <1>7, <1>8, <1>9, <1>10, <1>11, <1>12 DEF Launch

LEMMA BaseCall ==
  ASSUME TypeOK, BaseInv, Call
  PROVE  BaseInv'
<1> USE DEF launching, gpu
<1>1. Main # Free /\ \A t \in Launchers : t # Main /\ t # Free
  BY ThreadsAssumption
<1>2. {"add", "start", "flush", "stop"} \subseteq MainSteps
  BY DEF MainSteps, Ending, Flushing
<1>3. \A s \in MainSteps : Begin(s, FALSE) \/ Begin(s, TRUE) =>
        /\ main'.step = s /\ main.step = "idle" /\ gil = Free /\ gil' = Main
        /\ UNCHANGED <<thread, started, dataSet, freed>>
  BY DEF Begin
<1>4. \A s \in MainSteps :
        (Begin(s, TRUE) => main'.final) /\ (Begin(s, FALSE) => ~main'.final)
  BY DEF Begin
<1>5. ASSUME NEW s \in MainSteps, Begin(s, FALSE) \/ Begin(s, TRUE), s # "idle"
       PROVE  LockHeld' /\ CallbacksPaired'
  <2>1. /\ main'.step # "idle" /\ gil = Free /\ gil' = Main
        /\ UNCHANGED <<thread, started>>
    BY <1>3, <1>5
  <2>2. LockHeld'
    BY <1>1, <2>1 DEF BaseInv, LockHeld
  <2>3. CallbacksPaired'
    BY <2>1 DEF BaseInv, CallbacksPaired
  <2> QED
    BY <2>2, <2>3
<1>6. main.step = "idle" => (active <=> dataSet) /\ (active => started)
  BY DEF BaseInv, CallsInOrder, Flushing
<1>7. CASE CallAddMetrics
  <2>1. CallsInOrder'
    BY <1>2, <1>3, <1>4, <1>6, <1>7 DEF CallAddMetrics, CallsInOrder, Ending, Flushing
  <2> QED
    BY <1>2, <1>5, <1>7, <2>1 DEF BaseInv, CallAddMetrics
<1>8. CASE CallActivate
  <2>1. CallsInOrder'
    BY <1>2, <1>3, <1>4, <1>6, <1>8 DEF CallActivate, CallsInOrder, Ending, Flushing
  <2> QED
    BY <1>2, <1>5, <1>8, <2>1 DEF BaseInv, CallActivate
<1>9. CASE CallDeactivate
  <2>1. CallsInOrder'
    BY <1>2, <1>3, <1>4, <1>6, <1>9 DEF CallDeactivate, CallsInOrder, Ending, Flushing
  <2> QED
    BY <1>2, <1>5, <1>9, <2>1 DEF BaseInv, CallDeactivate
<1>10. CASE CallFinalize
  <2>1. PICK s \in {"flush", "stop"} : s = IF active THEN "flush" ELSE "stop"
    OBVIOUS
  <2>2. Begin(s, TRUE) /\ ~active' /\ \A t \in Launchers : thread[t].step = "idle"
    BY <1>10, <2>1, QuietIs DEF CallFinalize
  <2>3. /\ main'.step = s /\ main'.final /\ main.step = "idle"
        /\ UNCHANGED <<thread, started, dataSet, freed>>
    <3>1. s \in MainSteps /\ Begin(s, TRUE)
      BY <1>2, <2>2
    <3>2. main'.final
      BY <1>4, <3>1
    <3>3. main'.step = s /\ main.step = "idle"
      BY <1>3, <3>1
    <3> QED
      BY <1>3, <3>1, <3>2, <3>3
  <2>4. CallsInOrder'
    BY <1>6, <2>1, <2>2, <2>3 DEF CallsInOrder, Ending, Flushing
  <2> QED
    BY <1>2, <1>5, <2>2, <2>4 DEF BaseInv
<1> QED
  BY <1>7, <1>8, <1>9, <1>10 DEF Call

\* What a step of a call does to the call itself.
LEMMA ContinueEffect ==
  ASSUME TypeOK, Continue
  PROVE  /\ UNCHANGED <<program, thread, launches, scopes, submitted, returned, stale, session>>
         /\ dataLock' = dataLock
         /\ main'.final = main.final
         /\ main'.step # "idle" => gil' = gil
         /\ main.step # "idle"
         /\ \/ main.step = "add" /\ main'.step = "return" /\ UNCHANGED <<dataSet, freed, started>>
            \/ main.step = "start" /\ main'.step = "register" /\ started'
               /\ UNCHANGED <<dataSet, freed>>
            \/ main.step = "register" /\ main'.step = "return" /\ dataSet'
               /\ UNCHANGED <<freed, started>>
            \/ /\ \/ main.step = "flush" /\ main'.step = "first"
                  \/ main.step = "first" /\ main'.step = "retry"
                  \/ main.step = "retry" /\ main'.step \in {"retry", "flushed"}
                  \/ main.step = "flushed" /\ main'.step = "unregister"
               /\ UNCHANGED <<dataSet, freed, started>>
            \/ main.step = "unregister" /\ main'.step = (IF main.final THEN "stop" ELSE "return")
               /\ ~dataSet' /\ UNCHANGED <<freed, started>>
            \/ main.step = "stop" /\ main'.step = "dump" /\ ~started'
               /\ UNCHANGED <<dataSet, freed>>
            \/ main.step = "dump" /\ main'.step = "return" /\ freed' /\ UNCHANGED <<dataSet, started>>
            \/ main.step = "return" /\ main'.step = "idle" /\ gil' = Free
               /\ UNCHANGED <<dataSet, freed, started>>
<1> USE DEF launching
<1>1. \A s \in MainSteps : Then(s) => main'.step = s /\ main'.final = main.final
  BY MainFacts
<1>2. {"return", "register", "first", "retry", "flushed", "unregister", "stop", "dump", "idle"}
        \subseteq MainSteps
  BY DEF MainSteps, Ending, Flushing
<1>3. CASE AddMetrics
  BY <1>1, <1>2, <1>3 DEF AddMetrics
<1>4. CASE Start
  BY <1>1, <1>2, <1>4 DEF Start
<1>5. CASE RegisterData
  BY <1>1, <1>2, <1>5 DEF RegisterData
<1>6. CASE Flush
  BY <1>1, <1>2, <1>6 DEF Flush
<1>7. CASE FlushFirst
  <2>1. main'.step = "retry" /\ main'.final = main.final
    BY <1>7 DEF FlushFirst, TypeOK, MainType
  <2> QED
    BY <1>7, <2>1 DEF FlushFirst
<1>8. CASE FlushRetry
  <2>1. main'.step = "retry" /\ main'.final = main.final
    BY <1>8 DEF FlushRetry, TypeOK, MainType
  <2> QED
    BY <1>8, <2>1 DEF FlushRetry
<1>9. CASE FlushForced
  BY <1>1, <1>2, <1>9 DEF FlushForced
<1>10. CASE Flushed
  BY <1>1, <1>2, <1>10 DEF Flushed
<1>11. CASE UnregisterData
  <2>1. main'.step = (IF main.final THEN "stop" ELSE "return") /\ main'.final = main.final
    BY <1>1, <1>2, <1>11 DEF UnregisterData
  <2> QED
    BY <1>11, <2>1 DEF UnregisterData
<1>12. CASE Stop
  BY <1>1, <1>2, <1>12 DEF Stop
<1>13. CASE Dump
  BY <1>1, <1>2, <1>13 DEF Dump
<1>14. CASE ReturnMain
  BY <1>1, <1>2, <1>14 DEF ReturnMain
<1> QED
  BY <1>3, <1>4, <1>5, <1>6, <1>7, <1>8, <1>9, <1>10, <1>11, <1>12, <1>13, <1>14 DEF Continue

LEMMA BaseContinue ==
  ASSUME TypeOK, BaseInv, Continue
  PROVE  BaseInv'
<1>1. Main # Free /\ \A t \in Launchers : t # Main
  BY ThreadsAssumption
<1>2. UNCHANGED <<thread, active>>
  BY ContinueEffect DEF session
<1>3. gil = Main /\ \A t \in Launchers : thread[t].step \notin {"hook", "ready"}
  BY <1>1, ContinueEffect DEF BaseInv, LockHeld
<1>4. LockHeld'
  BY <1>1, <1>2, <1>3, ContinueEffect DEF LockHeld
<1>5. CallbacksPaired'
  <2>1. CASE main.step = "stop"
    <3>1. \A t \in Launchers : ~thread[t].called /\ thread[t].step = "idle"
      BY <2>1 DEF BaseInv, CallsInOrder, CallbacksPaired, Ending
    <3> QED
      BY <1>2, <3>1 DEF BaseInv, CallbacksPaired
  <2>2. CASE main.step # "stop"
    <3>1. started => started'
      BY <2>2, ContinueEffect
    <3> QED
      BY <1>2, <3>1 DEF BaseInv, CallbacksPaired
  <2> QED
    BY <2>1, <2>2
<1>6. CallsInOrder'
  <2>1. main'.final = main.final
    BY ContinueEffect
  <2>2. active \in BOOLEAN /\ dataSet \in BOOLEAN
    BY DEF TypeOK
  <2> QED
    BY <1>2, <2>1, <2>2, ContinueEffect, TypeContinue
    DEF BaseInv, CallsInOrder, Ending, Flushing, TypeOK
<1> QED
  BY <1>4, <1>5, <1>6 DEF BaseInv

LEMMA BaseNext == TypeOK /\ BaseInv /\ [Next]_vars => BaseInv'
<1> SUFFICES ASSUME TypeOK, BaseInv, [Next]_vars PROVE BaseInv'
  OBVIOUS
<1>1. CASE UNCHANGED <<gil, thread, host>>
  BY <1>1 DEF host, session, BaseInv, LockHeld, CallbacksPaired, CallsInOrder
<1>2. CASE (\E r \in running : FinishKernel(r)) \/ Worker
  <2>1. UNCHANGED <<gil, thread, host>>
    BY <1>2 DEF FinishKernel, Worker, TakeRecord, AddMetric, hostThreads
  <2> QED
    BY <1>1, <2>1
<1>3. CASE UNCHANGED vars
  BY <1>1, <1>3 DEF vars
<1> QED
  BY <1>2, <1>3, BaseLauncher, BaseCall, BaseContinue DEF Next

-----------------------------------------------------------------------------
(* What is freed.                                                           *)

\* The rule: who finalizes lets the launches return before he deactivates, too.
JoinsBoth(p) == "finalize" \in p.joins => "deactivate" \in p.joins

\* Of a program that lets its launches return before it deactivates: nothing
\* runs, and nothing is left to hand over, when the data leaves the data set.
Drained ==
  "deactivate" \in program.joins =>
    /\ main.step \in Ending => \A t \in Launchers : thread[t].step = "idle"
    /\ main.step \in {"flushed", "unregister"} => running = {}
    /\ main.step = "unregister" => records = {} /\ worker = Nothing
    /\ ~dataSet /\ worker # Nothing => ~worker.dataSet

\* Freed data is in no data set and no snapshot.
FreedIsOut ==
  freed =>
    /\ "finalize" \in program.joins
    /\ ~dataSet /\ ~active /\ main.step \in {"return", "idle"}
    /\ \A t \in Launchers : ~thread[t].snapshot

\* Only a program that lets its launches return before finalizes.
OnlyThen == main.final => "finalize" \in program.joins

FreedInv == OnlyThen /\ Drained /\ FreedIsOut /\ (JoinsBoth(program) => ~stale)

\* A program is the same throughout.
LEMMA ProgramStays == [Next]_vars => program' = program
<1> SUFFICES ASSUME [Next]_vars PROVE program' = program
  OBVIOUS
<1> USE DEF others, hostThreads, launching
<1>1. ASSUME NEW t \in Launchers, CallLaunch(t) \/ Launch(t)
      PROVE  program' = program
  BY <1>1 DEF CallLaunch, Launch, EnterHook, Fail, AllowThreads, Record, NoCallback, EnterData,
              GetContexts, Kernel, ExitCallback, Return
<1>2. CASE (\E r \in running : FinishKernel(r)) \/ Worker
  BY <1>2 DEF FinishKernel, Worker, TakeRecord, AddMetric
<1>3. CASE Call
  BY <1>3 DEF Call, CallAddMetrics, CallActivate, CallDeactivate, CallFinalize, Begin
<1>4. CASE Continue
  BY <1>4 DEF Continue, AddMetrics, Start, RegisterData, Flush, FlushFirst, FlushRetry,
              FlushForced, Flushed, UnregisterData, Stop, Dump, ReturnMain
<1>5. CASE UNCHANGED vars
  BY <1>5 DEF vars
<1> QED
  BY <1>1, <1>2, <1>3, <1>4, <1>5 DEF Next

LEMMA FreedInit == Init => FreedInv
BY DEF Init, FreedInv, OnlyThen, Drained, FreedIsOut, Ending, Flushing, Launcher

\* A step that takes no snapshot while the data is freed and changes nothing else
\* that the invariant is about.
LEMMA FreedMove ==
  ASSUME FreedInv, NEW t \in Launchers, Others(t),
         UNCHANGED <<program, main, dataSet, active, freed, records, worker>>,
         thread[t].step = "idle" => main.step \notin Ending,
         running' = running \/ thread[t].step # "idle",
         thread'[t].snapshot => thread[t].snapshot \/ ~freed,
         stale' => stale \/ (thread[t].snapshot /\ freed)
  PROVE  FreedInv'
<1>1. \A u \in Launchers : u # t => thread'[u] = thread[u]
  BY DEF Others
<1>2. FreedIsOut'
  BY <1>1 DEF FreedInv, FreedIsOut
<1>3. Drained'
  <2> SUFFICES ASSUME "deactivate" \in program.joins PROVE Drained'
    BY DEF Drained
  <2>1. main.step \notin Ending
    BY DEF FreedInv, Drained
  <2>2. main.step \notin {"flushed", "unregister"}
    BY <2>1 DEF Ending, Flushing
  <2> QED
    BY <2>1, <2>2 DEF FreedInv, Drained
<1>4. JoinsBoth(program)' => ~stale'
  BY DEF FreedInv, FreedIsOut, JoinsBoth
<1> QED
  BY <1>2, <1>3, <1>4 DEF FreedInv, OnlyThen

LEMMA FreedLauncher ==
  ASSUME TypeOK, BaseInv, FreedInv, NEW t \in Launchers, CallLaunch(t) \/ Launch(t)
  PROVE  FreedInv'
<1> USE DEF others, host, session, gpu, SameCallback
<1>1. CASE CallLaunch(t)
  <2>1. Moves(t) /\ SameCallback(thread'[t], thread[t])
    BY <1>1, CallLaunchEffect
  <2>2. main.step = "idle"
    BY <1>1, ThreadsAssumption DEF CallLaunch, BaseInv, LockHeld
  <2>3. /\ UNCHANGED <<program, main, dataSet, active, freed, records, worker, running, stale>>
    BY <1>1 DEF CallLaunch
  <2> QED
    BY <2>1, <2>2, <2>3, FreedMove DEF Moves, Ending, Flushing
<1>2. CASE EnterHook(t)
  <2>1. Moves(t) /\ SameCallback(thread'[t], thread[t]) /\ thread[t].step # "idle"
    BY <1>2, EnterHookEffect
  <2>2. UNCHANGED <<program, main, dataSet, active, freed, records, worker, running, stale>>
    BY <1>2 DEF EnterHook
  <2> QED
    BY <2>1, <2>2, FreedMove DEF Moves
<1>3. CASE Fail(t)
  <2>1. Moves(t) /\ SameCallback(thread'[t], thread[t]) /\ thread[t].step # "idle"
    BY <1>3, PlainEffects DEF Plain
  <2>2. UNCHANGED <<program, main, dataSet, active, freed, records, worker, running, stale>>
    BY <1>3 DEF Fail
  <2> QED
    BY <2>1, <2>2, FreedMove DEF Moves
<1>4. CASE AllowThreads(t)
  <2>1. Moves(t) /\ SameCallback(thread'[t], thread[t]) /\ thread[t].step # "idle"
    BY <1>4, PlainEffects DEF Plain
  <2>2. UNCHANGED <<program, main, dataSet, active, freed, records, worker, running, stale>>
    BY <1>4 DEF AllowThreads
  <2> QED
    BY <2>1, <2>2, FreedMove DEF Moves
<1>5. CASE Record(t)
  <2>1. Moves(t) /\ thread[t].step # "idle" /\ thread'[t].snapshot = dataSet
    BY <1>5, RecordEffect
  <2>2. UNCHANGED <<program, main, dataSet, active, freed, records, worker, running, stale>>
    BY <1>5 DEF Record
  <2>3. thread'[t].snapshot => ~freed
    BY <2>1 DEF FreedInv, FreedIsOut
  <2> QED
    BY <2>1, <2>2, <2>3, FreedMove DEF Moves
<1>6. CASE NoCallback(t)
  <2>1. Moves(t) /\ thread[t].step # "idle" /\ ~thread'[t].snapshot
    BY <1>6, NoCallbackEffect
  <2>2. UNCHANGED <<program, main, dataSet, active, freed, records, worker, running, stale>>
    BY <1>6 DEF NoCallback
  <2> QED
    BY <2>1, <2>2, FreedMove DEF Moves
<1>7. CASE EnterData(t)
  <2>1. Moves(t) /\ SameCallback(thread'[t], thread[t]) /\ thread[t].step # "idle"
    BY <1>7, EnterDataEffect
  <2>2. /\ UNCHANGED <<program, main, dataSet, active, freed, records, worker, running>>
        /\ stale' = (stale \/ (thread[t].snapshot /\ freed))
    BY <1>7 DEF EnterData
  <2> QED
    BY <2>1, <2>2, FreedMove DEF Moves
<1>8. CASE GetContexts(t)
  <2>1. Moves(t) /\ SameCallback(thread'[t], thread[t]) /\ thread[t].step # "idle"
    BY <1>8, PlainEffects DEF Plain
  <2>2. UNCHANGED <<program, main, dataSet, active, freed, records, worker, running, stale>>
    BY <1>8 DEF GetContexts
  <2> QED
    BY <2>1, <2>2, FreedMove DEF Moves
<1>9. CASE Kernel(t)
  <2>1. Moves(t) /\ SameCallback(thread'[t], thread[t]) /\ thread[t].step # "idle"
    BY <1>9, PlainEffects DEF Plain
  <2>2. UNCHANGED <<program, main, dataSet, active, freed, records, worker, stale>>
    BY <1>9 DEF Kernel
  <2> QED
    BY <2>1, <2>2, FreedMove DEF Moves
<1>10. CASE ExitCallback(t)
  <2>1. Moves(t) /\ SameCallback(thread'[t], thread[t]) /\ thread[t].step # "idle"
    BY <1>10, ExitCallbackEffect
  <2>2. /\ UNCHANGED <<program, main, dataSet, active, freed, records, worker, running>>
        /\ stale' => stale \/ (thread[t].snapshot /\ freed)
    BY <1>10 DEF ExitCallback
  <2> QED
    BY <2>1, <2>2, FreedMove DEF Moves
<1>11. CASE Return(t)
  <2>1. Moves(t) /\ thread[t].step # "idle" /\ ~thread'[t].snapshot
    BY <1>11, ReturnEffect
  <2>2. UNCHANGED <<program, main, dataSet, active, freed, records, worker, running, stale>>
    BY <1>11 DEF Return
  <2> QED
    BY <2>1, <2>2, FreedMove DEF Moves
<1> QED
  BY <1>1, <1>2, <1>3, <1>4, <1>5, <1>6, <1>7, <1>8, <1>9, <1>10, <1>11 DEF Launch

LEMMA FreedDevice ==
  ASSUME TypeOK, BaseInv, FreedInv, (\E r \in running : FinishKernel(r)) \/ Worker
  PROVE  FreedInv'
<1> USE DEF hostThreads, host, session
<1>1. FreedIsOut' /\ OnlyThen'
  <2>1. UNCHANGED <<program, main, thread, dataSet, active, freed>>
    BY DEF FinishKernel, Worker, TakeRecord, AddMetric
  <2> QED
    BY <2>1 DEF FreedInv, FreedIsOut, OnlyThen
<1>2. ASSUME NEW r \in running, FinishKernel(r)
      PROVE  Drained' /\ (JoinsBoth(program)' => ~stale')
  <2>1. running # {} /\ running' \subseteq running
    BY <1>2 DEF FinishKernel
  <2>2. UNCHANGED <<program, main, thread, dataSet, worker, stale>>
    BY <1>2 DEF FinishKernel
  <2>3. "deactivate" \in program.joins => main.step \notin {"flushed", "unregister"}
    BY <2>1 DEF FreedInv, Drained
  <2> QED
    BY <2>1, <2>2, <2>3 DEF FreedInv, Drained, JoinsBoth
<1>3. ASSUME NEW r \in records, TakeRecord(r)
      PROVE  Drained' /\ (JoinsBoth(program)' => ~stale')
  <2>1. UNCHANGED <<program, main, thread, dataSet, running, stale>>
    BY <1>3 DEF TakeRecord
  <2>2. "deactivate" \in program.joins => main.step # "unregister"
    BY <1>3 DEF FreedInv, Drained
  <2>3. worker'.dataSet = dataSet
    BY <1>3 DEF TakeRecord
  <2> QED
    BY <2>1, <2>2, <2>3 DEF FreedInv, Drained, JoinsBoth
<1>4. CASE AddMetric
  <2>1. UNCHANGED <<program, main, thread, dataSet, running, records>> /\ worker' = Nothing
        /\ worker # Nothing /\ (stale' => stale \/ (worker.dataSet /\ freed))
    BY <1>4 DEF AddMetric
  <2>2. Drained'
    BY <2>1 DEF FreedInv, Drained
  <2>3. JoinsBoth(program)' => ~stale'
    BY <2>1 DEF FreedInv, Drained, FreedIsOut, JoinsBoth
  <2> QED
    BY <1>1, <2>2, <2>3 DEF FreedInv
<1> QED
  BY <1>1, <1>2, <1>3, <1>4 DEF Worker, FreedInv

LEMMA FreedCall ==
  ASSUME TypeOK, BaseInv, FreedInv, Call
  PROVE  FreedInv'
<1> USE DEF launching, gpu
<1>1. \A s \in MainSteps : Begin(s, FALSE) \/ Begin(s, TRUE) =>
        /\ main'.step = s /\ main.step = "idle"
        /\ UNCHANGED <<program, thread, stale, running, records, worker, dataSet, freed>>
  BY DEF Begin
<1>2. {"add", "start", "flush", "stop"} \subseteq MainSteps
  BY DEF MainSteps, Ending, Flushing
<1>3. ~freed => ~freed'
  BY <1>1, <1>2 DEF Call, CallAddMetrics, CallActivate, CallDeactivate, CallFinalize, Begin
<1>4. ~freed
  BY DEF Call, CallAddMetrics, CallActivate, CallDeactivate, CallFinalize, FreedInv, FreedIsOut
<1>5. FreedIsOut'
  BY <1>3, <1>4 DEF FreedIsOut
<1>6. \A s \in MainSteps : Begin(s, FALSE) => ~main'.final
  BY DEF Begin
<1>7. ASSUME NEW s \in {"add", "start"}, Begin(s, FALSE) \/ Begin(s, TRUE)
      PROVE  Drained' /\ (JoinsBoth(program)' => ~stale')
  BY <1>1, <1>2, <1>7 DEF FreedInv, Drained, JoinsBoth, Ending, Flushing
<1>8. ASSUME NEW s \in {"flush", "stop"}, Begin(s, FALSE) \/ Begin(s, TRUE),
             "deactivate" \in program.joins => \A t \in Launchers : thread[t].step = "idle"
      PROVE  Drained' /\ (JoinsBoth(program)' => ~stale')
  BY <1>1, <1>2, <1>8 DEF FreedInv, Drained, JoinsBoth, Ending, Flushing
<1>9. CASE CallAddMetrics \/ CallActivate
  <2>1. OnlyThen'
    BY <1>2, <1>6, <1>9 DEF CallAddMetrics, CallActivate, OnlyThen
  <2> QED
    BY <1>5, <1>7, <1>9, <2>1 DEF CallAddMetrics, CallActivate, FreedInv
<1>10. CASE CallDeactivate
  <2>1. OnlyThen'
    BY <1>2, <1>6, <1>10 DEF CallDeactivate, OnlyThen
  <2> QED
    BY <1>5, <1>8, <1>10, <2>1, QuietIs DEF CallDeactivate, Joined, FreedInv
<1>11. CASE CallFinalize
  <2>1. \E s \in {"flush", "stop"} : Begin(s, TRUE)
    BY <1>11 DEF CallFinalize
  <2>2. "finalize" \in program.joins /\ program' = program
    BY <1>1, <1>2, <1>11, <2>1 DEF CallFinalize
  <2> QED
    BY <1>5, <1>8, <1>11, <2>1, <2>2, QuietIs DEF CallFinalize, FreedInv, OnlyThen
<1> QED
  BY <1>9, <1>10, <1>11 DEF Call

LEMMA FreedContinue ==
  ASSUME TypeOK, BaseInv, FreedInv, Continue
  PROVE  FreedInv'
<1> USE DEF launching, gpu, session
<1>1. UNCHANGED <<program, thread, stale, active>>
  BY ContinueEffect
<1>2. FreedIsOut'
  <2>1. CASE main.step = "dump"
    <3>1. main.final /\ ~active /\ ~dataSet /\ \A t \in Launchers : thread[t].step = "idle"
      BY <2>1 DEF BaseInv, CallsInOrder, Ending, Flushing
    <3>2. \A t \in Launchers : ~thread[t].snapshot
      BY <3>1 DEF BaseInv, CallbacksPaired
    <3>3. dataSet' = dataSet /\ main'.step = "return"
      BY <2>1, ContinueEffect
    <3>4. "finalize" \in program.joins
      BY <3>1 DEF FreedInv, OnlyThen
    <3> QED
      BY <1>1, <3>1, <3>2, <3>3, <3>4 DEF FreedIsOut
  <2>2. CASE main.step # "dump"
    <3>1. freed' = freed
      BY <2>2, ContinueEffect
    <3>2. freed => main.step = "return" /\ main'.step = "idle" /\ dataSet' = dataSet
      BY ContinueEffect DEF FreedInv, FreedIsOut
    <3> QED
      BY <1>1, <3>1, <3>2 DEF FreedInv, FreedIsOut
  <2> QED
    BY <2>1, <2>2
<1>3. JoinsBoth(program)' => ~stale'
  BY <1>1 DEF FreedInv, JoinsBoth
<1>4. Drained'
  <2> SUFFICES ASSUME "deactivate" \in program.joins PROVE Drained'
    BY <1>1 DEF Drained
  <2>1. main'.step \in Ending => \A t \in Launchers : thread'[t].step = "idle"
    BY <1>1, ContinueEffect DEF FreedInv, Drained, Ending, Flushing
  <2>2. main'.step \in {"flushed", "unregister"} => running' = {}
    BY DEF Continue, AddMetrics, Start, RegisterData, Flush, FlushFirst, FlushRetry, FlushForced,
           Flushed, UnregisterData, Stop, Dump, ReturnMain, Then, FreedInv, Drained, TypeOK, MainType
  <2>3. main'.step = "unregister" => records' = {} /\ worker' = Nothing
    BY DEF Continue, AddMetrics, Start, RegisterData, Flush, FlushFirst, FlushRetry, FlushForced,
           Flushed, UnregisterData, Stop, Dump, ReturnMain, Then, TypeOK, MainType, Delivered
  <2>4. ~dataSet' /\ worker' # Nothing => ~worker'.dataSet
    <3>1. worker' = worker
      BY DEF Continue, AddMetrics, Start, RegisterData, Flush, FlushFirst, FlushRetry, FlushForced,
             Flushed, UnregisterData, Stop, Dump, ReturnMain
    <3>2. CASE main.step = "unregister"
      BY <3>1, <3>2 DEF FreedInv, Drained
    <3>3. CASE main.step # "unregister"
      <4>1. dataSet => dataSet'
        BY <3>3, ContinueEffect
      <4> QED
        BY <3>1, <4>1 DEF FreedInv, Drained
    <3> QED
      BY <3>2, <3>3
  <2> QED
    BY <1>1, <2>1, <2>2, <2>3, <2>4 DEF Drained
<1>5. OnlyThen'
  BY <1>1, ContinueEffect DEF FreedInv, OnlyThen
<1> QED
  BY <1>2, <1>3, <1>4, <1>5 DEF FreedInv

LEMMA FreedNext == TypeOK /\ BaseInv /\ FreedInv /\ [Next]_vars => FreedInv'
<1> SUFFICES ASSUME TypeOK, BaseInv, FreedInv, [Next]_vars PROVE FreedInv'
  OBVIOUS
<1>1. CASE UNCHANGED vars
  BY <1>1 DEF vars, host, session, gpu, FreedInv, OnlyThen, Drained, FreedIsOut, JoinsBoth
<1> QED
  BY <1>1, FreedLauncher, FreedDevice, FreedCall, FreedContinue DEF Next

(***************************************************************************)
(* Data that finalize() has destroyed is not touched again, by a callback  *)
(* or by the worker, in a program that lets its launches return before it  *)
(* deactivates if it finalizes at all; whatever else the program does.     *)
(***************************************************************************)
THEOREM JoinedDataIsNotTouched ==
  ASSUME \A p \in Programs : JoinsBoth(p)
  PROVE  Spec => []NoUseAfterFree
<1>1. Init => TypeOK /\ BaseInv /\ FreedInv
  BY TypeInit, BaseInit, FreedInit
<1>2. TypeOK /\ BaseInv /\ FreedInv /\ [Next]_vars => (TypeOK /\ BaseInv /\ FreedInv)'
  BY TypeNext, BaseNext, FreedNext
<1>3. Init => program \in Programs
  BY DEF Init
<1>4. program \in Programs /\ [Next]_vars => (program \in Programs)'
  <2> SUFFICES ASSUME program \in Programs, [Next]_vars PROVE program' = program
    OBVIOUS
  <2> QED
    BY ProgramStays
<1>5. program \in Programs /\ FreedInv => NoUseAfterFree
  BY DEF FreedInv, NoUseAfterFree
<1> QED
  BY <1>1, <1>2, <1>3, <1>4, <1>5, PTL DEF Spec

-----------------------------------------------------------------------------
(* Whose activity it is.                                                    *)

\* The rule: with the Triton hook, no launch fails between the hook and the
\* driver call.
Completes(p) == p.hooked => ~p.fails

\* The profiler's op of a launcher: it has the scope of this launch, of the hook
\* or of the callback; after the hook the profiler has started, so that there is
\* a callback, which ends the op.
OpFollows(th, hook) ==
  /\ th.recording =>
       th.external \in {<<Scope(th.launch, "hook")>>, <<Scope(th.launch, "callback")>>}
  /\ th.step \in {"idle", "hook"} => ~th.recording
  /\ th.recording /\ ~th.called =>
       hook /\ th.step \in {"ready", "enter"} /\ th.external = <<Scope(th.launch, "hook")>>
  /\ th.called => (th.recording <=> th.step # "return")

OpsFollow == \A t \in Launchers : OpFollows(thread[t], program.hooked /\ started)

\* Launches under way have numbers of their own.
Numbered ==
  /\ \A t \in Launchers : thread[t].step # "idle" => thread[t].launch <= launches
  /\ \A t, u \in Launchers :
       thread[t].step # "idle" /\ thread[u].step # "idle" /\ thread[t].launch = thread[u].launch
         => t = u

\* The activity that is in the worker's hands.
Handled == IF worker = Nothing THEN {} ELSE {worker.record}

Activities == running \cup records \cup Handled \cup metrics

OneEach(X) == \A a, b \in X : a.launch = b.launch => a = b

Apart(X, Y) == \A a \in X, b \in Y : a.launch # b.launch

\* A launch has one activity, wherever it is.
OneActivity ==
  /\ OneEach(running) /\ OneEach(records) /\ OneEach(metrics)
  /\ Apart(running, records) /\ Apart(running, Handled) /\ Apart(running, metrics)
  /\ Apart(records, Handled) /\ Apart(records, metrics) /\ Apart(Handled, metrics)

BeforeDriver == {"hook", "ready", "enter", "data", "context", "kernel"}

\* Activity is of a launch that got to the driver, and a scope it has is one of
\* this launch.
ActivityFollows ==
  /\ \A a \in Activities : a.launch <= launches /\ (a.scope \in Scopes => a.scope.launch = a.launch)
  /\ \A m \in metrics : m.scope \in Scopes
  /\ \A t \in Launchers : thread[t].step \in BeforeDriver =>
       \A a \in Activities : a.launch # thread[t].launch

AttributedInv == OpsFollow /\ Numbered /\ OneActivity /\ ActivityFollows

LEMMA AttributedInit == Init => AttributedInv
<1> SUFFICES ASSUME Init PROVE AttributedInv
  OBVIOUS
<1>1. Activities = {} /\ Handled = {}
  BY DEF Init, Activities, Handled
<1>2. OpsFollow /\ Numbered
  BY DEF Init, OpsFollow, OpFollows, Numbered, Launcher
<1>3. OneActivity
  BY <1>1 DEF Init, OneActivity, OneEach, Apart
<1>4. ActivityFollows
  BY <1>1 DEF Init, ActivityFollows
<1> QED
  BY <1>2, <1>3, <1>4 DEF AttributedInv

\* A step of a launcher that is under way and adds no activity.
LEMMA AttributedMove ==
  ASSUME AttributedInv, NEW t \in Launchers, Moves(t),
         UNCHANGED <<program, started, launches, gpu>>,
         thread[t].step # "idle", SameLaunch(thread'[t], thread[t]),
         thread'[t].step \in BeforeDriver => thread[t].step \in BeforeDriver,
         OpFollows(thread'[t], program.hooked /\ started)
  PROVE  AttributedInv'
<1>1. \A u \in Launchers : u # t => thread'[u] = thread[u]
  BY DEF Moves, Others
<1>2. OpsFollow'
  BY <1>1 DEF AttributedInv, OpsFollow
<1>3. Numbered'
  BY <1>1 DEF AttributedInv, Numbered, SameLaunch
<1>4. Activities' = Activities /\ Handled' = Handled /\ metrics' = metrics
  BY DEF Activities, Handled, gpu
<1>5. OneActivity'
  BY <1>4 DEF AttributedInv, OneActivity, gpu
<1>6. ActivityFollows'
  BY <1>1, <1>4 DEF AttributedInv, ActivityFollows, SameLaunch
<1> QED
  BY <1>2, <1>3, <1>5, <1>6 DEF AttributedInv

\* What the device correlates the kernel with.
LEMMA LastScopeFacts ==
  ASSUME NEW th, NEW s
  PROVE  /\ th.external = <<>> => LastScope(th) = Nothing
         /\ th.external = <<s>> => LastScope(th) = s
BY OneScope DEF LastScope

\* The driver puts the kernel on the device.
LEMMA AttributedKernel ==
  ASSUME TypeOK, BaseInv, AttributedInv, NEW t \in Launchers, Kernel(t)
  PROVE  AttributedInv'
<1> USE DEF others, host, session
<1>1. Plain(t, "kernel", IF thread[t].called THEN "exit" ELSE "return")
  BY PlainEffects
<1>2. UNCHANGED <<program, started, launches, records, worker, metrics>>
  BY DEF Kernel
<1>3. PICK r : /\ r = [launch |-> thread[t].launch, scope |-> LastScope(thread[t])]
               /\ running' \in {running, running \cup {r}}
  BY DEF Kernel
<1>4. r.launch = thread[t].launch /\ r.scope = LastScope(thread[t])
  BY <1>3
<1>5. \A u \in Launchers : u # t => thread'[u] = thread[u]
  BY <1>1 DEF Plain, Moves, Others
<1>6. OpsFollow'
  <2>1. OpFollows(thread[t], program.hooked /\ started) /\ thread[t].step = "kernel"
    BY <1>1 DEF AttributedInv, OpsFollow, Plain
  <2>2. thread'[t].step = (IF thread[t].called THEN "exit" ELSE "return")
        /\ thread'[t].called = thread[t].called /\ thread'[t].launch = thread[t].launch
        /\ thread'[t].recording = thread[t].recording /\ thread'[t].external = thread[t].external
    BY <1>1 DEF Plain, SameLaunch, SameOp, SameCallback
  <2>3. OpFollows(thread'[t], program.hooked /\ started)
    BY <2>1, <2>2 DEF OpFollows
  <2> QED
    BY <1>2, <1>5, <2>3 DEF AttributedInv, OpsFollow
<1>7. Numbered'
  BY <1>1, <1>2, <1>5 DEF AttributedInv, Numbered, Plain, SameLaunch
<1>8. Handled' = Handled /\ \A a \in Activities' : a \in Activities \/ a = r
  BY <1>2, <1>3 DEF Activities, Handled
<1>9. \A a \in Activities : a.launch # r.launch
  BY <1>1, <1>4 DEF AttributedInv, ActivityFollows, Plain, BeforeDriver
<1>10. r.launch <= launches /\ (r.scope \in Scopes => r.scope.launch = r.launch)
  <2>1. thread[t].launch <= launches
    BY <1>1 DEF AttributedInv, Numbered, Plain
  <2>2. CASE thread[t].recording
    <3>1. PICK by \in {"hook", "callback"} : thread[t].external = <<Scope(thread[t].launch, by)>>
      BY <2>2 DEF AttributedInv, OpsFollow, OpFollows
    <3>2. LastScope(thread[t]) = Scope(thread[t].launch, by)
      BY <3>1, LastScopeFacts
    <3>3. Scope(thread[t].launch, by).launch = thread[t].launch
      BY DEF Scope
    <3> QED
      BY <1>4, <2>1, <3>2, <3>3
  <2>3. CASE ~thread[t].recording
    <3>1. thread[t].external = <<>>
      BY <2>3 DEF TypeOK, LauncherType
    <3>2. LastScope(thread[t]) \notin Scopes
      BY <3>1, LastScopeFacts, NothingAssumption
    <3> QED
      BY <1>4, <2>1, <3>2
  <2> QED
    BY <2>2, <2>3
<1>11. OneActivity'
  <2>1. \A a \in running' : a \in running \/ a = r
    BY <1>3
  <2>2. \A a \in records \cup Handled \cup metrics \cup running : a.launch # r.launch
    BY <1>9 DEF Activities
  <2> QED
    BY <1>2, <1>8, <2>1, <2>2 DEF AttributedInv, OneActivity, OneEach, Apart
<1>12. ActivityFollows'
  <2>1. \A a \in Activities' :
          a.launch <= launches' /\ (a.scope \in Scopes => a.scope.launch = a.launch)
    BY <1>2, <1>8, <1>10 DEF AttributedInv, ActivityFollows
  <2>2. \A u \in Launchers : thread'[u].step \in BeforeDriver =>
          \A a \in Activities' : a.launch # thread'[u].launch
    <3> SUFFICES ASSUME NEW u \in Launchers, thread'[u].step \in BeforeDriver,
                        NEW a \in Activities'
                 PROVE  a.launch # thread'[u].launch
      OBVIOUS
    <3>1. u # t
      BY <1>1 DEF Plain, BeforeDriver
    <3>2. thread'[u] = thread[u] /\ thread[u].step # "idle" /\ thread[t].step # "idle"
      BY <1>1, <1>5, <3>1 DEF Plain, BeforeDriver
    <3>3. thread[u].launch # r.launch
      BY <1>4, <3>1, <3>2 DEF AttributedInv, Numbered
    <3> QED
      BY <1>8, <3>2, <3>3 DEF AttributedInv, ActivityFollows
  <2> QED
    BY <1>2, <2>1, <2>2 DEF AttributedInv, ActivityFollows
<1> QED
  BY <1>6, <1>7, <1>11, <1>12 DEF AttributedInv

LEMMA AttributedLauncher ==
  ASSUME TypeOK, BaseInv, AttributedInv, Completes(program),
         NEW t \in Launchers, CallLaunch(t) \/ Launch(t)
  PROVE  AttributedInv'
<1> USE DEF others, host, session, BeforeDriver
<1>1. thread[t] \in LauncherType /\ OpFollows(thread[t], program.hooked /\ started)
  BY DEF TypeOK, AttributedInv, OpsFollow
<1>2. thread[t].recording <=> thread[t].external # <<>>
  BY <1>1 DEF LauncherType
<1>3. thread[t].called =>
        started /\ thread[t].step \in {"data", "context", "kernel", "exit", "return"}
  BY DEF BaseInv, CallbacksPaired
<1>4. thread[t].step \in {"data", "context", "exit"} => thread[t].called
  BY DEF BaseInv, CallbacksPaired
<1>5. CASE CallLaunch(t)
  <2>1. /\ Moves(t) /\ thread[t].step = "idle" /\ thread'[t].step = "hook"
        /\ thread'[t].launch = launches + 1 /\ launches' = launches + 1
        /\ SameOp(thread'[t], thread[t]) /\ SameCallback(thread'[t], thread[t])
    BY <1>5, CallLaunchEffect DEF CallLaunch
  <2>2. UNCHANGED <<program, started, gpu>>
    BY <1>5 DEF CallLaunch
  <2>3. \A u \in Launchers : u # t => thread'[u] = thread[u]
    BY <2>1 DEF Moves, Others
  <2>4. OpFollows(thread'[t], program.hooked /\ started)
    BY <1>1, <1>3, <2>1 DEF OpFollows, SameOp, SameCallback
  <2>5. OpsFollow'
    BY <2>2, <2>3, <2>4 DEF AttributedInv, OpsFollow
  <2>6. launches \in Nat
    BY BoundsAssumption DEF TypeOK
  <2>7. \A u \in Launchers : thread[u].launch \in Nat
    BY BoundsAssumption DEF TypeOK, LauncherType
  <2>8. Numbered'
    BY <2>1, <2>3, <2>6, <2>7 DEF AttributedInv, Numbered
  <2>9. /\ running' = running /\ records' = records /\ metrics' = metrics
        /\ Handled' = Handled /\ Activities' = Activities
    BY <2>2 DEF Handled, Activities, gpu
  <2>10. OneActivity'
    BY <2>9 DEF AttributedInv, OneActivity
  <2>11. \A a \in Activities : a.launch \in Nat
    <3>1. running \cup metrics \cup records \subseteq Kernels \cup Records /\ Handled \subseteq Records
      BY DEF TypeOK, Handled
    <3>2. \A a \in Kernels \cup Records : a.launch \in LaunchIds
      BY DEF Kernels, Records
    <3>3. LaunchIds \subseteq Nat
      BY BoundsAssumption DEF LaunchIds
    <3> QED
      BY <3>1, <3>2, <3>3 DEF Activities
  <2>12. \A a \in Activities : a.launch <= launches' /\ a.launch # launches + 1
    BY <2>1, <2>6, <2>11 DEF AttributedInv, ActivityFollows
  <2>13. ActivityFollows'
    BY <2>1, <2>3, <2>9, <2>12 DEF AttributedInv, ActivityFollows
  <2> QED
    BY <2>5, <2>8, <2>10, <2>13 DEF AttributedInv
<1>6. CASE EnterHook(t)
  <2>1. /\ Moves(t) /\ thread[t].step = "hook" /\ thread'[t].step = "ready"
        /\ SameLaunch(thread'[t], thread[t]) /\ SameCallback(thread'[t], thread[t])
    BY <1>6, EnterHookEffect
  <2>2. UNCHANGED <<program, started, launches, gpu>>
    BY <1>6 DEF EnterHook
  <2>3. OpFollows(thread'[t], program.hooked /\ started)
    <3>1. ~thread[t].recording /\ ~thread[t].called
      BY <1>1, <1>3, <2>1 DEF OpFollows
    <3>2. CASE program.hooked /\ active
      <4>1. thread'[t].external = <<Scope(thread[t].launch, "hook")>>
        BY <1>6, <3>1, <3>2, EnterHookEffect
      <4>2. main.step = "idle" /\ started
        <5>1. gil = t
          BY <2>1 DEF BaseInv, LockHeld
        <5>2. main.step = "idle"
          BY <5>1, ThreadsAssumption DEF BaseInv, LockHeld
        <5> QED
          BY <3>2, <5>2 DEF BaseInv, CallsInOrder
      <4> QED
        BY <2>1, <3>1, <3>2, <4>1, <4>2 DEF OpFollows, SameLaunch, SameCallback
    <3>3. CASE ~(program.hooked /\ active)
      <4>1. SameOp(thread'[t], thread[t])
        BY <1>6, <3>3, EnterHookEffect
      <4> QED
        BY <2>1, <3>1, <4>1 DEF OpFollows, SameOp, SameCallback
    <3> QED
      BY <3>2, <3>3
  <2> QED
    BY <2>1, <2>2, <2>3, AttributedMove
<1>7. CASE Fail(t)
  <2>1. Plain(t, "ready", "idle")
    BY <1>7, PlainEffects
  <2>2. ~program.hooked /\ UNCHANGED <<program, started, launches, gpu>>
    BY <1>7 DEF Fail, Completes
  <2>3. OpFollows(thread'[t], program.hooked /\ started)
    BY <1>1, <1>3, <2>1, <2>2 DEF OpFollows, Plain, SameOp, SameCallback, SameLaunch
  <2> QED
    BY <2>1, <2>2, <2>3, AttributedMove DEF Plain
<1>8. CASE AllowThreads(t)
  <2>1. Plain(t, "ready", "enter")
    BY <1>8, PlainEffects
  <2>2. UNCHANGED <<program, started, launches, gpu>>
    BY <1>8 DEF AllowThreads
  <2>3. OpFollows(thread'[t], program.hooked /\ started)
    BY <1>1, <1>3, <2>1 DEF OpFollows, Plain, SameOp, SameCallback, SameLaunch
  <2> QED
    BY <2>1, <2>2, <2>3, AttributedMove DEF Plain
<1>9. CASE Record(t)
  <2>1. /\ Moves(t) /\ thread[t].step = "enter" /\ thread'[t].step = "data"
        /\ thread'[t].called /\ SameLaunch(thread'[t], thread[t]) /\ thread'[t].recording
        /\ thread'[t].external = IF thread[t].recording THEN thread[t].external
                                 ELSE <<Scope(thread[t].launch, "callback")>>
    BY <1>9, RecordEffect
  <2>2. UNCHANGED <<program, started, launches, gpu>>
    BY <1>9 DEF Record
  <2>3. OpFollows(thread'[t], program.hooked /\ started)
    BY <1>1, <1>3, <2>1 DEF OpFollows, SameLaunch
  <2> QED
    BY <2>1, <2>2, <2>3, AttributedMove
<1>10. CASE NoCallback(t)
  <2>1. /\ Moves(t) /\ thread[t].step = "enter" /\ thread'[t].step = "kernel"
        /\ ~thread'[t].called /\ SameLaunch(thread'[t], thread[t])
        /\ SameOp(thread'[t], thread[t])
    BY <1>10, NoCallbackEffect
  <2>2. ~started /\ UNCHANGED <<program, started, launches, gpu>>
    BY <1>10 DEF NoCallback
  <2>3. OpFollows(thread'[t], program.hooked /\ started)
    BY <1>1, <1>3, <2>1, <2>2 DEF OpFollows, SameOp, SameLaunch
  <2> QED
    BY <2>1, <2>2, <2>3, AttributedMove
<1>11. CASE EnterData(t)
  <2>1. /\ Moves(t) /\ thread[t].step = "data" /\ thread'[t].step \in {"kernel", "context"}
        /\ SameLaunch(thread'[t], thread[t]) /\ SameOp(thread'[t], thread[t])
        /\ SameCallback(thread'[t], thread[t])
    BY <1>11, EnterDataEffect
  <2>2. UNCHANGED <<program, started, launches, gpu>>
    BY <1>11 DEF EnterData
  <2>3. OpFollows(thread'[t], program.hooked /\ started)
    BY <1>1, <1>4, <2>1 DEF OpFollows, SameOp, SameLaunch, SameCallback
  <2> QED
    BY <2>1, <2>2, <2>3, AttributedMove
<1>12. CASE GetContexts(t)
  <2>1. Plain(t, "context", "kernel")
    BY <1>12, PlainEffects
  <2>2. UNCHANGED <<program, started, launches, gpu>>
    BY <1>12 DEF GetContexts
  <2>3. OpFollows(thread'[t], program.hooked /\ started)
    BY <1>1, <1>4, <2>1 DEF OpFollows, Plain, SameOp, SameCallback, SameLaunch
  <2> QED
    BY <2>1, <2>2, <2>3, AttributedMove DEF Plain
<1>13. CASE Kernel(t)
  BY <1>13, AttributedKernel
<1>14. CASE ExitCallback(t)
  <2>1. /\ Moves(t) /\ thread[t].step = "exit" /\ thread'[t].step = "return"
        /\ SameLaunch(thread'[t], thread[t]) /\ SameCallback(thread'[t], thread[t])
    BY <1>14, ExitCallbackEffect
  <2>2. ~thread'[t].recording
    BY <1>3, <1>4, <1>14, <2>1, ExitCallbackEffect
  <2>3. UNCHANGED <<program, started, launches, gpu>>
    BY <1>14 DEF ExitCallback
  <2>4. OpFollows(thread'[t], program.hooked /\ started)
    BY <2>1, <2>2 DEF OpFollows
  <2> QED
    BY <2>1, <2>3, <2>4, AttributedMove
<1>15. CASE Return(t)
  <2>1. /\ Moves(t) /\ thread[t].step = "return" /\ thread'[t].step = "idle"
        /\ SameLaunch(thread'[t], thread[t]) /\ ~thread'[t].called
    BY <1>15, ReturnEffect
  <2>2. UNCHANGED <<program, started, launches, gpu>>
    BY <1>15 DEF Return
  <2>3. ~thread'[t].recording
    <3>1. CASE program.hooked /\ active
      BY <1>15, <3>1, ReturnEffect
    <3>2. CASE ~(program.hooked /\ active)
      <4>1. SameOp(thread'[t], thread[t])
        BY <1>15, <3>2, ReturnEffect
      <4>2. ~thread[t].recording
        BY <1>1, <2>1, <3>2 DEF OpFollows
      <4> QED
        BY <4>1, <4>2 DEF SameOp
    <3> QED
      BY <3>1, <3>2
  <2>4. OpFollows(thread'[t], program.hooked /\ started)
    BY <2>1, <2>3 DEF OpFollows
  <2> QED
    BY <2>1, <2>2, <2>4, AttributedMove
<1> QED
  BY <1>5, <1>6, <1>7, <1>8, <1>9, <1>10, <1>11, <1>12, <1>13, <1>14, <1>15 DEF Launch

\* Activity that is handed on, or dropped, is the activity there was.
LEMMA AttributedActivity ==
  ASSUME AttributedInv, UNCHANGED <<launches, thread>>, OpsFollow',
         \A a \in Activities' : \E b \in Activities : a.launch = b.launch /\ a.scope = b.scope,
         \A m \in metrics' : m.scope \in Scopes,
         OneActivity'
  PROVE  AttributedInv'
<1>1. Numbered'
  BY DEF AttributedInv, Numbered
<1>2. ActivityFollows'
  <2>1. \A a \in Activities' :
          a.launch <= launches' /\ (a.scope \in Scopes => a.scope.launch = a.launch)
    BY DEF AttributedInv, ActivityFollows
  <2>2. \A t \in Launchers : thread'[t].step \in BeforeDriver =>
          \A a \in Activities' : a.launch # thread'[t].launch
    BY DEF AttributedInv, ActivityFollows
  <2> QED
    BY <2>1, <2>2 DEF ActivityFollows
<1> QED
  BY <1>1, <1>2 DEF AttributedInv

\* Kernels that are finished or given up become records.
LEMMA KernelsToRecords ==
  ASSUME TypeOK, AttributedInv, UNCHANGED <<program, started, launches, thread, worker, metrics>>,
         NEW K \in SUBSET running, NEW done \in BOOLEAN,
         running' = running \ K, records' = records \cup Activity(K, done)
  PROVE  AttributedInv'
<1>1. K \in SUBSET Kernels
  BY DEF TypeOK
<1>2. /\ \A a \in Activity(K, done) : \E r \in K : a.launch = r.launch /\ a.scope = r.scope
      /\ \A a, b \in Activity(K, done) : a.launch = b.launch /\ a.scope = b.scope => a = b
  BY <1>1, ActivityFacts
<1>3. Handled' = Handled
  BY DEF Handled
<1>4. \A a \in Activities' : \E b \in Activities : a.launch = b.launch /\ a.scope = b.scope
  BY <1>2, <1>3 DEF Activities
<1>5. \A m \in metrics' : m.scope \in Scopes
  BY DEF AttributedInv, ActivityFollows
<1>6. \A a \in records' :
        a \in records \/ \E r \in K : a.launch = r.launch /\ a.scope = r.scope
  BY <1>2
<1>7. \A r \in K : /\ \A b \in records \cup Handled \cup metrics : r.launch # b.launch
                   /\ \A b \in running : r.launch = b.launch => r = b
  BY DEF AttributedInv, OneActivity, OneEach, Apart
<1>8. OneEach(running') /\ Apart(running', Handled') /\ Apart(running', metrics')
      /\ OneEach(metrics') /\ Apart(Handled', metrics')
  BY <1>3 DEF AttributedInv, OneActivity, OneEach, Apart
<1>9. OneEach(records')
  <2> SUFFICES ASSUME NEW a \in records', NEW b \in records', a.launch = b.launch
               PROVE  a = b
    BY DEF OneEach
  <2>1. CASE a \in records /\ b \in records
    BY <2>1 DEF AttributedInv, OneActivity, OneEach
  <2>2. CASE a \notin records
    <3>1. a \in Activity(K, done)
      BY <2>2
    <3>2. PICK r \in K : a.launch = r.launch /\ a.scope = r.scope
      BY <1>2, <3>1
    <3>3. b \in Activity(K, done)
      BY <1>7, <3>2
    <3>4. PICK q \in K : b.launch = q.launch /\ b.scope = q.scope
      BY <1>2, <3>3
    <3>5. q = r
      BY <1>7, <3>2, <3>4
    <3> QED
      BY <1>2, <3>1, <3>2, <3>3, <3>4, <3>5
  <2>3. CASE b \notin records
    <3>1. b \in Activity(K, done)
      BY <2>3
    <3>2. PICK r \in K : b.launch = r.launch /\ b.scope = r.scope
      BY <1>2, <3>1
    <3>3. a \in Activity(K, done)
      BY <1>7, <3>2
    <3>4. PICK q \in K : a.launch = q.launch /\ a.scope = q.scope
      BY <1>2, <3>3
    <3>5. q = r
      BY <1>7, <3>2, <3>4
    <3> QED
      BY <1>2, <3>1, <3>2, <3>3, <3>4, <3>5
  <2> QED
    BY <2>1, <2>2, <2>3
<1>10. Apart(running', records') /\ Apart(records', Handled') /\ Apart(records', metrics')
  <2>1. \A a \in running', b \in records' : a.launch # b.launch
    BY <1>6, <1>7 DEF AttributedInv, OneActivity, Apart
  <2>2. \A a \in records', b \in Handled' \cup metrics' : a.launch # b.launch
    BY <1>3, <1>6, <1>7 DEF AttributedInv, OneActivity, Apart
  <2> QED
    BY <2>1, <2>2 DEF Apart
<1>11. OneActivity'
  BY <1>8, <1>9, <1>10 DEF OneActivity
<1>12. OpsFollow'
  BY DEF AttributedInv, OpsFollow
<1> QED
  BY <1>4, <1>5, <1>11, <1>12, AttributedActivity

LEMMA AttributedDevice ==
  ASSUME TypeOK, AttributedInv, (\E r \in running : FinishKernel(r)) \/ Worker
  PROVE  AttributedInv'
<1> USE DEF hostThreads, host, session
<1>1. ASSUME NEW r \in running, FinishKernel(r)
      PROVE  AttributedInv'
  <2>1. /\ UNCHANGED <<program, started, launches, thread, worker, metrics>>
        /\ running' = running \ {r} /\ records' = records \cup Activity({r}, TRUE)
    BY <1>1 DEF FinishKernel
  <2>2. {r} \in SUBSET running /\ TRUE \in BOOLEAN
    OBVIOUS
  <2> QED
    BY <2>1, <2>2, KernelsToRecords
<1>2. ASSUME NEW r \in records, TakeRecord(r)
      PROVE  AttributedInv'
  <2>1. /\ UNCHANGED <<program, started, launches, thread, running, metrics>>
        /\ worker = Nothing /\ records' = records \ {r}
        /\ worker' = [record |-> r, dataSet |-> dataSet]
    BY <1>2 DEF TakeRecord
  <2>2. worker' # Nothing
    <3>1. worker' \in [record : Records, dataSet : BOOLEAN]
      BY <2>1 DEF TypeOK
    <3> QED
      BY <3>1, NothingAssumption
  <2>3. Handled' = {r} /\ Handled = {}
    BY <2>1, <2>2 DEF Handled
  <2>4. \A a \in Activities' : a \in Activities
    BY <2>1, <2>3 DEF Activities
  <2>5. OneActivity'
    BY <2>1, <2>3 DEF AttributedInv, OneActivity, OneEach, Apart
  <2>6. \A m \in metrics' : m.scope \in Scopes
    BY <2>1 DEF AttributedInv, ActivityFollows
  <2>7. OpsFollow'
    BY <2>1 DEF AttributedInv, OpsFollow
  <2> QED
    BY <2>1, <2>4, <2>5, <2>6, <2>7, AttributedActivity
<1>3. CASE AddMetric
  <2>1. /\ UNCHANGED <<program, started, launches, thread, running, records>>
        /\ worker # Nothing /\ worker' = Nothing
        /\ \/ metrics' = metrics
           \/ metrics' = metrics \cup {worker.record} /\ worker.record.scope \in scopes
    BY <1>3 DEF AddMetric
  <2>2. Handled' = {} /\ Handled = {worker.record}
    BY <2>1 DEF Handled
  <2>3. \A a \in Activities' : a \in Activities
    BY <2>1, <2>2 DEF Activities
  <2>4. OneActivity'
    BY <2>1, <2>2 DEF AttributedInv, OneActivity, OneEach, Apart
  <2>5. \A m \in metrics' : m.scope \in Scopes
    BY <2>1 DEF AttributedInv, ActivityFollows, TypeOK
  <2>6. OpsFollow'
    BY <2>1 DEF AttributedInv, OpsFollow
  <2> QED
    BY <2>1, <2>3, <2>4, <2>5, <2>6, AttributedActivity
<1> QED
  BY <1>1, <1>2, <1>3 DEF Worker

LEMMA AttributedCall ==
  ASSUME AttributedInv, Call
  PROVE  AttributedInv'
<1>1. UNCHANGED <<program, started, launches, thread, gpu>>
  BY DEF Call, CallAddMetrics, CallActivate, CallDeactivate, CallFinalize, Begin, launching
<1>2. OpsFollow'
  BY <1>1 DEF AttributedInv, OpsFollow
<1>3. Handled' = Handled /\ Activities' = Activities
  BY <1>1 DEF Handled, Activities, gpu
<1>4. Numbered' /\ OneActivity' /\ ActivityFollows'
  BY <1>1, <1>3 DEF AttributedInv, Numbered, OneActivity, ActivityFollows, gpu
<1> QED
  BY <1>2, <1>4 DEF AttributedInv

LEMMA AttributedContinue ==
  ASSUME TypeOK, BaseInv, AttributedInv, Continue
  PROVE  AttributedInv'
<1>1. UNCHANGED <<program, launches, thread>>
  BY ContinueEffect
<1>2. OpsFollow'
  <2>1. CASE main.step = "stop"
    <3>1. \A t \in Launchers : thread[t].step = "idle"
      BY <2>1 DEF BaseInv, CallsInOrder, Ending
    <3>2. \A t \in Launchers : ~thread[t].recording
      BY <3>1 DEF AttributedInv, OpsFollow, OpFollows
    <3> QED
      BY <1>1, <3>2 DEF AttributedInv, OpsFollow, OpFollows
  <2>2. CASE main.step # "stop"
    <3>1. started => started'
      BY <2>2, ContinueEffect
    <3> QED
      BY <1>1, <3>1 DEF AttributedInv, OpsFollow, OpFollows
  <2> QED
    BY <2>1, <2>2
<1>3. CASE UNCHANGED gpu
  <2>1. /\ Activities' = Activities /\ Handled' = Handled
        /\ running' = running /\ records' = records /\ metrics' = metrics
    BY <1>3 DEF Activities, Handled, gpu
  <2>2. OneActivity'
    BY <2>1 DEF AttributedInv, OneActivity
  <2>3. \A m \in metrics' : m.scope \in Scopes
    BY <2>1 DEF AttributedInv, ActivityFollows
  <2> QED
    BY <1>1, <1>2, <2>1, <2>2, <2>3, AttributedActivity
<1>4. CASE \E done \in BOOLEAN : /\ running' = {} /\ records' = records \cup Activity(running, done)
                                 /\ UNCHANGED <<started, worker, metrics>>
  <2>1. running \in SUBSET running /\ running' = running \ running
    BY <1>4
  <2> QED
    BY <1>1, <1>4, <2>1, KernelsToRecords
<1>5. CASE Flush \/ FlushForced
  BY <1>3, <1>4, <1>5 DEF Flush, FlushForced, gpu
<1>6. CASE ~(Flush \/ FlushForced)
  BY <1>3, <1>6 DEF Continue, AddMetrics, Start, RegisterData, FlushFirst, FlushRetry, Flushed,
                    UnregisterData, Stop, Dump, ReturnMain
<1> QED
  BY <1>5, <1>6

LEMMA AttributedNext ==
  TypeOK /\ BaseInv /\ AttributedInv /\ Completes(program) /\ [Next]_vars => AttributedInv'
<1> SUFFICES ASSUME TypeOK, BaseInv, AttributedInv, Completes(program), [Next]_vars
             PROVE  AttributedInv'
  OBVIOUS
<1>1. CASE UNCHANGED vars
  <2>1. /\ Activities' = Activities /\ Handled' = Handled
        /\ UNCHANGED <<program, started, launches, thread, running, records, metrics>>
    BY <1>1 DEF Activities, Handled, vars, gpu, host, session
  <2> QED
    BY <2>1 DEF AttributedInv, OpsFollow, Numbered, OneActivity, ActivityFollows
<1> QED
  BY <1>1, AttributedLauncher, AttributedDevice, AttributedCall, AttributedContinue DEF Next

(***************************************************************************)
(* A metric is recorded under the launch it was measured for, once, in     *)
(* every program whose hooked launches do not fail before the driver call, *)
(* whatever it calls while they run.  Without the rule the op that a       *)
(* failed launch leaves open gives its scope to the thread's next launch.  *)
(***************************************************************************)
THEOREM MetricsAreAttributed ==
  ASSUME \A p \in Programs : Completes(p)
  PROVE  Spec => []MetricsAttributed
<1>1. Init => TypeOK /\ BaseInv /\ AttributedInv
  BY TypeInit, BaseInit, AttributedInit
<1>2. Init => program \in Programs
  BY DEF Init
<1>3. program \in Programs /\ [Next]_vars => (program \in Programs)'
  BY ProgramStays
<1>4. program \in Programs => Completes(program)
  OBVIOUS
<1>5. TypeOK /\ BaseInv /\ AttributedInv /\ program \in Programs /\ [Next]_vars
        => (TypeOK /\ BaseInv /\ AttributedInv)'
  BY <1>4, TypeNext, BaseNext, AttributedNext
<1>6. AttributedInv => MetricsAttributed
  <2> SUFFICES ASSUME AttributedInv PROVE MetricsAttributed
    OBVIOUS
  <2>1. \A m \in metrics : m.scope.launch = m.launch
    BY DEF AttributedInv, ActivityFollows, Activities
  <2>2. \A m, n \in metrics : m.launch = n.launch => m = n
    BY DEF AttributedInv, OneActivity, OneEach
  <2> QED
    BY <2>1, <2>2 DEF MetricsAttributed
<1> QED
  BY <1>1, <1>2, <1>3, <1>5, <1>6, PTL DEF Spec

-----------------------------------------------------------------------------
(* What has returned is recorded.                                           *)

\* The rule: with the Triton hook, launches also return before the session is
\* deactivated.
Orderly(p) == Completes(p) /\ (p.hooked => "deactivate" \in p.joins)

\* The data's op of a launcher: the tree knows the scope that the device will
\* correlate the kernel with, and while no deactivation was called in the launch
\* the data it saw is in the data set.
DataFollows(th) ==
  /\ th.step \in {"idle", "hook"} => ~th.inOp
  /\ th.recording /\ th.external = <<Scope(th.launch, "hook")>> =>
       th.inOp /\ Scope(th.launch, "hook") \in scopes
  /\ th.inOp => \/ program.hooked /\ active
                \/ th.snapshot /\ th.step \in {"context", "kernel", "exit"}
  /\ th.step \in {"ready", "enter", "data"} /\ th.inOp =>
       th.external = <<Scope(th.launch, "hook")>>
  /\ th.step = "context" => th.snapshot /\ th.external = <<Scope(th.launch, "callback")>>
  /\ th.step = "kernel" /\ th.snapshot => LastScope(th) \in scopes
  /\ th.snapshot /\ th.launch \notin caught => dataSet

DataOpsFollow == \A t \in Launchers : DataFollows(thread[t])

\* What a call has seen: while a session is being deactivated or finalized the
\* launches under way are those it was called in, and no other has returned.
CallsSee ==
  /\ main.step \in Ending =>
       \A t \in Launchers : thread[t].step # "idle" => thread[t].launch \in caught
  /\ main.step \in Flushing => owed = returned
  /\ \A k \in returned : k <= launches
  /\ \A k \in returned, t \in Launchers : thread[t].step # "idle" => thread[t].launch # k

Recorded(k) == \E m \in metrics : m.launch = k /\ m.complete

\* The metric of a launch is recorded, or on its way to the data.
Safe(k) ==
  \/ Recorded(k)
  \/ /\ dataSet
     /\ \/ \E r \in running : r.launch = k /\ r.scope \in scopes
        \/ \E r \in records : r.launch = k /\ r.scope \in scopes /\ r.complete
        \/ /\ worker # Nothing /\ worker.dataSet
           /\ worker.record.launch = k /\ worker.record.scope \in scopes
           /\ worker.record.complete

\* With a device context to wait for, so are all launches that have returned.
ReturnedSafe ==
  program.device =>
    /\ \A k \in returned : Safe(k)
    /\ \A t \in Launchers :
         /\ thread[t].step \in {"exit", "return"}
         /\ thread[t].snapshot /\ thread[t].launch \notin caught
         => Safe(thread[t].launch)
    /\ main.step \in {"first", "retry", "flushed", "unregister"} =>
         \A r \in running : r.launch \notin returned
    /\ main.step = "unregister" => \A k \in returned : Recorded(k)

RecordedInv == DataOpsFollow /\ CallsSee /\ ReturnedSafe

LEMMA RecordedInit == Init => RecordedInv
<1> SUFFICES ASSUME Init PROVE RecordedInv
  OBVIOUS
<1>1. \A t \in Launchers : /\ thread[t].step = "idle" /\ ~thread[t].recording
                           /\ ~thread[t].inOp /\ ~thread[t].snapshot
  BY DEF Init, Launcher
<1>2. DataOpsFollow
  BY <1>1 DEF DataOpsFollow, DataFollows
<1>3. CallsSee /\ ReturnedSafe
  BY <1>1 DEF Init, CallsSee, ReturnedSafe, Ending, Flushing
<1> QED
  BY <1>2, <1>3 DEF RecordedInv

\* A step of a launcher that is under way and does not return.
LEMMA RecordedMove ==
  ASSUME RecordedInv, NEW t \in Launchers, Moves(t),
         thread[t].step # "idle", SameLaunch(thread'[t], thread[t]),
         UNCHANGED <<program, main, active, caught, owed, dataSet, launches, returned,
                     records, worker, metrics>>,
         scopes \subseteq scopes', running \subseteq running',
         \A r \in running' : r \in running \/ r.launch = thread[t].launch,
         DataFollows(thread[t])',
         /\ program.device /\ thread'[t].step \in {"exit", "return"}
         /\ thread'[t].snapshot /\ thread[t].launch \notin caught
         => Safe(thread[t].launch)'
  PROVE  RecordedInv'
<1>1. \A u \in Launchers : u # t => thread'[u] = thread[u]
  BY DEF Moves, Others
<1>2. DataOpsFollow'
  <2>1. \A u \in Launchers : u # t => DataFollows(thread[u])'
    BY <1>1 DEF RecordedInv, DataOpsFollow, DataFollows
  <2> QED
    BY <2>1 DEF DataOpsFollow
<1>3. CallsSee'
  BY <1>1 DEF RecordedInv, CallsSee, SameLaunch
<1>4. \A k : Safe(k) => Safe(k)'
  BY DEF Safe, Recorded
<1>5. ReturnedSafe'
  <2> SUFFICES ASSUME program.device PROVE ReturnedSafe'
    BY DEF ReturnedSafe
  <2>1. \A k \in returned : Safe(k)'
    BY <1>4 DEF RecordedInv, ReturnedSafe
  <2>2. \A u \in Launchers :
          /\ thread'[u].step \in {"exit", "return"}
          /\ thread'[u].snapshot /\ thread'[u].launch \notin caught'
          => Safe(thread[u].launch)'
    <3> SUFFICES ASSUME NEW u \in Launchers, thread'[u].step \in {"exit", "return"},
                        thread'[u].snapshot /\ thread'[u].launch \notin caught'
                 PROVE  Safe(thread[u].launch)'
      OBVIOUS
    <3>1. CASE u = t
      <4>1. Safe(thread[t].launch)'
        BY <3>1 DEF SameLaunch
      <4> QED
        BY <3>1, <4>1
    <3>2. CASE u # t
      <4>1. thread'[u] = thread[u] /\ Safe(thread[u].launch)
        BY <1>1, <3>2 DEF RecordedInv, ReturnedSafe
      <4> QED
        BY <1>4, <4>1
    <3> QED
      BY <3>1, <3>2
  <2>3. \A r \in running' : r.launch \in returned => r \in running
    BY DEF RecordedInv, CallsSee
  <2> QED
    BY <2>1, <2>2, <2>3 DEF RecordedInv, ReturnedSafe, Recorded
<1> QED
  BY <1>2, <1>3, <1>5 DEF RecordedInv

\* The scopes of the hook and of the callback differ.
LEMMA ScopesDiffer == \A k : <<Scope(k, "hook")>> # <<Scope(k, "callback")>>
<1> SUFFICES ASSUME NEW k, <<Scope(k, "hook")>> = <<Scope(k, "callback")>> PROVE FALSE
  OBVIOUS
<1>1. Scope(k, "hook") = Scope(k, "callback")
  BY OneScope
<1>2. Scope(k, "hook").by = "hook" /\ Scope(k, "callback").by = "callback"
  BY DEF Scope
<1> QED
  BY <1>1, <1>2

LEMMA RecordedLauncher ==
  ASSUME TypeOK, BaseInv, AttributedInv, RecordedInv, Orderly(program),
         NEW t \in Launchers, CallLaunch(t) \/ Launch(t)
  PROVE  RecordedInv'
<1> USE DEF others, host, session, gpu
<1>1. /\ thread[t] \in LauncherType
      /\ OpFollows(thread[t], program.hooked /\ started)
      /\ DataFollows(thread[t])
  BY DEF TypeOK, AttributedInv, OpsFollow, RecordedInv, DataOpsFollow
<1>2. thread[t].recording <=> thread[t].external # <<>>
  BY <1>1 DEF LauncherType
<1>3. /\ thread[t].snapshot => thread[t].called
      /\ thread[t].called =>
           started /\ thread[t].step \in {"data", "context", "kernel", "exit", "return"}
      /\ thread[t].step \in {"data", "context", "exit"} => thread[t].called
  BY DEF BaseInv, CallbacksPaired
<1>4. CASE CallLaunch(t)
  <2>1. /\ Moves(t) /\ thread[t].step = "idle" /\ thread'[t].step = "hook"
        /\ thread'[t].launch = launches + 1 /\ launches' = launches + 1
        /\ SameOp(thread'[t], thread[t]) /\ SameCallback(thread'[t], thread[t])
        /\ thread'[t].inOp = thread[t].inOp
    BY <1>4, CallLaunchEffect DEF CallLaunch
  <2>2. UNCHANGED <<program, main, active, caught, owed, dataSet, returned, scopes, gpu>>
    BY <1>4 DEF CallLaunch
  <2>3. main.step = "idle"
    BY <1>4, ThreadsAssumption DEF CallLaunch, BaseInv, LockHeld
  <2>4. \A u \in Launchers : u # t => thread'[u] = thread[u]
    BY <2>1 DEF Moves, Others
  <2>5. ~thread'[t].recording /\ ~thread'[t].inOp /\ ~thread'[t].snapshot
    BY <1>1, <1>3, <2>1 DEF OpFollows, DataFollows, SameOp, SameCallback
  <2>6. DataFollows(thread[t])'
    BY <2>1, <2>5 DEF DataFollows
  <2>7. DataOpsFollow'
    BY <2>2, <2>4, <2>6 DEF RecordedInv, DataOpsFollow, DataFollows
  <2>8. launches \in Nat /\ returned \subseteq Nat
    BY BoundsAssumption DEF TypeOK, LaunchIds
  <2>9. CallsSee'
    BY <2>1, <2>2, <2>3, <2>4, <2>8 DEF RecordedInv, CallsSee, Ending, Flushing
  <2>10. \A k : Safe(k)' <=> Safe(k)
    BY <2>2 DEF Safe, Recorded
  <2>11. ReturnedSafe'
    BY <2>1, <2>2, <2>3, <2>4, <2>10 DEF RecordedInv, ReturnedSafe
  <2> QED
    BY <2>7, <2>9, <2>11 DEF RecordedInv
<1>5. CASE EnterHook(t)
  <2>1. /\ Moves(t) /\ thread[t].step = "hook" /\ thread'[t].step = "ready"
        /\ SameLaunch(thread'[t], thread[t]) /\ SameCallback(thread'[t], thread[t])
    BY <1>5, EnterHookEffect
  <2>2. UNCHANGED <<program, main, active, caught, owed, dataSet, launches, returned, gpu>>
    BY <1>5 DEF EnterHook
  <2>3. scopes \subseteq scopes'
    BY <1>5 DEF EnterHook
  <2>4. ~thread[t].recording /\ ~thread[t].inOp /\ ~thread[t].snapshot
    BY <1>1, <1>3, <2>1 DEF OpFollows, DataFollows
  <2>5. DataFollows(thread[t])'
    <3>1. CASE program.hooked /\ active
      <4>1. /\ thread'[t].inOp /\ thread'[t].external = <<Scope(thread[t].launch, "hook")>>
        BY <1>5, <2>4, <3>1, EnterHookEffect
      <4>2. Scope(thread[t].launch, "hook") \in scopes'
        BY <1>5, <2>4, <3>1 DEF EnterHook
      <4> QED
        BY <2>1, <2>2, <2>4, <3>1, <4>1, <4>2 DEF DataFollows, SameLaunch, SameCallback
    <3>2. CASE ~(program.hooked /\ active)
      <4>1. SameOp(thread'[t], thread[t]) /\ thread'[t].inOp = thread[t].inOp
        BY <1>5, <3>2, EnterHookEffect
      <4> QED
        BY <2>1, <2>4, <4>1 DEF DataFollows, SameOp, SameCallback
    <3> QED
      BY <3>1, <3>2
  <2> QED
    BY <2>1, <2>2, <2>3, <2>5, RecordedMove
<1>6. CASE Fail(t)
  <2>1. Plain(t, "ready", "idle")
    BY <1>6, PlainEffects
  <2>2. /\ ~program.hooked
        /\ UNCHANGED <<program, main, active, caught, owed, dataSet, launches, returned, scopes, gpu>>
    BY <1>6 DEF Fail, Orderly, Completes
  <2>3. ~thread[t].recording /\ ~thread[t].inOp /\ ~thread[t].snapshot
    BY <1>1, <1>3, <2>1, <2>2 DEF OpFollows, DataFollows, Plain
  <2>4. DataFollows(thread[t])'
    BY <2>1, <2>3 DEF DataFollows, Plain, SameOp, SameCallback
  <2> QED
    BY <2>1, <2>2, <2>4, RecordedMove DEF Plain
<1>7. CASE AllowThreads(t)
  <2>1. Plain(t, "ready", "enter")
    BY <1>7, PlainEffects
  <2>2. UNCHANGED <<program, main, active, caught, owed, dataSet, launches, returned, scopes, gpu>>
    BY <1>7 DEF AllowThreads
  <2>3. DataFollows(thread[t])'
    BY <1>1, <1>3, <2>1, <2>2 DEF DataFollows, Plain, SameOp, SameLaunch, SameCallback
  <2> QED
    BY <2>1, <2>2, <2>3, RecordedMove DEF Plain
<1>8. CASE Record(t)
  <2>1. /\ Moves(t) /\ thread[t].step = "enter" /\ thread'[t].step = "data"
        /\ thread'[t].snapshot = dataSet /\ thread'[t].called
        /\ SameLaunch(thread'[t], thread[t]) /\ thread'[t].inOp = thread[t].inOp
        /\ thread'[t].external = IF thread[t].recording THEN thread[t].external
                                 ELSE <<Scope(thread[t].launch, "callback")>>
    BY <1>8, RecordEffect
  <2>2. UNCHANGED <<program, main, active, caught, owed, dataSet, launches, returned, scopes, gpu>>
    BY <1>8 DEF Record
  <2>3. thread'[t].external = <<Scope(thread[t].launch, "hook")>> => thread[t].recording
    BY <2>1, ScopesDiffer
  <2>4. thread[t].inOp => program.hooked /\ active /\ thread[t].recording
    BY <1>1, <1>2, <2>1, OneScope DEF DataFollows
  <2>5. DataFollows(thread[t])'
    BY <1>1, <2>1, <2>2, <2>3, <2>4 DEF DataFollows, SameLaunch
  <2> QED
    BY <2>1, <2>2, <2>5, RecordedMove
<1>9. CASE NoCallback(t)
  <2>1. /\ Moves(t) /\ thread[t].step = "enter" /\ thread'[t].step = "kernel"
        /\ ~thread'[t].snapshot /\ thread'[t].inOp = thread[t].inOp
        /\ SameLaunch(thread'[t], thread[t]) /\ SameOp(thread'[t], thread[t])
    BY <1>9, NoCallbackEffect
  <2>2. UNCHANGED <<program, main, active, caught, owed, dataSet, launches, returned, scopes, gpu>>
    BY <1>9 DEF NoCallback
  <2>3. DataFollows(thread[t])'
    BY <1>1, <2>1, <2>2 DEF DataFollows, SameOp, SameLaunch
  <2> QED
    BY <2>1, <2>2, <2>3, RecordedMove
<1>10. CASE EnterData(t)
  <2>1. /\ Moves(t) /\ thread[t].step = "data" /\ thread'[t].step \in {"kernel", "context"}
        /\ SameLaunch(thread'[t], thread[t]) /\ SameOp(thread'[t], thread[t])
        /\ SameCallback(thread'[t], thread[t]) /\ scopes \subseteq scopes'
    BY <1>10, EnterDataEffect
  <2>2. UNCHANGED <<program, main, active, caught, owed, dataSet, launches, returned, gpu>>
    BY <1>10 DEF EnterData
  <2>3. thread[t].called /\ thread[t].recording
        /\ thread[t].external \in {<<Scope(thread[t].launch, "hook")>>,
                                   <<Scope(thread[t].launch, "callback")>>}
    BY <1>1, <1>3, <2>1 DEF OpFollows
  <2>4. ~thread[t].inOp => thread[t].external = <<Scope(thread[t].launch, "callback")>>
    BY <1>1, <2>3 DEF DataFollows
  <2>5. thread[t].inOp =>
          thread[t].external = <<Scope(thread[t].launch, "hook")>> /\ program.hooked /\ active
    BY <1>1, <2>1 DEF DataFollows
  <2>6. CASE /\ thread'[t].step = "kernel" /\ (~thread[t].snapshot \/ thread[t].inOp)
             /\ thread'[t].inOp = thread[t].inOp
    <3>1. thread[t].snapshot =>
            LastScope(thread'[t]) = Scope(thread[t].launch, "hook")
      BY <2>1, <2>5, <2>6, LastScopeFacts DEF SameOp
    <3>2. DataFollows(thread[t])'
      BY <1>1, <2>1, <2>2, <2>3, <2>5, <2>6, <3>1 DEF DataFollows, SameOp, SameLaunch, SameCallback
    <3> QED
      BY <2>1, <2>2, <2>6, <3>2, RecordedMove
  <2>7. CASE /\ thread'[t].step = "kernel" /\ thread[t].snapshot /\ thread'[t].inOp
             /\ scopes' = scopes \cup {Scope(thread[t].launch, "callback")} /\ ~thread[t].inOp
    <3>1. LastScope(thread'[t]) = Scope(thread[t].launch, "callback")
      BY <2>1, <2>4, <2>7, LastScopeFacts DEF SameOp
    <3>2. thread[t].external # <<Scope(thread[t].launch, "hook")>>
      BY <2>4, <2>7, ScopesDiffer
    <3>3. DataFollows(thread[t])'
      BY <1>1, <2>1, <2>2, <2>7, <3>1, <3>2 DEF DataFollows, SameOp, SameLaunch, SameCallback
    <3> QED
      BY <2>1, <2>2, <2>7, <3>3, RecordedMove
  <2>8. CASE /\ thread'[t].step = "context" /\ thread[t].snapshot /\ thread'[t].inOp
             /\ scopes' = scopes /\ ~thread[t].inOp
    <3>1. thread[t].external # <<Scope(thread[t].launch, "hook")>>
      BY <2>4, <2>8, ScopesDiffer
    <3>2. DataFollows(thread[t])'
      BY <1>1, <2>1, <2>2, <2>4, <2>8, <3>1 DEF DataFollows, SameOp, SameLaunch, SameCallback
    <3> QED
      BY <2>1, <2>2, <2>8, <3>2, RecordedMove
  <2> QED
    BY <1>10, <2>6, <2>7, <2>8, EnterDataEffect
<1>11. CASE GetContexts(t)
  <2>1. Plain(t, "context", "kernel")
    BY <1>11, PlainEffects
  <2>2. /\ UNCHANGED <<program, main, active, caught, owed, dataSet, launches, returned, gpu>>
        /\ scopes' = scopes \cup {Scope(thread[t].launch, "callback")}
    BY <1>11 DEF GetContexts
  <2>3. thread[t].snapshot /\ thread[t].external = <<Scope(thread[t].launch, "callback")>>
    BY <1>1, <2>1 DEF DataFollows, Plain
  <2>4. LastScope(thread'[t]) = Scope(thread[t].launch, "callback")
    BY <2>1, <2>3, LastScopeFacts DEF Plain, SameOp
  <2>5. thread[t].external # <<Scope(thread[t].launch, "hook")>>
    BY <2>3, ScopesDiffer
  <2>6. DataFollows(thread[t])'
    BY <1>1, <2>1, <2>2, <2>3, <2>4, <2>5
    DEF DataFollows, Plain, SameOp, SameLaunch, SameCallback
  <2> QED
    BY <2>1, <2>2, <2>6, RecordedMove DEF Plain
<1>12. CASE Kernel(t)
  <2>1. Plain(t, "kernel", IF thread[t].called THEN "exit" ELSE "return")
    BY <1>12, PlainEffects
  <2>2. UNCHANGED <<program, main, active, caught, owed, dataSet, launches, returned, scopes,
                    records, worker, metrics>>
    BY <1>12 DEF Kernel
  <2>3. /\ running' = IF started
                      THEN running \cup {[launch |-> thread[t].launch,
                                          scope |-> LastScope(thread[t])]}
                      ELSE running
    BY <1>12 DEF Kernel
  <2>4. running \subseteq running' /\ \A r \in running' : r \in running \/ r.launch = thread[t].launch
    BY <2>3
  <2>5. /\ thread[t].step = "kernel" /\ thread'[t].step = (IF thread[t].called THEN "exit" ELSE "return")
        /\ thread'[t].launch = thread[t].launch /\ thread'[t].recording = thread[t].recording
        /\ thread'[t].external = thread[t].external /\ thread'[t].inOp = thread[t].inOp
        /\ thread'[t].snapshot = thread[t].snapshot /\ Moves(t)
    BY <2>1 DEF Plain, SameLaunch, SameOp, SameCallback
  <2>6. DataFollows(thread[t])'
    BY <1>1, <1>3, <2>2, <2>5 DEF DataFollows
  <2>7. thread'[t].snapshot /\ thread[t].launch \notin caught => Safe(thread[t].launch)'
    <3> SUFFICES ASSUME thread[t].snapshot, thread[t].launch \notin caught
                 PROVE  Safe(thread[t].launch)'
      BY <2>5
    <3>1. dataSet' /\ started /\ LastScope(thread[t]) \in scopes'
      BY <1>1, <1>3, <2>2, <2>5 DEF DataFollows
    <3>2. PICK r : r = [launch |-> thread[t].launch, scope |-> LastScope(thread[t])]
      OBVIOUS
    <3>3. r \in running' /\ r.launch = thread'[t].launch /\ r.scope \in scopes'
      BY <2>3, <2>5, <3>1, <3>2
    <3> QED
      BY <3>1, <3>3 DEF Safe
  <2>8. SameLaunch(thread'[t], thread[t]) /\ thread[t].step # "idle"
    BY <2>5 DEF SameLaunch
  <2> QED
    BY <2>2, <2>4, <2>5, <2>6, <2>7, <2>8, RecordedMove
<1>13. CASE ExitCallback(t)
  <2>1. /\ Moves(t) /\ thread[t].step = "exit" /\ thread'[t].step = "return"
        /\ SameLaunch(thread'[t], thread[t]) /\ SameCallback(thread'[t], thread[t])
        /\ thread'[t].inOp = (thread[t].inOp /\ ~(started /\ thread[t].snapshot))
    BY <1>13, ExitCallbackEffect
  <2>2. UNCHANGED <<program, main, active, caught, owed, dataSet, launches, returned, scopes, gpu>>
    BY <1>13 DEF ExitCallback
  <2>3. started /\ ~thread'[t].recording
    BY <1>3, <1>13, <2>1, ExitCallbackEffect
  <2>4. DataFollows(thread[t])'
    BY <1>1, <2>1, <2>2, <2>3 DEF DataFollows, SameLaunch, SameCallback
  <2>5. program.device /\ thread'[t].snapshot /\ thread[t].launch \notin caught =>
          Safe(thread[t].launch)'
    <3>1. program.device /\ thread[t].snapshot /\ thread[t].launch \notin caught =>
            Safe(thread[t].launch)
      BY <2>1 DEF RecordedInv, ReturnedSafe
    <3>2. Safe(thread[t].launch)' <=> Safe(thread[t].launch)
      BY <2>1, <2>2 DEF Safe, Recorded, SameLaunch
    <3> QED
      BY <2>1, <3>1, <3>2 DEF SameCallback
  <2> QED
    BY <2>1, <2>2, <2>4, <2>5, RecordedMove
<1>14. CASE Return(t)
  <2>1. /\ Moves(t) /\ thread[t].step = "return" /\ thread'[t].step = "idle"
        /\ SameLaunch(thread'[t], thread[t]) /\ ~thread'[t].snapshot
    BY <1>14, ReturnEffect
  <2>2. UNCHANGED <<program, main, active, caught, owed, dataSet, launches, scopes, gpu>>
    BY <1>14 DEF Return
  <2>3. returned' = IF thread[t].snapshot /\ thread[t].launch \notin caught
                    THEN returned \cup {thread[t].launch} ELSE returned
    BY <1>14 DEF Return
  <2>4. main.step = "idle"
    BY <1>14, ThreadsAssumption DEF Return, BaseInv, LockHeld
  <2>5. \A u \in Launchers : u # t => thread'[u] = thread[u]
    BY <2>1 DEF Moves, Others
  <2>6. ~thread'[t].recording /\ ~thread'[t].inOp
    <3>1. CASE program.hooked /\ active
      BY <1>14, <3>1, ReturnEffect
    <3>2. CASE ~(program.hooked /\ active)
      <4>1. SameOp(thread'[t], thread[t]) /\ thread'[t].inOp = thread[t].inOp
        BY <1>14, <3>2, ReturnEffect
      <4>2. ~thread[t].recording /\ ~thread[t].inOp
        BY <1>1, <2>1, <3>2 DEF OpFollows, DataFollows
      <4> QED
        BY <4>1, <4>2 DEF SameOp
    <3> QED
      BY <3>1, <3>2
  <2>7. DataFollows(thread[t])'
    BY <2>1, <2>6 DEF DataFollows
  <2>8. DataOpsFollow'
    BY <2>2, <2>5, <2>7 DEF RecordedInv, DataOpsFollow, DataFollows
  <2>9. \A k \in returned' : k \in returned \/ k = thread[t].launch
    BY <2>3
  <2>10. CallsSee'
    <3>1. \A k \in returned', u \in Launchers : thread'[u].step # "idle" => thread'[u].launch # k
      <4> SUFFICES ASSUME NEW k \in returned', NEW u \in Launchers, thread'[u].step # "idle"
                   PROVE  thread'[u].launch # k
        OBVIOUS
      <4>1. u # t /\ thread'[u] = thread[u] /\ thread[t].step # "idle"
        BY <2>1, <2>5
      <4>2. thread[u].launch # thread[t].launch
        BY <4>1 DEF AttributedInv, Numbered
      <4>3. k \in returned => thread[u].launch # k
        BY <4>1 DEF RecordedInv, CallsSee
      <4> QED
        BY <2>9, <4>1, <4>2, <4>3
    <3>2. \A k \in returned' : k <= launches'
      BY <2>1, <2>2, <2>9 DEF RecordedInv, CallsSee, AttributedInv, Numbered
    <3> QED
      BY <2>2, <2>4, <3>1, <3>2 DEF CallsSee, Ending, Flushing
  <2>11. \A k : Safe(k)' <=> Safe(k)
    BY <2>2 DEF Safe, Recorded
  <2>12. ReturnedSafe'
    <3> SUFFICES ASSUME program.device PROVE ReturnedSafe'
      BY <2>2 DEF ReturnedSafe
    <3>1. \A k \in returned' : Safe(k)
      BY <2>1, <2>3 DEF RecordedInv, ReturnedSafe
    <3> QED
      BY <2>1, <2>2, <2>4, <2>5, <2>11, <3>1 DEF RecordedInv, ReturnedSafe
  <2> QED
    BY <2>8, <2>10, <2>12 DEF RecordedInv
<1> QED
  BY <1>4, <1>5, <1>6, <1>7, <1>8, <1>9, <1>10, <1>11, <1>12, <1>13, <1>14 DEF Launch

\* Activity is not lost on its way while the data is in the data set.
LEMMA RecordedActivity ==
  ASSUME RecordedInv,
         UNCHANGED <<program, main, active, caught, owed, dataSet, launches, returned, scopes,
                     thread>>,
         \A k : Safe(k) => Safe(k)', running' \subseteq running, metrics \subseteq metrics'
  PROVE  RecordedInv'
<1>1. DataOpsFollow' /\ CallsSee'
  BY DEF RecordedInv, DataOpsFollow, DataFollows, CallsSee
<1>2. ReturnedSafe'
  <2> SUFFICES ASSUME program.device PROVE ReturnedSafe'
    BY DEF ReturnedSafe
  <2>1. \A k \in returned' : Safe(k)'
    BY DEF RecordedInv, ReturnedSafe
  <2>2. \A t \in Launchers :
          /\ thread'[t].step \in {"exit", "return"}
          /\ thread'[t].snapshot /\ thread'[t].launch \notin caught'
          => Safe(thread[t].launch)'
    BY DEF RecordedInv, ReturnedSafe
  <2>3. \A k : Recorded(k) => Recorded(k)'
    BY DEF Recorded
  <2> QED
    BY <2>1, <2>2, <2>3 DEF RecordedInv, ReturnedSafe
<1> QED
  BY <1>1, <1>2 DEF RecordedInv

LEMMA RecordedDevice ==
  ASSUME TypeOK, RecordedInv, (\E r \in running : FinishKernel(r)) \/ Worker
  PROVE  RecordedInv'
<1> USE DEF hostThreads, host, session
<1>1. UNCHANGED <<program, main, active, caught, owed, dataSet, launches, returned, scopes, thread>>
  BY DEF FinishKernel, Worker, TakeRecord, AddMetric
<1>2. ASSUME NEW r \in running, FinishKernel(r)
      PROVE  RecordedInv'
  <2>1. /\ UNCHANGED <<worker, metrics>>
        /\ running' = running \ {r} /\ records' = records \cup Activity({r}, TRUE)
    BY <1>2 DEF FinishKernel
  <2>2. {r} \in SUBSET Kernels /\ TRUE \in BOOLEAN
    BY DEF TypeOK
  <2>3. PICK a \in Activity({r}, TRUE) : a.complete = TRUE /\ a.launch = r.launch /\ a.scope = r.scope
    BY <2>2, ActivityFacts
  <2>4. a \in records' /\ a.complete
    BY <2>1, <2>3
  <2>5. \A k : Safe(k) => Safe(k)'
    BY <1>1, <2>1, <2>3, <2>4 DEF Safe, Recorded
  <2> QED
    BY <1>1, <2>1, <2>5, RecordedActivity
<1>3. ASSUME NEW r \in records, TakeRecord(r)
      PROVE  RecordedInv'
  <2>1. /\ UNCHANGED <<running, metrics>>
        /\ worker = Nothing /\ records' = records \ {r}
        /\ worker' = [record |-> r, dataSet |-> dataSet]
    BY <1>3 DEF TakeRecord
  <2>2. worker' # Nothing /\ worker'.record = r
    <3>1. worker' \in [record : Records, dataSet : BOOLEAN]
      BY <2>1 DEF TypeOK
    <3> QED
      BY <2>1, <3>1, NothingAssumption
  <2>3. dataSet => worker'.dataSet
    BY <2>1
  <2>4. \A k : Safe(k) => Safe(k)'
    BY <1>1, <2>1, <2>2, <2>3 DEF Safe, Recorded
  <2> QED
    BY <1>1, <2>1, <2>4, RecordedActivity
<1>4. CASE AddMetric
  <2>1. /\ UNCHANGED <<running, records>>
        /\ metrics' = IF worker.dataSet /\ worker.record.scope \in scopes
                      THEN metrics \cup {worker.record} ELSE metrics
    BY <1>4 DEF AddMetric
  <2>2. \A k : Safe(k) => Safe(k)'
    BY <1>1, <2>1 DEF Safe, Recorded
  <2> QED
    BY <1>1, <2>1, <2>2, RecordedActivity
<1> QED
  BY <1>2, <1>3, <1>4 DEF Worker

LEMMA RecordedCall ==
  ASSUME TypeOK, BaseInv, RecordedInv, Orderly(program), Call
  PROVE  RecordedInv'
<1>1. UNCHANGED <<program, launches, thread, returned, dataSet, scopes, gpu>>
  BY DEF Call, CallAddMetrics, CallActivate, CallDeactivate, CallFinalize, Begin, launching
<1>2. caught \subseteq caught'
  BY DEF Call, CallAddMetrics, CallActivate, CallDeactivate, CallFinalize
<1>3. {"add", "start", "flush", "stop"} \subseteq MainSteps
  BY DEF MainSteps, Ending, Flushing
<1>4. \A s \in MainSteps : Begin(s, FALSE) \/ Begin(s, TRUE) => main'.step = s
  BY DEF Begin
<1>5. \/ main'.step \in {"add", "start"}
      \/ main'.step = "flush" /\ owed' = returned
      \/ main'.step = "stop"
  <2>1. CASE CallAddMetrics \/ CallActivate
    BY <1>3, <1>4, <2>1 DEF CallAddMetrics, CallActivate
  <2>2. CASE CallDeactivate
    BY <1>3, <1>4, <2>2 DEF CallDeactivate
  <2>3. CASE CallFinalize
    <3>1. CASE active
      BY <1>3, <1>4, <2>3, <3>1 DEF CallFinalize
    <3>2. CASE ~active
      BY <1>3, <1>4, <2>3, <3>2 DEF CallFinalize
    <3> QED
      BY <3>1, <3>2
  <2> QED
    BY <2>1, <2>2, <2>3 DEF Call
<1>6. main'.step \in {"flush", "stop"} =>
        \A t \in Launchers : thread[t].step # "idle" => thread[t].launch \in caught'
  <2>1. CASE CallAddMetrics \/ CallActivate
    BY <1>3, <1>4, <2>1 DEF CallAddMetrics, CallActivate
  <2>2. CASE CallDeactivate
    BY <2>2 DEF CallDeactivate, At
  <2>3. CASE CallFinalize
    BY <2>3, QuietIs DEF CallFinalize
  <2> QED
    BY <2>1, <2>2, <2>3 DEF Call
<1>7. DataOpsFollow'
  <2>1. CASE active => active'
    BY <1>1, <1>2, <2>1 DEF RecordedInv, DataOpsFollow, DataFollows
  <2>2. CASE ~(active => active')
    <3>1. program.hooked => \A t \in Launchers : thread[t].step = "idle"
      BY <2>2, QuietIs DEF Call, CallAddMetrics, CallActivate, CallDeactivate, CallFinalize,
                           Joined, Orderly
    <3>2. \A t \in Launchers : thread[t].inOp => ~program.hooked
      BY <3>1 DEF RecordedInv, DataOpsFollow, DataFollows
    <3> QED
      BY <1>1, <1>2, <3>2 DEF RecordedInv, DataOpsFollow, DataFollows
  <2> QED
    BY <2>1, <2>2
<1>8. CallsSee'
  BY <1>1, <1>5, <1>6 DEF RecordedInv, CallsSee, Ending, Flushing
<1>9. \A k : Safe(k)' <=> Safe(k)
  BY <1>1 DEF Safe, Recorded, gpu
<1>10. ReturnedSafe'
  <2>1. main'.step \notin {"first", "retry", "flushed", "unregister"}
    BY <1>5
  <2> QED
    BY <1>1, <1>2, <1>9, <2>1 DEF RecordedInv, ReturnedSafe
<1> QED
  BY <1>7, <1>8, <1>10 DEF RecordedInv

LEMMA RecordedContinue ==
  ASSUME TypeOK, BaseInv, RecordedInv, Continue
  PROVE  RecordedInv'
<1>1. UNCHANGED <<program, thread, launches, scopes, returned, active, caught, owed>>
  BY ContinueEffect DEF session
<1>2. main.step \in Ending =>
        \A t \in Launchers : ~(thread[t].snapshot /\ thread[t].launch \notin caught)
  BY DEF RecordedInv, CallsSee, BaseInv, CallbacksPaired
<1>3. main.step # "unregister" => (dataSet => dataSet')
  BY ContinueEffect
<1>4. DataOpsFollow'
  <2>1. CASE main.step = "unregister"
    <3>1. \A t \in Launchers : ~(thread[t].snapshot /\ thread[t].launch \notin caught)
      BY <1>2, <2>1 DEF Ending, Flushing
    <3> QED
      BY <1>1, <3>1 DEF RecordedInv, DataOpsFollow, DataFollows
  <2>2. CASE main.step # "unregister"
    BY <1>1, <1>3, <2>2 DEF RecordedInv, DataOpsFollow, DataFollows
  <2> QED
    BY <2>1, <2>2
<1>5. CallsSee'
  <2>1. main'.step \in Ending => main.step \in Ending
    BY ContinueEffect DEF Ending, Flushing
  <2>2. main'.step \in Flushing => main.step \in Flushing
    BY ContinueEffect DEF Flushing
  <2> QED
    BY <1>1, <2>1, <2>2 DEF RecordedInv, CallsSee
<1>6. ReturnedSafe'
  <2> SUFFICES ASSUME program.device PROVE ReturnedSafe'
    BY <1>1 DEF ReturnedSafe
  <2>1. \A k \in returned : Safe(k)
    BY DEF RecordedInv, ReturnedSafe
  <2>2. \A t \in Launchers :
          /\ thread[t].step \in {"exit", "return"}
          /\ thread[t].snapshot /\ thread[t].launch \notin caught
          => main.step \notin Ending /\ Safe(thread[t].launch)
    BY <1>2 DEF RecordedInv, ReturnedSafe
  <2>3. CASE Flush
    <3>1. /\ running' = {} /\ records' = records \cup Activity(running, TRUE)
          /\ UNCHANGED <<worker, metrics, dataSet>> /\ main.step = "flush"
      BY <2>3 DEF Flush
    <3>2. main'.step = "first"
      BY <3>1, ContinueEffect
    <3>3. running \in SUBSET Kernels /\ TRUE \in BOOLEAN
      BY DEF TypeOK
    <3>4. \A r \in running : \E a \in records' :
            a.complete /\ a.launch = r.launch /\ a.scope = r.scope
      <4>1. \A r \in running : \E a \in Activity(running, TRUE) :
              a.complete = TRUE /\ a.launch = r.launch /\ a.scope = r.scope
        BY <3>3, ActivityFacts
      <4> QED
        BY <3>1, <4>1
    <3>5. \A k : Safe(k) => Safe(k)'
      BY <1>1, <3>1, <3>4 DEF Safe, Recorded
    <3> QED
      BY <1>1, <2>1, <2>2, <3>1, <3>2, <3>5 DEF ReturnedSafe
  <2>4. CASE FlushForced
    <3>1. /\ running' = {} /\ records \subseteq records'
          /\ UNCHANGED <<worker, metrics, dataSet>> /\ main.step = "retry"
      BY <2>4 DEF FlushForced
    <3>2. main'.step # "unregister" /\ main.step \in Ending
      BY <3>1, ContinueEffect DEF Ending, Flushing
    <3>3. \A r \in running : r.launch \notin returned
      BY <3>1 DEF RecordedInv, ReturnedSafe
    <3>4. \A k \in returned : Safe(k)'
      BY <1>1, <2>1, <3>1, <3>3 DEF Safe, Recorded
    <3> QED
      BY <1>1, <2>2, <3>1, <3>2, <3>4 DEF ReturnedSafe
  <2>5. CASE UNCHANGED gpu /\ main.step = "unregister"
    <3>1. \A k \in returned : Recorded(k)'
      BY <2>5 DEF RecordedInv, ReturnedSafe, Recorded, gpu
    <3>2. main'.step \in {"stop", "return"} /\ main.step \in Ending
      BY <2>5, ContinueEffect DEF Ending, Flushing
    <3> QED
      BY <1>1, <2>2, <3>1, <3>2 DEF ReturnedSafe, Safe
  <2>6. CASE UNCHANGED gpu /\ main.step = "flushed" /\ Delivered
    <3>1. \A r \in running : r.launch \notin returned
      BY <2>6 DEF RecordedInv, ReturnedSafe
    <3>2. \A k \in returned : Recorded(k)
      BY <2>1, <2>6, <3>1 DEF Safe, Delivered
    <3>3. \A k \in returned : Recorded(k)'
      BY <2>6, <3>2 DEF Recorded, gpu
    <3>4. main.step \in Ending /\ running' = running
      BY <2>6 DEF Ending, Flushing, gpu
    <3> QED
      BY <1>1, <2>2, <3>1, <3>3, <3>4 DEF ReturnedSafe, Safe
  <2>7. CASE UNCHANGED gpu /\ main.step \notin {"unregister", "flushed", "flush"}
    <3>1. \A k : Safe(k) => Safe(k)'
      BY <1>1, <1>3, <2>7 DEF Safe, Recorded, gpu
    <3>2. main'.step # "unregister"
          /\ (main'.step \in {"first", "retry", "flushed"} =>
                main.step \in {"first", "retry", "flushed"})
      BY <2>7, ContinueEffect
    <3>3. main'.step \in {"first", "retry", "flushed", "unregister"} =>
            \A r \in running' : r.launch \notin returned
      BY <2>7, <3>2 DEF RecordedInv, ReturnedSafe, gpu
    <3> QED
      BY <1>1, <2>1, <2>2, <3>1, <3>2, <3>3 DEF ReturnedSafe
  <2>8. CASE Flushed
    BY <2>6, <2>8 DEF Flushed
  <2>9. CASE ~(Flush \/ FlushForced \/ Flushed)
    <3>1. UNCHANGED gpu /\ main.step \notin {"flushed", "flush"}
      BY <2>9 DEF Continue, AddMetrics, Start, RegisterData, FlushFirst, FlushRetry,
                  UnregisterData, Stop, Dump, ReturnMain
    <3> QED
      BY <2>5, <2>7, <3>1
  <2> QED
    BY <2>3, <2>4, <2>8, <2>9
<1> QED
  BY <1>4, <1>5, <1>6 DEF RecordedInv

LEMMA RecordedNext ==
  TypeOK /\ BaseInv /\ AttributedInv /\ RecordedInv /\ Orderly(program) /\ [Next]_vars
    => RecordedInv'
<1> SUFFICES ASSUME TypeOK, BaseInv, AttributedInv, RecordedInv, Orderly(program), [Next]_vars
             PROVE  RecordedInv'
  OBVIOUS
<1>1. CASE UNCHANGED vars
  <2>1. UNCHANGED <<program, main, active, caught, owed, dataSet, launches, returned, scopes,
                    thread, running, records, worker, metrics>>
    BY <1>1 DEF vars, gpu, host, session
  <2>2. \A k : Safe(k) => Safe(k)'
    BY <2>1 DEF Safe, Recorded
  <2> QED
    BY <2>1, <2>2, RecordedActivity
<1> QED
  BY <1>1, RecordedLauncher, RecordedDevice, RecordedCall, RecordedContinue DEF Next

(***************************************************************************)
(* When deactivate() or finalize() has flushed, with a device context to   *)
(* wait for, every profiled launch that had returned is in the data with   *)
(* its times, in every orderly program, but for the launches a             *)
(* deactivation was called in.                                             *)
(***************************************************************************)
THEOREM ReturnedLaunchesAreRecorded ==
  ASSUME \A p \in Programs : Orderly(p)
  PROVE  Spec => []ReturnedIsRecorded
<1>1. Init => TypeOK /\ BaseInv /\ AttributedInv /\ RecordedInv
  BY TypeInit, BaseInit, AttributedInit, RecordedInit
<1>2. Init => program \in Programs
  BY DEF Init
<1>3. program \in Programs /\ [Next]_vars => (program \in Programs)'
  BY ProgramStays
<1>4. program \in Programs => Orderly(program)
  OBVIOUS
<1>5. TypeOK /\ BaseInv /\ AttributedInv /\ RecordedInv /\ program \in Programs /\ [Next]_vars
        => (TypeOK /\ BaseInv /\ AttributedInv /\ RecordedInv)'
  BY <1>4, TypeNext, BaseNext, AttributedNext, RecordedNext DEF Orderly
<1>6. RecordedInv => ReturnedIsRecorded
  BY DEF RecordedInv, CallsSee, ReturnedSafe, ReturnedIsRecorded, Recorded, Flushing
<1> QED
  BY <1>1, <1>2, <1>3, <1>5, <1>6, PTL DEF Spec

=============================================================================
