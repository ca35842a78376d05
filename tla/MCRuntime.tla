------------------------------ MODULE MCRuntime -----------------------------
(***************************************************************************)
(* Instances of JitFunction and of Autotuner, one per behaviour: the       *)
(* autotuner uses nothing of the functions below it but run().             *)
(***************************************************************************)
EXTENDS JitFunction, Autotuner

Value(type, div16, one) == [type |-> type, div16 |-> div16, one |-> one]

\* 1, 7, 16, True, None and a pointer that is not aligned.
MCPassed ==
  {Value("i32", FALSE, TRUE), Value("i32", FALSE, FALSE), Value("i32", TRUE, FALSE),
   Value("i1", FALSE, TRUE), Value("none", TRUE, FALSE), Value("*fp32", FALSE, FALSE)}

MCFew == {Value("i32", FALSE, TRUE), Value("i32", FALSE, FALSE)}

Program(annotation, dns, passed, sources, changes, losses, quota) ==
  [annotation |-> annotation, do_not_specialize |-> dns, args |-> passed,
   sources |-> sources, changes |-> changes, lossy |-> losses,
   quota |-> [t \in Threads |-> quota[t]]]

Quota(a, b, c) == [t1 |-> a, t2 |-> b, t3 |-> c]

NoProgram == Program("", FALSE, {}, {"old"}, {}, {FALSE}, Quota(0, 0, 0))

\* One thread that calls twice with anything, two threads of one process, and
\* two processes with one or two versions of the function.
MCPrograms ==
  {Program("", FALSE, MCPassed, {"old"}, {}, {FALSE}, Quota(2, 0, 0)),
   Program("i32", FALSE, MCPassed, {"old"}, {}, {FALSE}, Quota(2, 0, 0)),
   Program("", TRUE, MCPassed, {"old"}, {}, {FALSE}, Quota(2, 0, 0)),
   Program("", FALSE, MCFew, {"old", "new"}, {"src"}, {FALSE}, Quota(2, 0, 0)),
   Program("", FALSE, MCFew, {"old"}, {"global"}, {FALSE}, Quota(2, 0, 0)),
   Program("", FALSE, MCFew, {"old"}, {}, {FALSE}, Quota(1, 1, 0)),
   Program("", FALSE, MCFew, {"old", "new"}, {}, {FALSE}, Quota(1, 0, 1)),
   Program("", FALSE, {Value("i32", FALSE, FALSE)}, {"old"}, {}, {TRUE}, Quota(1, 0, 1)),
   NoProgram}

MCGlobal == {Program("", FALSE, MCFew, {"old"}, {"global"}, {FALSE}, Quota(3, 0, 0))}

MCProcOf == [t \in Threads |-> IF t = "t3" THEN "q" ELSE "p"]

MCStages == <<"ttir", "cubin">>

Tuning(names, key, outcome, kept, reset, restore) ==
  [names |-> names, key |-> key, outcome |-> outcome, kept |-> kept,
   reset |-> reset, restore |-> restore]

MCOneConfig == {Tuning(<<"n", "m", "META">>, {"n"}, <<"fast">>, <<1>>, TRUE, TRUE)}

\* Three configurations of any outcomes, of which pruning keeps some; and a
\* parameter of the configurations that is not the last.
MCTunings ==
  {Tuning(<<"n", "m", "META">>, {"n"}, outcome, kept, reset, restore) :
     outcome \in {<<"slow", "fast", "exhausted">>, <<"exhausted", "raises", "fast">>,
                  <<"exhausted", "exhausted", "fast">>},
     kept \in {<<>>, <<2, 1>>, <<1, 2, 3>>},
     reset \in BOOLEAN, restore \in BOOLEAN}
    \cup {Tuning(<<"n", "META", "m">>, {"m"}, <<"slow", "fast">>, <<1, 2>>, TRUE, TRUE),
          Tuning(<<"META", "n", "m">>, {"n"}, <<"slow", "fast">>, <<1, 2>>, TRUE, TRUE)}
    \cup MCOneConfig

RuntimeInit ==
  /\ JitInit /\ TunerInit
  /\ program # NoProgram => tuning \in MCOneConfig /\ args = [n |-> 1, m |-> 1]

RuntimeNext ==
  \/ program # NoProgram /\ JitNext /\ UNCHANGED tunerVars
  \/ program = NoProgram /\ TunerNext /\ UNCHANGED <<cacheVars, jitVars>>

RuntimeSpec == RuntimeInit /\ [][RuntimeNext]_<<cacheVars, jitVars, tunerVars>>
=============================================================================
