--------------------------- MODULE MCProtonLaunch ---------------------------
(* The programs of the runs: those that join their launches before they      *)
(* deactivate, with and without the hook; those that do not, without it, and  *)
(* add metrics between launches; and those with the python context source,    *)
(* that join before every call or not.                                        *)
EXTENDS ProtonLaunch

Program(joins, hooked, fails, device, context) ==
  [joins |-> joins, hooked |-> hooked, fails |-> fails, device |-> device,
   context |-> context]

Ends == {"deactivate", "finalize"}

MCPrograms ==
  {Program(Ends, TRUE, FALSE, TRUE, "shadow"),
   Program(Ends, FALSE, FALSE, FALSE, "shadow"),
   Program({"add"}, FALSE, TRUE, TRUE, "shadow"),
   Program(Ends \cup {"add", "activate"}, FALSE, FALSE, TRUE, "python")}

MCPython == {Program(Ends, FALSE, FALSE, TRUE, "python")}
=============================================================================
