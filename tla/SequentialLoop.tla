--------------------------- MODULE SequentialLoop ---------------------------
(***************************************************************************)
(* What a loop promises, however it is pipelined: each of its effects      *)
(* happens once for every iteration, in the order of the iterations, with  *)
(* that iteration's values, and then the loop is over.                     *)
(***************************************************************************)
EXTENDS Naturals

VARIABLES trip,   \* how many iterations the bounds ask for
          did,    \* per effect, how many iterations it has been done for
          over    \* the loop has been left

vars == <<trip, did, over>>

Init == /\ trip \in Nat
        /\ did = [e \in DOMAIN did |-> 0]
        /\ over = FALSE

\* No effect starts an iteration that another has still to do before the last one is complete.
Effect(e) == /\ did[e] < trip
             /\ \A f \in DOMAIN did : did[e] <= did[f]
             /\ did' = [did EXCEPT ![e] = @ + 1]
             /\ UNCHANGED <<trip, over>>

Leave == /\ ~over
         /\ \A e \in DOMAIN did : did[e] = trip
         /\ over' = TRUE
         /\ UNCHANGED <<trip, did>>

Next == Leave \/ \E e \in DOMAIN did : Effect(e)

Spec == Init /\ [][Next]_vars /\ <>over
=============================================================================
