---------------------------- MODULE KernelStore -----------------------------
(***************************************************************************)
(* What the kernel cache promises to those who compile: whoever asks for a *)
(* kernel is given the kernel asked for.  A kernel that was published is   *)
(* found from then on, by every process, and to have found it is to be     *)
(* given it; only in a store that loses things can that fail.              *)
(***************************************************************************)
CONSTANTS Clients, Nobody, Failure

VARIABLES
  lossy,      \* whether what is published may be lost
  published,  \* the keys whose kernel is there
  want,       \* client -> the key it asks for, or Nobody
  found,      \* the clients that have found, or made, what they want
  got         \* client -> the kernel it was given, named by its key, or Failure

vars == <<lossy, published, want, found, got>>

Init ==
  /\ lossy \in BOOLEAN
  /\ published = {}
  /\ want = [c \in Clients |-> Nobody]
  /\ found = {}
  /\ got = [c \in Clients |-> Nobody]

Ask(c) ==
  /\ want[c] = Nobody /\ got[c] = Nobody
  /\ want'[c] # Nobody
  /\ \A d \in Clients \ {c} : want'[d] = want[d]
  /\ UNCHANGED <<lossy, published, found, got>>

Find(c) ==
  /\ want[c] \in published
  /\ found' = found \cup {c}
  /\ UNCHANGED <<lossy, published, want, got>>

Publish(c) ==
  /\ want[c] # Nobody
  /\ published' = published \cup {want[c]}
  /\ found' = found \cup {c}
  /\ UNCHANGED <<lossy, want, got>>

Give(c) ==
  /\ c \in found
  /\ got' = [got EXCEPT ![c] = want[c]]
  /\ want' = [want EXCEPT ![c] = Nobody]
  /\ found' = found \ {c}
  /\ UNCHANGED <<lossy, published>>

\* A compilation may fail; to give what was found may not.
Fail(c) ==
  /\ want[c] # Nobody
  /\ c \in found => lossy
  /\ want' = [want EXCEPT ![c] = Nobody]
  /\ found' = found \ {c}
  /\ got' = [got EXCEPT ![c] = Failure]
  /\ UNCHANGED <<lossy, published>>

Take(c) ==
  /\ got' = [got EXCEPT ![c] = Nobody]
  /\ UNCHANGED <<lossy, published, want, found>>

Lose ==
  /\ lossy
  /\ published' \subseteq published
  /\ UNCHANGED <<lossy, want, found, got>>

\* The clients of a process that dies.
Die(c) ==
  want'[c] = Nobody /\ got'[c] = Nobody /\ c \notin found'

Stays(c) ==
  want'[c] = want[c] /\ got'[c] = got[c] /\ (c \in found' <=> c \in found)

SomeDie ==
  /\ \A c \in Clients : Die(c) \/ Stays(c)
  /\ UNCHANGED <<lossy, published>>

Next ==
  \/ \E c \in Clients : Ask(c) \/ Find(c) \/ Publish(c) \/ Give(c) \/ Fail(c) \/ Take(c)
  \/ Lose
  \/ SomeDie

Spec == Init /\ [][Next]_vars
=============================================================================
