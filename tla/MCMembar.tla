------------------------------ MODULE MCMembar ------------------------------
(***************************************************************************)
(* The programs of the runs of Membar, MembarKernel and MembarCalls: the   *)
(* control flow that lowering scf leaves, over two buffers that share      *)
(* memory (C reuses half of A's after A has died) and one apart.           *)
(*                                                                         *)
(* Every path through every program of the loop, conditional and call      *)
(* families is executed; the programs of MCBoth, which are allocated as    *)
(* Allocation does, are also run with their calls entered.                 *)
(***************************************************************************)
EXTENDS MembarKernel, MembarCalls

MCAlloc == [A |-> <<0, 2>>, B |-> <<2, 4>>, C |-> <<1, 2>>]

Acc(r, w, s) == [kind |-> "access", reads |-> r, writes |-> w, scratch |-> s]
Load(x)      == Acc({x}, {}, {})
Store(x)     == Acc({}, {x}, {})
Scratch(x)   == Acc({}, {}, {x})
BarrierOp    == [kind |-> "barrier"]
AsyncWait    == [kind |-> "async_wait"]
Call(f, v)   == [kind |-> "call", callee |-> f, virtual |-> v]

SeqsUpTo(S, n) == UNION {[1 .. k -> S] : k \in 0 .. n}

\* entry 1 -> header 2 -> {body 3, exit 4}, 3 -> 2: a lowered scf.for or
\* scf.while.  The header of an scf.for has no operation on shared memory; the
\* header of an scf.while is its condition region.
LoopSucc == <<<<2>>, <<3, 4>>, <<2>>, <<>>>>

\* 1 -> {2, 3} -> 4: a lowered scf.if.
IfSucc == <<<<2, 3>>, <<4>>, <<4>>, <<>>>>

One(succ, body) ==
  [nfuncs |-> 1, fnOf |-> [b \in 1 .. 4 |-> 1], entry |-> <<1>>, succ |-> succ,
   body |-> body, alloc |-> MCAlloc]

LoopOps == {Load("A"), Store("A"), Store("C"), Scratch("B"), AsyncWait, BarrierOp}

ForPrograms ==
  {One(LoopSucc, <<p, <<>>, q, r>>) :
     p \in SeqsUpTo({Store("A"), Scratch("B")}, 1), q \in SeqsUpTo(LoopOps, 3),
     r \in SeqsUpTo({Load("A"), Store("C")}, 1)}

IfPrograms ==
  {One(IfSucc, <<p, q, r, t>>) :
     p \in SeqsUpTo({Load("A"), Store("A"), Scratch("B")}, 1),
     q \in SeqsUpTo({Load("C"), Store("B"), AsyncWait}, 2),
     r \in SeqsUpTo({Store("C"), BarrierOp}, 1),
     t \in SeqsUpTo({Load("B"), Store("A"), Scratch("C")}, 2)}

\* An inner loop: 1 -> 2, 2 -> {3, 1}, 3 -> 2, closed by 1 -> 4.
NestedSucc == <<<<2, 4>>, <<3, 1>>, <<2>>, <<>>>>

NestedPrograms ==
  {One(NestedSucc, <<<<>>, <<>>, p, q>>) :
     p \in SeqsUpTo({Load("A"), Store("C"), Scratch("B")}, 3),
     q \in SeqsUpTo({Load("A"), Store("C")}, 1)}

\* Three nested scf.ifs without an else, then an scf.while whose condition
\* region (8) and body (9) each read a buffer the scf.ifs may have written.
IfsWhileSucc ==
  <<<<2, 7>>, <<3, 6>>, <<4, 5>>, <<5>>, <<6>>, <<7>>, <<8>>, <<9, 10>>, <<8>>, <<>>>>

WhilePrograms ==
  {[nfuncs |-> 1, fnOf |-> [b \in 1 .. 10 |-> 1], entry |-> <<1>>, succ |-> IfsWhileSucc,
    body |-> <<s[1], s[2], s[3], s[4], s[5], s[6], <<>>, <<Load("B")>>, <<Load("A")>>, <<>>>>,
    alloc |-> MCAlloc] : s \in [1 .. 6 -> SeqsUpTo({Store("A"), Store("B")}, 1)]}

\* A callee (block 1) and a caller 2 -> {3, 4}, 3 -> 4 that may call it.
Two(body) ==
  [nfuncs |-> 2, fnOf |-> <<1, 2, 2, 2>>, entry |-> <<1, 2>>,
   succ |-> <<<<>>, <<3, 4>>, <<4>>, <<>>>>, body |-> body, alloc |-> MCAlloc]

CallPrograms ==
  {Two(<<p, q, r, <<Load("A")>>>>) :
     p \in SeqsUpTo({Load("A"), Store("A"), BarrierOp}, 2),
     q \in SeqsUpTo({Call(1, {"A"}), Store("C")}, 2),
     r \in SeqsUpTo({Call(1, {"A"}), Load("A")}, 1)}

(***************************************************************************)
(* A caller with one or two calls of one callee, allocated as Allocation   *)
(* does: buffers that are live together never overlap, and the virtual     *)
(* buffer of a call has the size of the callee's memory.                   *)
(***************************************************************************)
\* Callee: its buffer is C, written before it is read.
CalleeBodies ==
  {<<>>, <<Store("C")>>, <<Scratch("C")>>, <<Store("C"), Load("C")>>,
   <<BarrierOp, Store("C")>>, <<Store("C"), BarrierOp>>}

TheCall == Call(1, {"B"})

MaybeCall == {<<>>, <<TheCall>>, <<TheCall, TheCall>>}

\* A is written, then maybe calls, on one or both paths, then A is read: A is
\* live across the calls and their virtual buffer B lies behind it.
MCLiveAcross ==
  {[Two(<<p, <<Store("A")>> \o q, r, <<Load("A")>>>>)
      EXCEPT !.alloc = [A |-> <<0, 2>>, B |-> <<2, 4>>, C |-> <<0, 2>>]] :
     p \in CalleeBodies, q \in MaybeCall, r \in MaybeCall}

\* A is dead at the calls, so their virtual buffer reuses its memory.
MCReuse ==
  {[Two(<<p, <<Store("A"), Load("A")>> \o q, r, <<>>>>)
      EXCEPT !.alloc = [A |-> <<0, 2>>, B |-> <<0, 2>>, C |-> <<0, 2>>]] :
     p \in CalleeBodies, q \in MaybeCall, r \in MaybeCall}

MCBoth == MCLiveAcross \cup MCReuse
MCPrograms == ForPrograms \cup NestedPrograms \cup IfPrograms \cup CallPrograms \cup MCBoth

BothInit == KInit /\ NotLaunched

BothNext ==
  \/ KNext /\ stack = <<>> /\ UNCHANGED cvars
  \/ Entered /\ at = Idle /\ prog \in MCBoth /\ UNCHANGED <<vars, kvars>>

BothSpec == BothInit /\ [][BothNext]_<<vars, kvars, cvars>> /\ WF_vars(Next /\ UNCHANGED <<kvars, cvars>>)
=============================================================================
