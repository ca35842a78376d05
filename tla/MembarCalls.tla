----------------------------- MODULE MembarCalls -----------------------------
(***************************************************************************)
(* The kernel of a module with calls, run as it is lowered: a call enters  *)
(* its callee with the base address of the callee's shared memory as an    *)
(* extra argument (CallOpConversion in ControlFlowOpToLLVM.cpp), and the   *)
(* callee's buffers lie at their own offsets from that base.               *)
(*                                                                         *)
(* Allocation reserves a virtual buffer in the caller for a call, but      *)
(* promoteOperands looks for the attribute "allocation.offset" on the      *)
(* caller's function, where AllocateSharedMemory never puts it, so what is *)
(* passed is the caller's own base.                                        *)
(***************************************************************************)
EXTENDS Membar

CONSTANT NoData    \* the contents of a byte that was never written

VARIABLES
  stack,      \* the frames under execution, the innermost last
  pending,    \* the accesses made since the last barrier, at absolute addresses
  mem         \* byte -> the <<frame depth, buffer>> that wrote it last

cvars == <<stack, pending, mem>>

\* A frame: the next operation, and the base of the function's shared memory.
Frame(b, i, base) == [block |-> b, op |-> i, base |-> base]

Top == stack[Len(stack)]

TopOp == OpAt(Top.block, Top.op)

AtTopOp == stack # <<>> /\ Top.op < Terminator(Top.block)

Bytes == 0 .. 15    \* bound: the shared memory the small programs can reach

Shift(i, base) == <<i[1] + base, i[2] + base>>

\* The accesses of an operation of the top frame, at absolute addresses.
OwnAccesses ==
  {<<Shift(a[1], Top.base), a[2]>> :
     a \in IF TopOp.kind = "access" THEN AccessesOf(CurInfo(TopOp)) ELSE {}}

PendingHere == IF <<Top.block, Top.op>> \in bars THEN {} ELSE pending

\* The base handed to a callee.  No function has an "allocation.offset".
CalleeBase == Top.base
-----------------------------------------------------------------------------
CLaunch ==
  /\ Done
  /\ stack = <<>>
  /\ stack' = <<Frame(prog.entry[prog.nfuncs], 1, 0)>>
  /\ pending' = {}
  /\ mem' = [a \in Bytes |-> NoData]

Step(f) == [stack EXCEPT ![Len(stack)] = f]

CExecute ==
  /\ AtTopOp
  /\ TopOp.kind # "call"
  /\ pending' = IF TopOp.kind = "barrier" THEN {} ELSE PendingHere \cup OwnAccesses
  /\ mem' = IF TopOp.kind = "access"
            THEN [a \in Bytes |->
                    IF \E x \in TopOp.writes \cup TopOp.scratch :
                         a \in Byte(Shift(prog.alloc[x], Top.base))
                    THEN CHOOSE o \in {<<Len(stack), x>> : x \in TopOp.writes \cup TopOp.scratch} :
                           a \in Byte(Shift(prog.alloc[o[2]], Top.base))
                    ELSE mem[a]]
            ELSE mem
  /\ stack' = Step(Frame(Top.block, Top.op + 1, Top.base))

CCall ==
  /\ AtTopOp
  /\ TopOp.kind = "call"
  /\ pending' = PendingHere
  /\ stack' = Append(Step(Frame(Top.block, Top.op + 1, Top.base)),
                     Frame(prog.entry[TopOp.callee], 1, CalleeBase))
  /\ UNCHANGED mem

CBranch ==
  /\ stack # <<>>
  /\ Top.op = Terminator(Top.block)
  /\ pending' = PendingHere
  /\ \E s \in Successors(Top.block) : stack' = Step(Frame(s, 1, Top.base))
  /\ UNCHANGED mem

CReturn ==
  /\ stack # <<>>
  /\ Top.op = Terminator(Top.block)
  /\ Successors(Top.block) = {}
  /\ stack' = SubSeq(stack, 1, Len(stack) - 1)
  /\ pending' = IF Len(stack) = 1 THEN {} ELSE PendingHere
  /\ mem' = IF Len(stack) = 1 THEN [a \in Bytes |-> NoData] ELSE mem

NotLaunched ==
  /\ stack = <<>>
  /\ pending = {}
  /\ mem = [a \in Bytes |-> NoData]

CInit == Init /\ NotLaunched

Entered == CLaunch \/ CExecute \/ CCall \/ CBranch \/ CReturn

CNext ==
  \/ Next /\ UNCHANGED cvars
  \/ Entered /\ UNCHANGED vars

CSpec == CInit /\ [][CNext]_<<vars, cvars>>
-----------------------------------------------------------------------------
(***************************************************************************)
(* Back in the function that was launched, after any calls, what is really *)
(* pending is within what the analysis assumed when it passed the          *)
(* operation (Membar.h:138-140, the summary of a callee).                  *)
(***************************************************************************)
CallerViewSound ==
  Len(stack) = 1 => PendingHere \subseteq AccessesOf(Before(Top.block, Top.op))

\* The operation a frame is at; for a caller, the call it is in.
Under(j) == IF j = Len(stack) THEN stack[j].op ELSE stack[j].op - 1

\* What the analysis assumed to be pending in front of that operation.
Assumed(j) == AccessesOf(Before(stack[j].block, Under(j)))

Frames == [block : seen, op : Nat \ {0}, base : {0}]

FramesOK ==
  /\ stack \in Seq(Frames)
  /\ \A j \in 1 .. Len(stack) : stack[j].op <= Terminator(stack[j].block)
  /\ \A j \in 1 .. Len(stack) - 1 :
       /\ stack[j].op > 1
       /\ OpAt(stack[j].block, stack[j].op - 1).kind = "call"
       /\ OpAt(stack[j].block, stack[j].op - 1).callee = prog.fnOf[stack[j + 1].block]

(***************************************************************************)
(* In a callee too, an access is pending only if the analysis assumed it   *)
(* there, or in front of one of the calls under way (Membar.cpp:121-126,   *)
(* where a call is taken as the summary of its callee, Membar.h:138-140).  *)
(***************************************************************************)
CallsInv ==
  stack # <<>> =>
    /\ Done
    /\ FramesOK
    /\ PendingHere \subseteq UNION {Assumed(j) : j \in 1 .. Len(stack)}

(***************************************************************************)
(* Allocation.h:239-241: "Each call op is treated like convert_layout that *)
(* allocates a scratch buffer. At each call, we compute the start offset   *)
(* of the scratch buffer and pass it as an argument to the callee."  So a  *)
(* callee never touches a buffer its caller still needs: what an operation *)
(* reads was last written to that very buffer, or never.                   *)
(***************************************************************************)
CalleeSparesCaller ==
  (AtTopOp /\ TopOp.kind = "access") =>
    \A x \in TopOp.reads : \A a \in Byte(Shift(prog.alloc[x], Top.base)) :
      mem[a] \in {NoData, <<Len(stack), x>>}
=============================================================================
