---------------------------- MODULE KernelCache -----------------------------
(***************************************************************************)
(* The kernels on disk: compile() of compiler/compiler.py over a           *)
(* FileCacheManager (runtime/cache.py).  The files of a key are put one by *)
(* one, each replaced at once; a group file that names them all is put     *)
(* last; a hit asks for the group and for the metadata it names; and a     *)
(* kernel, compiled or found, is made of what its files hold then.         *)
(*                                                                         *)
(* A file holds the build that wrote it.  Compilers of several threads and *)
(* processes are in it at once, a process may die between any two steps,   *)
(* and files may be evicted.                                               *)
(***************************************************************************)
EXTENDS Naturals, Sequences

CONSTANTS
  Threads,
  Stages,     \* the extensions of the back end's stages, its binary's last
  Always,     \* the values TRITON_ALWAYS_COMPILE may have
  None

ASSUME StagesAssumption == Stages \in Seq(STRING \ {"json", "grp"}) /\ Stages # <<>>
ASSUME AlwaysAssumption == Always \subseteq BOOLEAN

VARIABLES
  disk,       \* <<key, file>> -> the build in it, for the files that are there
  job,        \* thread -> its call of compile
  lossy       \* whether files may be evicted; it never changes

cacheVars == <<disk, job, lossy>>

\* The files of a group in the order they are put, and the group itself.
Puts == Stages \o <<"json">>

Named == {Puts[i] : i \in 1 .. Len(Puts)}

BinaryExt == Stages[Len(Stages)]

Idle == [step |-> "idle"]

CacheInit ==
  /\ disk = <<>>
  /\ job = [t \in Threads |-> Idle]
  /\ lossy \in BOOLEAN

Job(t, step, key) == job' = [job EXCEPT ![t] = [step |-> step, key |-> key]]

has_file(k, f) == <<k, f>> \in DOMAIN disk

get_group(k) == IF has_file(k, "grp") THEN {f \in Named : has_file(k, f)} ELSE {}

-----------------------------------------------------------------------------
Compile(t, k) ==
  /\ job[t].step = "idle"
  /\ Job(t, "find", k)
  /\ UNCHANGED <<disk, lossy>>

Hit(t) ==
  LET group == get_group(job[t].key)
  IN  /\ job[t].step = "find"
      /\ "json" \in group
      /\ FALSE \in Always
      /\ job' = [job EXCEPT ![t] = [step |-> "load", key |-> job[t].key, group |-> group]]
      /\ UNCHANGED <<disk, lossy>>

Miss(t) ==
  /\ job[t].step = "find"
  /\ TRUE \in Always \/ "json" \notin get_group(job[t].key)
  /\ Job(t, "make", job[t].key)
  /\ UNCHANGED <<disk, lossy>>

\* make_ir reads the source and what it refers to; the stages follow.
Make(t, build) ==
  /\ job[t].step = "make"
  /\ job' = [job EXCEPT ![t] =
               [step |-> "put", key |-> job[t].key, build |-> build, next |-> 1]]
  /\ UNCHANGED <<disk, lossy>>

\* make_ir raises, or a stage does when the files of those before it are put.
MakeFails(t) ==
  /\ \/ job[t].step = "make"
     \/ job[t].step = "put" /\ job[t].next <= Len(Stages)
  /\ Job(t, "failed", job[t].key)
  /\ UNCHANGED <<disk, lossy>>

Write(t, file) ==
  LET x == <<job[t].key, file>>
  IN  disk' = [y \in DOMAIN disk \cup {x} |-> IF y = x THEN job[t].build ELSE disk[y]]

\* put: os.replace makes a temporary file the file; what a process that dies
\* leaves of the temporary one has a name nobody asks for.
Put(t) ==
  /\ job[t].step = "put"
  /\ job[t].next <= Len(Puts)
  /\ Write(t, Puts[job[t].next])
  /\ job' = [job EXCEPT ![t].next = @ + 1]
  /\ UNCHANGED lossy

\* Mutant: the group is put when the first of its files is.
put_group_first(t) ==
  /\ job[t].step = "put"
  /\ job[t].next = 2
  /\ Write(t, "grp")
  /\ job' = [job EXCEPT ![t] = [step |-> "load", key |-> job[t].key, group |-> Named]]
  /\ UNCHANGED lossy

put_group(t) ==
  /\ job[t].step = "put"
  /\ job[t].next > Len(Puts)
  /\ Write(t, "grp")
  /\ job' = [job EXCEPT ![t] = [step |-> "load", key |-> job[t].key, group |-> Named]]
  /\ UNCHANGED lossy

\* CompiledKernel.__init__ reads the metadata, then the other files.
LoadMetadata(t) ==
  /\ job[t].step = "load"
  /\ has_file(job[t].key, "json")
  /\ job' = [job EXCEPT ![t] =
               [step |-> "read", key |-> job[t].key, group |-> job[t].group,
                metadata |-> disk[<<job[t].key, "json">>]]]
  /\ UNCHANGED <<disk, lossy>>

Readable(t) ==
  /\ BinaryExt \in job[t].group
  /\ \A f \in job[t].group \ {"json"} : has_file(job[t].key, f)

LoadBinary(t) ==
  /\ job[t].step = "read"
  /\ Readable(t)
  /\ job' = [job EXCEPT ![t] =
               [step |-> "done", key |-> job[t].key,
                kernel |-> [metadata |-> job[t].metadata,
                            binary |-> disk[<<job[t].key, BinaryExt>>]]]]
  /\ UNCHANGED <<disk, lossy>>

\* FileNotFoundError of a file that was named, KeyError of a binary that was not.
LoadFails(t) ==
  /\ \/ job[t].step = "load" /\ ~has_file(job[t].key, "json")
     \/ job[t].step = "read" /\ ~Readable(t)
  /\ Job(t, "failed", job[t].key)
  /\ UNCHANGED <<disk, lossy>>

Return(t) ==
  /\ job[t].step \in {"done", "failed"}
  /\ job' = [job EXCEPT ![t] = Idle]
  /\ UNCHANGED <<disk, lossy>>

\* The compilers of a process that dies.
Die(T) ==
  /\ job' = [t \in Threads |-> IF t \in T THEN Idle ELSE job[t]]
  /\ UNCHANGED <<disk, lossy>>

Evict(file) ==
  /\ lossy
  /\ file \in DOMAIN disk
  /\ disk' = [x \in DOMAIN disk \ {file} |-> disk[x]]
  /\ UNCHANGED <<job, lossy>>

CacheStep(t) ==
  Hit(t) \/ Miss(t) \/ MakeFails(t) \/ Put(t) \/ put_group(t)
    \/ LoadMetadata(t) \/ LoadBinary(t) \/ LoadFails(t)
=============================================================================
