--------------------------- MODULE SessionProofs ----------------------------
(***************************************************************************)
(* Proofs about Proton's session manager, for every number of sessions,    *)
(* paths and profilers and every sequence of calls; and about the Python   *)
(* programs on top of it that keep to the rules, for every number of       *)
(* threads and every nesting of scopes.                                    *)
(***************************************************************************)
EXTENDS ProtonApi, FiniteSetTheorems, SequenceTheorems, TLAPS

ActivityType ==
  /\ activeSessions \in [SessionIds -> BOOLEAN]
  /\ counts \in [SessionIds -> Nat]
  /\ opCounts \in [Profilers -> Nat]
  /\ dataSet \in [Profilers -> SUBSET SessionIds]

\* What an id or a set of sessions is made of, and that it is finite.
LEMMA IdFacts ==
  /\ SessionIds \subseteq Nat
  /\ \A S \in SUBSET SessionIds : IsFiniteSet(S) /\ Cardinality(S) \in Nat
<1>1. MaxSessions - 1 \in Int /\ 0 \in Int
  BY BoundsAssumption
<1>2. IsFiniteSet(SessionIds)
  BY <1>1, FS_Interval DEF SessionIds
<1>3. \A S \in SUBSET SessionIds : IsFiniteSet(S) /\ Cardinality(S) \in Nat
  BY <1>2, FS_Subset, FS_CardinalityType
<1> QED
  BY <1>3, BoundsAssumption DEF SessionIds

\* The id a new session gets.
LEMMA NextIdFacts ==
  ASSUME SessionInv
  PROVE  /\ nextSessionId \in Nat
         /\ nextSessionId < MaxSessions =>
              nextSessionId \in SessionIds /\ nextSessionId + 1 \in 0 .. MaxSessions
<1>1. nextSessionId \in 0 .. MaxSessions /\ MaxSessions \in Nat
  BY BoundsAssumption DEF SessionInv, TypeOK
<1>2. nextSessionId \in Nat
  BY <1>1
<1>3. ASSUME nextSessionId < MaxSessions
      PROVE  nextSessionId <= MaxSessions - 1 /\ nextSessionId + 1 <= MaxSessions
  BY <1>1, <1>3
<1> QED
  BY <1>1, <1>2, <1>3 DEF SessionIds

\* The initial state of the manager.
LEMMA InitInv == Init => SessionInv
<1> SUFFICES ASSUME Init PROVE SessionInv
  OBVIOUS
<1>1. \A i \in SessionIds : sessions[i] = Absent /\ activeSessions[i] = FALSE
                            /\ counts[i] = 0 /\ contexts[i] = <<>>
  BY DEF Init
<1>2. <<>> \in Seq(Names)
  BY EmptySeq
<1>3. TypeOK
  <2>1. MaxSessions \in Nat
    BY BoundsAssumption
  <2>2. nextSessionId \in 0 .. MaxSessions
    BY <2>1 DEF Init
  <2>3. sessions \in [SessionIds -> [path : Paths, profiler : Profilers] \cup {Absent}]
    BY DEF Init
  <2>4. contexts \in [SessionIds -> Seq(Names)]
    BY <1>2 DEF Init
  <2>5. dataSet \in [Profilers -> SUBSET SessionIds] /\ opCounts \in [Profilers -> Nat]
    BY DEF Init
  <2> QED
    BY <2>2, <2>3, <2>4, <2>5 DEF Init, TypeOK
<1>4. ActiveIsLive /\ IdsAreFresh
  BY <1>1 DEF Init, ActiveIsLive, IdsAreFresh, Live
<1>5. ActiveIsRegistered
  BY <1>1, FS_EmptySet DEF Init, ActiveIsRegistered, ActiveOf
<1> QED
  BY <1>3, <1>4, <1>5 DEF SessionInv

\* Turning a session on registers it everywhere.
LEMMA TurnOnRegisters ==
  ASSUME SessionInv, NEW i \in SessionIds, NEW p \in Profilers,
         ~activeSessions[i], TurnOn(i, p),
         sessions'[i].profiler = p,
         \A j \in SessionIds \ {i} : sessions'[j] = sessions[j]
  PROVE  /\ ActivityType' /\ ActiveIsRegistered'
         /\ started' \in [Profilers -> BOOLEAN]
         /\ \A j \in SessionIds : activeSessions'[j] <=> activeSessions[j] \/ j = i
<1>1. ActivityType /\ started \in [Profilers -> BOOLEAN]
  BY DEF SessionInv, TypeOK, ActivityType
<1>2. /\ activeSessions' = [activeSessions EXCEPT ![i] = TRUE]
      /\ started' = [started EXCEPT ![p] = TRUE]
      /\ dataSet' = [dataSet EXCEPT ![p] = @ \cup {i}]
      /\ counts' = [counts EXCEPT ![i] = @ + 1]
      /\ opCounts' = [opCounts EXCEPT ![p] = @ + 1]
  BY DEF TurnOn
<1>3. ActivityType' /\ started' \in [Profilers -> BOOLEAN]
  BY <1>1, <1>2 DEF ActivityType
<1>4. \A j \in SessionIds : activeSessions'[j] <=> activeSessions[j] \/ j = i
  BY <1>1, <1>2 DEF ActivityType
<1>5. ASSUME NEW q \in Profilers PROVE dataSet'[q] = ActiveOf(q)'
  <2>1. dataSet[q] = {j \in SessionIds : activeSessions[j] /\ sessions[j].profiler = q}
    BY DEF SessionInv, ActiveIsRegistered, ActiveOf
  <2>2. dataSet'[q] = IF q = p THEN dataSet[q] \cup {i} ELSE dataSet[q]
    BY <1>1, <1>2 DEF ActivityType
  <2>3. \A j \in SessionIds : j # i => sessions'[j].profiler = sessions[j].profiler
    OBVIOUS
  <2> QED
    BY <1>4, <2>1, <2>2, <2>3 DEF ActiveOf
<1>6. ASSUME NEW q \in Profilers PROVE opCounts'[q] = Cardinality(dataSet'[q])
  <2>1. opCounts[q] = Cardinality(dataSet[q]) /\ dataSet[q] = ActiveOf(q)
    BY DEF SessionInv, ActiveIsRegistered
  <2>2. dataSet[q] \in SUBSET SessionIds /\ i \notin dataSet[q]
    BY <1>1, <2>1 DEF ActivityType, ActiveOf
  <2>3. Cardinality(dataSet[q] \cup {i}) = Cardinality(dataSet[q]) + 1
    BY <2>2, IdFacts, FS_AddElement
  <2>4. CASE q = p
    BY <1>1, <1>2, <2>1, <2>3, <2>4 DEF ActivityType
  <2>5. CASE q # p
    BY <1>1, <1>2, <2>1, <2>5 DEF ActivityType
  <2> QED
    BY <2>4, <2>5
<1>7. \A j \in SessionIds : counts'[j] = IF activeSessions'[j] THEN 1 ELSE 0
  BY <1>1, <1>2 DEF ActivityType, SessionInv, ActiveIsRegistered
<1> QED
  BY <1>3, <1>4, <1>5, <1>6, <1>7 DEF ActiveIsRegistered

\* Turning sessions off takes them out of everything, and no one else.
LEMMA TurnOffUnregisters ==
  ASSUME SessionInv, NEW S \in SUBSET SessionIds, TurnOff(S),
         \A j \in SessionIds \ S : sessions'[j] = sessions[j]
  PROVE  /\ ActivityType' /\ ActiveIsRegistered'
         /\ \A j \in SessionIds : activeSessions'[j] <=> activeSessions[j] /\ j \notin S
<1> DEFINE On(p) == {i \in S : activeSessions[i] /\ sessions[i].profiler = p}
<1>1. ActivityType /\ ActiveIsRegistered
  BY DEF SessionInv, TypeOK, ActivityType
<1>2. /\ activeSessions' = [i \in SessionIds |-> activeSessions[i] /\ i \notin S]
      /\ dataSet' = [p \in Profilers |-> dataSet[p] \ On(p)]
      /\ counts' = [i \in SessionIds |->
           IF i \in S /\ activeSessions[i] THEN counts[i] - 1 ELSE counts[i]]
      /\ opCounts' = [p \in Profilers |-> opCounts[p] - Cardinality(On(p))]
  BY DEF TurnOff
<1>3. \A j \in SessionIds : activeSessions'[j] <=> activeSessions[j] /\ j \notin S
  BY <1>1, <1>2 DEF ActivityType
<1>4. ASSUME NEW q \in Profilers
      PROVE  /\ dataSet'[q] = ActiveOf(q)' /\ dataSet'[q] \in SUBSET SessionIds
             /\ opCounts'[q] = Cardinality(dataSet'[q]) /\ opCounts'[q] \in Nat
  <2>1. /\ dataSet[q] = {j \in SessionIds : activeSessions[j] /\ sessions[j].profiler = q}
        /\ opCounts[q] = Cardinality(dataSet[q])
    BY <1>1 DEF ActiveIsRegistered, ActiveOf
  <2>2. dataSet'[q] = dataSet[q] \ On(q)
    BY <1>2
  <2>3. dataSet'[q] = ActiveOf(q)'
    BY <1>3, <2>1, <2>2 DEF ActiveOf
  <2>4. On(q) \subseteq dataSet[q] /\ dataSet[q] \cap On(q) = On(q)
    BY <2>1
  <2>5. IsFiniteSet(dataSet[q])
    BY <2>1, IdFacts
  <2>6. Cardinality(dataSet[q] \ On(q)) = Cardinality(dataSet[q]) - Cardinality(On(q))
    <3> HIDE DEF On
    <3> QED
      BY <2>4, <2>5, FS_Difference
  <2>7. opCounts'[q] = opCounts[q] - Cardinality(On(q))
    BY <1>2
  <2>8. opCounts'[q] = Cardinality(dataSet'[q])
    BY <2>1, <2>2, <2>6, <2>7
  <2>9. dataSet'[q] \in SUBSET SessionIds
    BY <2>3 DEF ActiveOf
  <2>10. opCounts'[q] \in Nat
    BY <2>8, <2>9, IdFacts
  <2> QED
    BY <2>3, <2>8, <2>9, <2>10
<1>5. \A j \in SessionIds : counts[j] = IF activeSessions[j] THEN 1 ELSE 0
  BY <1>1 DEF ActiveIsRegistered
<1>6. \A j \in SessionIds : counts'[j] = IF activeSessions'[j] THEN 1 ELSE 0
  BY <1>2, <1>3, <1>5
<1>7. activeSessions' \in [SessionIds -> BOOLEAN] /\ counts' \in [SessionIds -> Nat]
  <2>1. \A j \in SessionIds : counts'[j] \in Nat
    BY <1>6
  <2>2. counts' = [j \in SessionIds |-> counts'[j]]
    BY <1>2
  <2>3. counts' \in [SessionIds -> Nat]
    BY <2>1, <2>2
  <2> QED
    BY <1>1, <1>2, <2>3 DEF ActivityType
<1>8. dataSet' \in [Profilers -> SUBSET SessionIds] /\ opCounts' \in [Profilers -> Nat]
  <2>1. DOMAIN dataSet' = Profilers /\ dataSet' = [p \in Profilers |-> dataSet'[p]]
    BY <1>2
  <2>2. opCounts' = [p \in Profilers |-> opCounts'[p]]
    BY <1>2
  <2> QED
    BY <1>4, <2>1, <2>2
<1> QED
  BY <1>3, <1>4, <1>6, <1>7, <1>8 DEF ActiveIsRegistered, ActivityType

\* A step that changes neither sessions nor what is registered.
LEMMA QuietStep ==
  ASSUME SessionInv, UNCHANGED <<registry, activity>>,
         started' \in [Profilers -> BOOLEAN], contexts' \in [SessionIds -> Seq(Names)],
         raised' \in {"nothing", "Unknown profiler", "Context stack is empty",
                      "Context stack is not balanced"},
         crashed' \in BOOLEAN
  PROVE  SessionInv'
BY DEF SessionInv, TypeOK, ActiveIsLive, ActiveIsRegistered, IdsAreFresh, ActiveOf,
   Live, registry, activity

\* Activating a session, whether it is there or not.
LEMMA ActivateInv ==
  ASSUME SessionInv, NEW i \in SessionIds, Activate(i) PROVE SessionInv'
<1>0. TypeOK
  BY DEF SessionInv
<1>1. CASE activeSessions[i] /\ Nothing
  BY <1>0, <1>1, QuietStep DEF Nothing, TypeOK
<1>2. CASE ~activeSessions[i] /\ ~Live(i) /\ Crash
  BY <1>0, <1>2, QuietStep DEF Crash, TypeOK
<1>3. CASE /\ ~activeSessions[i] /\ Live(i)
           /\ TurnOn(i, sessions[i].profiler)
           /\ raised' = "nothing"
           /\ UNCHANGED <<registry, contexts, crashed>>
  <2> DEFINE p == sessions[i].profiler
  <2>1. sessions[i] \in [path : Paths, profiler : Profilers]
    BY <1>0, <1>3 DEF TypeOK, Live
  <2>2. p \in Profilers /\ UNCHANGED <<nextSessionId, sessionPaths, sessions>>
    BY <1>3, <2>1 DEF registry
  <2> HIDE DEF p
  <2>3. /\ ActivityType' /\ ActiveIsRegistered'
        /\ started' \in [Profilers -> BOOLEAN]
        /\ \A j \in SessionIds : activeSessions'[j] <=> activeSessions[j] \/ j = i
    <3>1. TurnOn(i, p) /\ sessions'[i].profiler = p
      BY <1>3, <2>2 DEF p
    <3>2. \A j \in SessionIds \ {i} : sessions'[j] = sessions[j]
      BY <2>2
    <3> QED
      BY <1>3, <2>2, <3>1, <3>2, TurnOnRegisters
  <2>4. TypeOK'
    BY <1>0, <1>3, <2>2, <2>3 DEF TypeOK, ActivityType
  <2>5. ActiveIsLive' /\ IdsAreFresh'
    BY <1>3, <2>2, <2>3 DEF SessionInv, ActiveIsLive, IdsAreFresh, Live
  <2> QED
    BY <2>3, <2>4, <2>5 DEF SessionInv
<1> QED
  BY <1>1, <1>2, <1>3 DEF Activate

\* A new session gets an id no one had.
LEMMA StartNewInv ==
  ASSUME SessionInv, NEW path \in Paths, NEW p, StartNew(path, p) PROVE SessionInv'
<1> DEFINE n == nextSessionId
<1>1. /\ sessionPaths[path] = NoId /\ n < MaxSessions /\ p \in Profilers
      /\ nextSessionId' = n + 1
      /\ sessionPaths' = [sessionPaths EXCEPT ![path] = n]
      /\ sessions' = [sessions EXCEPT ![n] = Session(path, p)]
      /\ TurnOn(n, p) /\ raised' = "nothing"
      /\ UNCHANGED <<contexts, crashed>>
  BY DEF StartNew
<1>2. TypeOK /\ ActiveIsLive /\ IdsAreFresh
  BY DEF SessionInv
<1>3. n \in SessionIds /\ n \in Nat /\ n + 1 \in 0 .. MaxSessions
  <2>1. nextSessionId < MaxSessions
    BY <1>1
  <2> QED
    BY <2>1, NextIdFacts
<1> HIDE DEF n
<1>4. Session(path, p) \in [path : Paths, profiler : Profilers]
  BY <1>1 DEF Session
<1>5. /\ sessions' \in [SessionIds -> [path : Paths, profiler : Profilers] \cup {Absent}]
      /\ sessionPaths' \in [Paths -> SessionIds \cup {NoId}]
      /\ nextSessionId' \in 0 .. MaxSessions
  BY <1>1, <1>2, <1>3, <1>4, BoundsAssumption DEF TypeOK
<1>6. /\ sessions'[n] = Session(path, p) /\ sessions'[n] # Absent
      /\ \A j \in SessionIds \ {n} : sessions'[j] = sessions[j]
      /\ sessionPaths'[path] = n
      /\ \A q \in Paths \ {path} : sessionPaths'[q] = sessionPaths[q]
  BY <1>1, <1>2, <1>3, <1>4, AbsentAssumption DEF TypeOK
<1>7. ~activeSessions[n]
  BY <1>2, <1>3 DEF IdsAreFresh, ActiveIsLive, n
<1>8. /\ ActivityType' /\ ActiveIsRegistered'
      /\ started' \in [Profilers -> BOOLEAN]
      /\ \A j \in SessionIds : activeSessions'[j] <=> activeSessions[j] \/ j = n
  <2>1. sessions'[n].profiler = p
    BY <1>6 DEF Session
  <2> QED
    BY <1>1, <1>3, <1>6, <1>7, <2>1, TurnOnRegisters
<1>9. TypeOK'
  BY <1>1, <1>2, <1>5, <1>8 DEF TypeOK, ActivityType
<1>10. ActiveIsLive'
  <2>1. ASSUME NEW j \in SessionIds, activeSessions'[j] PROVE sessions'[j] # Absent
    BY <1>2, <1>6, <1>8, <2>1 DEF ActiveIsLive, Live
  <2>2. ASSUME NEW j \in SessionIds, sessions'[j] # Absent
        PROVE  sessionPaths'[sessions'[j].path] = j
    <3>1. CASE j = n
      BY <1>6, <3>1 DEF Session
    <3>2. CASE j # n
      <4>1. sessions[j] # Absent /\ sessions'[j] = sessions[j]
        BY <1>6, <2>2, <3>2
      <4>2. sessions[j].path \in Paths
        BY <1>2, <4>1 DEF TypeOK
      <4>3. sessionPaths[sessions[j].path] = j
        BY <1>2, <4>1 DEF ActiveIsLive, Live
      <4>4. sessions[j].path # path
        BY <1>1, <4>3, NoIdAssumption, IdFacts
      <4> QED
        BY <1>6, <4>1, <4>2, <4>3, <4>4
    <3> QED
      BY <3>1, <3>2
  <2> QED
    BY <2>1, <2>2 DEF ActiveIsLive, Live
<1>11. IdsAreFresh'
  <2>1. ASSUME NEW j \in SessionIds, j >= n + 1 PROVE sessions'[j] = Absent
    <3>1. j # n /\ j >= n
      BY <1>3, <2>1, IdFacts
    <3> QED
      BY <1>2, <1>6, <3>1 DEF IdsAreFresh, Live, n
  <2>2. ASSUME NEW q \in Paths, sessionPaths'[q] # NoId PROVE sessionPaths'[q] < n + 1
    <3>1. CASE q = path
      BY <1>3, <1>6, <3>1
    <3>2. CASE q # path
      <4>1. sessionPaths[q] < n /\ sessionPaths'[q] = sessionPaths[q]
        BY <1>2, <1>6, <2>2, <3>2 DEF IdsAreFresh, n
      <4>2. sessionPaths[q] \in Nat
        BY <1>2, <1>6, <2>2, <3>2, IdFacts DEF TypeOK
      <4> QED
        BY <1>3, <4>1, <4>2
    <3> QED
      BY <3>1, <3>2
  <2> QED
    BY <1>1, <2>1, <2>2 DEF IdsAreFresh, Live
<1> QED
  BY <1>8, <1>9, <1>10, <1>11 DEF SessionInv

\* A failed start keeps an id and a path for a session that is never made.
LEMMA StartFailsInv ==
  ASSUME SessionInv, NEW path \in Paths, NEW b, StartFails(path, b)
  PROVE  SessionInv'
<1> DEFINE n == nextSessionId
<1>1. /\ sessionPaths[path] = NoId /\ n < MaxSessions
      /\ nextSessionId' = n + 1
      /\ sessionPaths' = [sessionPaths EXCEPT ![path] = n]
      /\ raised' = "Unknown profiler"
      /\ UNCHANGED <<sessions, activeSessions, counts, opCounts, dataSet, started,
                    contexts, crashed>>
  BY DEF StartFails, activity
<1>2. TypeOK /\ ActiveIsLive /\ ActiveIsRegistered /\ IdsAreFresh
  BY DEF SessionInv
<1>3. n \in SessionIds /\ n \in Nat /\ n + 1 \in 0 .. MaxSessions
  <2>1. nextSessionId < MaxSessions
    BY <1>1
  <2> QED
    BY <2>1, NextIdFacts
<1> HIDE DEF n
<1>4. /\ sessionPaths' \in [Paths -> SessionIds \cup {NoId}]
      /\ sessionPaths'[path] = n
      /\ \A q \in Paths \ {path} : sessionPaths'[q] = sessionPaths[q]
  BY <1>1, <1>2, <1>3 DEF TypeOK
<1>5. TypeOK'
  BY <1>1, <1>2, <1>3, <1>4 DEF TypeOK
<1>6. ActiveIsRegistered'
  BY <1>1, <1>2 DEF ActiveIsRegistered, ActiveOf
<1>7. ActiveIsLive'
  <2>1. ASSUME NEW j \in SessionIds, sessions[j] # Absent
        PROVE  sessionPaths'[sessions[j].path] = j
    <3>1. sessions[j].path \in Paths
      BY <1>2, <2>1 DEF TypeOK
    <3>2. sessionPaths[sessions[j].path] = j
      BY <1>2, <2>1 DEF ActiveIsLive, Live
    <3>3. sessions[j].path # path
      BY <1>1, <3>2, NoIdAssumption, IdFacts
    <3> QED
      BY <1>4, <3>1, <3>2, <3>3
  <2> QED
    BY <1>1, <1>2, <2>1 DEF ActiveIsLive, Live
<1>8. IdsAreFresh'
  <2>1. ASSUME NEW j \in SessionIds, j >= n + 1 PROVE sessions[j] = Absent
    <3>1. j >= n
      BY <1>3, <2>1, IdFacts
    <3> QED
      BY <1>2, <3>1 DEF IdsAreFresh, Live, n
  <2>2. ASSUME NEW q \in Paths, sessionPaths'[q] # NoId PROVE sessionPaths'[q] < n + 1
    <3>1. CASE q = path
      BY <1>3, <1>4, <3>1
    <3>2. CASE q # path
      <4>1. sessionPaths[q] < n /\ sessionPaths'[q] = sessionPaths[q]
        BY <1>2, <1>4, <2>2, <3>2 DEF IdsAreFresh, n
      <4>2. sessionPaths[q] \in Nat
        BY <1>2, <1>4, <2>2, <3>2, IdFacts DEF TypeOK
      <4> QED
        BY <1>3, <4>1, <4>2
    <3> QED
      BY <3>1, <3>2
  <2> QED
    BY <1>1, <2>1, <2>2 DEF IdsAreFresh, Live
<1> QED
  BY <1>5, <1>6, <1>7, <1>8 DEF SessionInv

LEMMA StartInv ==
  ASSUME SessionInv, NEW path \in Paths, NEW b \in Backends, Start(path, b)
  PROVE  SessionInv'
<1>1. CASE StartKnown(path)
  <2>1. sessionPaths \in [Paths -> SessionIds \cup {NoId}]
    BY DEF SessionInv, TypeOK
  <2>2. sessionPaths[path] # NoId /\ Activate(sessionPaths[path])
    BY <1>1 DEF StartKnown
  <2>3. sessionPaths[path] \in SessionIds
    BY <2>1, <2>2
  <2> QED
    BY <2>2, <2>3, ActivateInv
<1>2. CASE StartNew(path, b)
  BY <1>2, StartNewInv
<1>3. CASE StartFails(path, b)
  BY <1>3, StartFailsInv
<1> QED
  BY <1>1, <1>2, <1>3 DEF Start

LEMMA DeactivateInv ==
  ASSUME SessionInv, NEW i \in SessionIds, Deactivate(i) PROVE SessionInv'
<1>1. /\ TurnOff({i}) /\ raised' = "nothing"
      /\ UNCHANGED <<nextSessionId, sessionPaths, sessions, started, contexts, crashed>>
  BY DEF Deactivate, registry
<1>2. {i} \in SUBSET SessionIds
  OBVIOUS
<1>3. \A j \in SessionIds \ {i} : sessions'[j] = sessions[j]
  BY <1>1
<1>4. /\ ActivityType' /\ ActiveIsRegistered'
      /\ \A j \in SessionIds : activeSessions'[j] <=> activeSessions[j] /\ j \notin {i}
  BY <1>1, <1>2, <1>3, TurnOffUnregisters
<1>5. TypeOK'
  BY <1>1, <1>4 DEF SessionInv, TypeOK, ActivityType
<1>6. ActiveIsLive' /\ IdsAreFresh'
  BY <1>1, <1>4 DEF SessionInv, ActiveIsLive, IdsAreFresh, Live
<1> QED
  BY <1>4, <1>5, <1>6 DEF SessionInv

\* Finalizing some or all of the sessions.
LEMMA FinishInv ==
  ASSUME SessionInv, NEW S \in SUBSET SessionIds, \A i \in S : Live(i), Finish(S)
  PROVE  SessionInv'
<1>1. /\ TurnOff(S) /\ raised' = "nothing" /\ crashed' = crashed
      /\ started' = [p \in Profilers |->
                       started[p] /\ \A i \in S : sessions[i].profiler # p]
      /\ nextSessionId' = nextSessionId
      /\ sessions' = [i \in SessionIds |-> IF i \in S THEN Absent ELSE sessions[i]]
      /\ sessionPaths' = [path \in Paths |->
           IF \E i \in S : sessions[i].path = path THEN NoId ELSE sessionPaths[path]]
      /\ contexts' = [i \in SessionIds |-> IF i \in S THEN <<>> ELSE contexts[i]]
  BY DEF Finish, Remove
<1>2. TypeOK /\ ActiveIsLive /\ IdsAreFresh
  BY DEF SessionInv
<1>3. /\ \A j \in SessionIds \ S : sessions'[j] = sessions[j]
      /\ \A j \in S : sessions'[j] = Absent
  BY <1>1
<1>4. /\ ActivityType' /\ ActiveIsRegistered'
      /\ \A j \in SessionIds : activeSessions'[j] <=> activeSessions[j] /\ j \notin S
  BY <1>1, <1>3, TurnOffUnregisters
<1>5. started' \in [Profilers -> BOOLEAN]
  <2>1. started \in [Profilers -> BOOLEAN]
    BY <1>2 DEF TypeOK
  <2> QED
    BY <1>1, <2>1
<1>6. /\ sessions' \in [SessionIds -> [path : Paths, profiler : Profilers] \cup {Absent}]
      /\ sessionPaths' \in [Paths -> SessionIds \cup {NoId}]
  BY <1>1, <1>2 DEF TypeOK
<1>7. contexts' \in [SessionIds -> Seq(Names)]
  <2>1. <<>> \in Seq(Names) /\ contexts \in [SessionIds -> Seq(Names)]
    BY <1>2, EmptySeq DEF TypeOK
  <2> QED
    BY <1>1, <2>1
<1>8. TypeOK'
  BY <1>1, <1>2, <1>4, <1>5, <1>6, <1>7 DEF TypeOK, ActivityType
<1>9. ActiveIsLive'
  <2>1. ASSUME NEW j \in SessionIds, sessions'[j] # Absent
        PROVE  sessionPaths'[sessions'[j].path] = j
    <3>1. j \notin S /\ sessions'[j] = sessions[j]
      BY <1>3, <2>1
    <3>2. sessions[j].path \in Paths /\ sessionPaths[sessions[j].path] = j
      BY <1>2, <2>1, <3>1 DEF TypeOK, ActiveIsLive, Live
    <3>3. CASE \E i \in S : sessions[i].path = sessions[j].path
      <4>1. PICK i \in S : sessions[i].path = sessions[j].path
        BY <3>3
      <4>2. sessions[i] # Absent
        BY DEF Live
      <4> QED
        BY <1>2, <3>1, <3>2, <4>1, <4>2 DEF ActiveIsLive, Live
    <3>4. CASE ~ \E i \in S : sessions[i].path = sessions[j].path
      BY <1>1, <3>1, <3>2, <3>4
    <3> QED
      BY <3>3, <3>4
  <2>2. \A j \in SessionIds : activeSessions'[j] => sessions'[j] # Absent
    BY <1>2, <1>3, <1>4 DEF ActiveIsLive, Live
  <2> QED
    BY <2>1, <2>2 DEF ActiveIsLive, Live
<1>10. IdsAreFresh'
  BY <1>1, <1>2, <1>3 DEF IdsAreFresh, Live
<1> QED
  BY <1>4, <1>8, <1>9, <1>10 DEF SessionInv

LEMMA FinalizeInv ==
  ASSUME SessionInv, NEW i \in SessionIds, Finalize(i) PROVE SessionInv'
<1>1. CASE Live(i)
  <2>1. Finish({i}) /\ {i} \in SUBSET SessionIds /\ \A j \in {i} : Live(j)
    BY <1>1 DEF Finalize
  <2> QED
    BY <2>1, FinishInv
<1>2. CASE ~Live(i)
  <2>1. Nothing
    BY <1>2 DEF Finalize
  <2> QED
    BY <2>1, QuietStep DEF Nothing, SessionInv, TypeOK
<1> QED
  BY <1>1, <1>2

LEMMA FinalizeAllInv == ASSUME SessionInv, FinalizeAll PROVE SessionInv'
<1>1. Finish({i \in SessionIds : Live(i)})
  BY DEF FinalizeAll
<1> QED
  BY <1>1, FinishInv

\* Scopes touch nothing but the context stacks.
LEMMA EnterScopeInv ==
  ASSUME SessionInv, NEW name \in Names, EnterScope(name) PROVE SessionInv'
<1>1. contexts \in [SessionIds -> Seq(Names)]
  BY DEF SessionInv, TypeOK
<1>2. \A i \in SessionIds : Append(contexts[i], name) \in Seq(Names)
  BY <1>1, AppendProperties
<1>3. contexts' \in [SessionIds -> Seq(Names)]
  BY <1>1, <1>2 DEF EnterScope
<1> QED
  BY <1>3, QuietStep DEF EnterScope, SessionInv, TypeOK

LEMMA ExitScopeInv ==
  ASSUME SessionInv, NEW name \in Names, ExitScope(name) PROVE SessionInv'
<1>1. contexts \in [SessionIds -> Seq(Names)]
  BY DEF SessionInv, TypeOK
<1>2. ASSUME NEW S \in SUBSET Registered, \A i \in S : contexts[i] # <<>>, Pop(S)
      PROVE  contexts' \in [SessionIds -> Seq(Names)]
  <2>1. ASSUME NEW i \in SessionIds, contexts[i] # <<>>
        PROVE  SubSeq(contexts[i], 1, Len(contexts[i]) - 1) \in Seq(Names)
    <3>1. contexts[i] \in Seq(Names) /\ Len(contexts[i]) \in Nat \ {0}
      BY <1>1, <2>1
    <3> QED
      BY <3>1
  <2> QED
    BY <1>1, <1>2, <2>1 DEF Pop
<1>3. /\ UNCHANGED <<registry, activity, started, crashed>>
      /\ raised' \in {"nothing", "Context stack is empty",
                      "Context stack is not balanced"}
      /\ \E S \in SUBSET {i \in Registered : Balanced(i, name)} : Pop(S)
  BY DEF ExitScope
<1>4. PICK S \in SUBSET {i \in Registered : Balanced(i, name)} : Pop(S)
  BY <1>3
<1>5. contexts' \in [SessionIds -> Seq(Names)]
  BY <1>2, <1>4 DEF Balanced
<1> QED
  BY <1>3, <1>5, QuietStep DEF SessionInv, TypeOK

\* Every call keeps the invariant.
LEMMA NextInv == SessionInv /\ [Next]_vars => SessionInv'
<1> SUFFICES ASSUME SessionInv, [Next]_vars PROVE SessionInv'
  OBVIOUS
<1>1. CASE \E path \in Paths, backend \in Backends : Start(path, backend)
  BY <1>1, StartInv
<1>2. CASE \E i \in SessionIds : Activate(i) \/ Deactivate(i) \/ Finalize(i)
  BY <1>2, ActivateInv, DeactivateInv, FinalizeInv
<1>3. CASE FinalizeAll
  BY <1>3, FinalizeAllInv
<1>4. CASE \E name \in Names : EnterScope(name) \/ ExitScope(name)
  BY <1>4, EnterScopeInv, ExitScopeInv
<1>5. CASE UNCHANGED vars
  BY <1>5, QuietStep DEF vars, SessionInv, TypeOK
<1> QED
  BY <1>1, <1>2, <1>3, <1>4, <1>5 DEF Next

(***************************************************************************)
(* Whatever the sequence of calls, the manager's registrations agree with  *)
(* each other and with what is active (Session.cpp:78-145).               *)
(***************************************************************************)
THEOREM ManagerCorrect == Spec => []SessionInv
<1>1. Init => SessionInv
  BY InitInv
<1>2. SessionInv /\ [Next]_vars => SessionInv'
  BY NextInv
<1> QED
  BY <1>1, <1>2, PTL DEF Spec

\* No step brings back a session that is gone.
LEMMA GoneStaysGone ==
  ASSUME SessionInv, [Next]_vars, NEW i \in SessionIds, i < nextSessionId, ~Live(i)
  PROVE  sessions'[i] = Absent
<1>1. sessions \in [SessionIds -> [path : Paths, profiler : Profilers] \cup {Absent}]
  BY DEF SessionInv, TypeOK
<1>2. sessions[i] = Absent
  BY DEF Live
<1>3. CASE \E path \in Paths, backend \in Backends : Start(path, backend)
  <2>1. PICK path \in Paths, b \in Backends : Start(path, b)
    BY <1>3
  <2>2. CASE StartNew(path, b)
    <3>1. sessions' = [sessions EXCEPT ![nextSessionId] = Session(path, b)]
      BY <2>2 DEF StartNew
    <3>2. i # nextSessionId
      BY NextIdFacts
    <3> QED
      BY <1>1, <1>2, <3>1, <3>2
  <2>3. CASE StartFails(path, b) \/ StartKnown(path)
    BY <1>2, <2>3 DEF StartFails, StartKnown, Activate, Nothing, Crash, registry
  <2> QED
    BY <2>1, <2>2, <2>3 DEF Start
<1>4. CASE \E j \in SessionIds : Finalize(j)
  BY <1>2, <1>4 DEF Finalize, Finish, Remove, Nothing, registry
<1>5. CASE FinalizeAll
  BY <1>2, <1>5 DEF FinalizeAll, Finish, Remove
<1>6. CASE \/ \E j \in SessionIds : Activate(j) \/ Deactivate(j)
           \/ \E name \in Names : EnterScope(name) \/ ExitScope(name)
           \/ UNCHANGED vars
  BY <1>2, <1>6 DEF Activate, Deactivate, Nothing, Crash, EnterScope, ExitScope, vars,
    registry
<1> QED
  BY <1>3, <1>4, <1>5, <1>6 DEF Next

(***************************************************************************)
(* A finalized session never comes back and nothing is yielded to its data *)
(* any more, whatever is called after (Session.cpp:97-104, 123-145).      *)
(***************************************************************************)
THEOREM FinalizedIsFinal == Spec => FinalizedForGood
<1>1. ASSUME SessionInv, SessionInv', [Next]_vars, NEW i \in SessionIds,
             i < nextSessionId, ~Live(i)
      PROVE  ~Live(i)' /\ \A p \in Profilers : i \notin dataSet'[p]
  <2>1. sessions'[i] = Absent
    BY <1>1, GoneStaysGone
  <2>2. ~activeSessions'[i]
    BY <1>1, <2>1 DEF SessionInv, ActiveIsLive, Live
  <2>3. \A p \in Profilers : dataSet'[p] = ActiveOf(p)'
    BY <1>1 DEF SessionInv, ActiveIsRegistered
  <2> QED
    BY <2>1, <2>2, <2>3 DEF ActiveOf, Live
<1>2. SessionInv /\ SessionInv' /\ [Next]_vars =>
        [\A i \in SessionIds : i < nextSessionId /\ ~Live(i) =>
           /\ ~Live(i)'
           /\ \A p \in Profilers : i \notin dataSet'[p]]_vars
  BY <1>1
<1> QED
  BY <1>2, ManagerCorrect, PTL DEF Spec, FinalizedForGood

\* Finishing sessions leaves the stacks of the others as they are.
LEMMA FinishKeepsContexts ==
  ASSUME SessionInv, NEW S \in SUBSET SessionIds, Finish(S), NEW i \in SessionIds
  PROVE  contexts'[i] = contexts[i] \/ sessions'[i] = Absent
<1>1. Remove(S)
  BY DEF Finish
<1>2. CASE i \in S
  BY <1>1, <1>2 DEF Remove
<1>3. CASE i \notin S
  BY <1>1, <1>3 DEF Remove
<1> QED
  BY <1>2, <1>3

\* A step on the contexts of a session that is not active is its removal.
LEMMA SkippedStep ==
  ASSUME SessionInv, [Next]_vars, NEW i \in SessionIds, ~activeSessions[i]
  PROVE  contexts'[i] = contexts[i] \/ sessions'[i] = Absent
<1>1. counts[i] = 0
  BY DEF SessionInv, ActiveIsRegistered
<1>2. i \notin Registered
  BY <1>1 DEF Registered
<1>3. CASE \E path \in Paths, backend \in Backends : Start(path, backend)
  BY <1>3 DEF Start, StartKnown, StartNew, StartFails, Activate, Nothing, Crash, registry
<1>4. ASSUME NEW j \in SessionIds, Activate(j) \/ Deactivate(j)
      PROVE  contexts'[i] = contexts[i]
  BY <1>4 DEF Activate, Deactivate, Nothing, Crash
<1>5. ASSUME NEW j \in SessionIds, Finalize(j)
      PROVE  contexts'[i] = contexts[i] \/ sessions'[i] = Absent
  BY <1>5, FinishKeepsContexts DEF Finalize, Nothing
<1>6. CASE FinalizeAll
  <2>1. {j \in SessionIds : Live(j)} \in SUBSET SessionIds
    OBVIOUS
  <2> QED
    BY <1>6, <2>1, FinishKeepsContexts DEF FinalizeAll
<1>7. ASSUME NEW name \in Names, EnterScope(name)
      PROVE  contexts'[i] = contexts[i]
  BY <1>2, <1>7 DEF EnterScope
<1>8. ASSUME NEW name \in Names, ExitScope(name)
      PROVE  contexts'[i] = contexts[i]
  <2>1. PICK T \in SUBSET Registered : Pop(T)
    BY <1>8 DEF ExitScope
  <2> QED
    BY <1>2, <2>1 DEF Pop
<1>9. CASE UNCHANGED vars
  BY <1>9 DEF vars
<1> QED
  BY <1>3, <1>4, <1>5, <1>6, <1>7, <1>8, <1>9 DEF Next

(***************************************************************************)
(* A deactivated session's context stack only changes when the session is  *)
(* finalized (Session.cpp:87-95, 147-165).                                 *)
(***************************************************************************)
THEOREM SkippedStaysSkipped == Spec => SkippedIsSkipped
<1>1. SessionInv /\ [Next]_vars =>
        [\A i \in SessionIds : ~activeSessions[i] =>
           contexts'[i] = contexts[i] \/ ~Live(i)']_vars
  BY SkippedStep DEF Live
<1> QED
  BY <1>1, ManagerCorrect, PTL DEF Spec, SkippedIsSkipped
-----------------------------------------------------------------------------
(* Programs that keep to the rules: their stacks of scopes. *)

BlockType == [style : Styles, name : Names, entered : BOOLEAN]

\* A scope opened by enter_scope while profiling was on.
CallAt(s, m) == s[m].style = "call" /\ s[m].entered

\* idx leads from each name of _local.scopes to the scope it was put there for.
OpenedBy(idx, s, l) ==
  /\ idx \in [1 .. Len(l) -> 1 .. Len(s)]
  /\ \A k \in 1 .. Len(l) : CallAt(s, idx[k]) /\ s[idx[k]].name = l[k]
  /\ \A j, k \in 1 .. Len(l) : j < k => idx[j] < idx[k]
  /\ \A m \in 1 .. Len(s) : CallAt(s, m) => \E k \in 1 .. Len(l) : idx[k] = m

Opened(s, l) == \E idx \in [1 .. Len(l) -> 1 .. Len(s)] : OpenedBy(idx, s, l)

Front(s) == SubSeq(s, 1, Len(s) - 1)

LEMMA FrontFacts ==
  ASSUME NEW S, NEW s \in Seq(S), s # <<>>
  PROVE  /\ Len(s) \in Nat \ {0} /\ Len(s) \in 1 .. Len(s) /\ s[Len(s)] \in S
         /\ Front(s) \in Seq(S) /\ Len(Front(s)) = Len(s) - 1
         /\ \A k \in 1 .. Len(s) - 1 : k \in 1 .. Len(s) /\ Front(s)[k] = s[k]
<1>1. Len(s) \in Nat \ {0}
  BY EmptySeq
<1>2. \A k \in 1 .. Len(s) - 1 : k \in 1 .. Len(s) /\ s[k] \in S
  BY <1>1
<1>3. PICK n : n = Len(s) - 1
  OBVIOUS
<1>4. n \in Int /\ n >= 0 /\ 1 \in Int /\ \A k \in 1 .. n : s[k] \in S
  BY <1>1, <1>2, <1>3
<1>5. /\ SubSeq(s, 1, n) \in Seq(S)
      /\ Len(SubSeq(s, 1, n)) = IF 1 <= n THEN n - 1 + 1 ELSE 0
      /\ \A i \in 1 .. n - 1 + 1 : SubSeq(s, 1, n)[i] = s[1 + i - 1]
  BY <1>4, SubSeqProperties
<1>6. Len(SubSeq(s, 1, n)) = n /\ \A i \in 1 .. n : SubSeq(s, 1, n)[i] = s[i]
  BY <1>4, <1>5
<1>7. Len(s) \in 1 .. Len(s) /\ s[Len(s)] \in S
  BY <1>1
<1> QED
  BY <1>1, <1>2, <1>3, <1>5, <1>6, <1>7 DEF Front

LEMMA NamesType ==
  ASSUME NEW s \in Seq(BlockType)
  PROVE  /\ NamesOf(s) \in Seq(Names) /\ Len(NamesOf(s)) = Len(s)
         /\ \A k \in 1 .. Len(s) : NamesOf(s)[k] = s[k].name
<1>1. Len(s) \in Nat /\ \A k \in 1 .. Len(s) : s[k] \in BlockType
  OBVIOUS
<1>2. \A k \in 1 .. Len(s) : s[k].name \in Names
  BY <1>1 DEF BlockType
<1>3. NamesOf(s) \in [1 .. Len(s) -> Names]
  BY <1>2 DEF NamesOf
<1>4. NamesOf(s) \in Seq(Names) /\ Len(NamesOf(s)) = Len(s)
  BY <1>1, <1>3
<1> QED
  BY <1>4 DEF NamesOf

LEMMA NamesOfEmpty == NamesOf(<<>>) = <<>>
<1>1. <<>> \in Seq(BlockType) /\ Len(<<>>) = 0
  OBVIOUS
<1>2. NamesOf(<<>>) \in Seq(Names) /\ Len(NamesOf(<<>>)) = 0
  BY <1>1, NamesType
<1> QED
  BY <1>2, EmptySeq

LEMMA NamesOfAppend ==
  ASSUME NEW s \in Seq(BlockType), NEW b \in BlockType
  PROVE  NamesOf(Append(s, b)) = Append(NamesOf(s), b.name)
<1>1. b.name \in Names
  BY DEF BlockType
<1>2. PICK t, u : t = Append(s, b) /\ u = Append(NamesOf(s), b.name)
  OBVIOUS
<1>3. /\ t \in Seq(BlockType) /\ Len(t) = Len(s) + 1 /\ Len(s) \in Nat
      /\ t[Len(s) + 1] = b /\ \A k \in 1 .. Len(s) : t[k] = s[k]
  BY <1>2, AppendProperties
<1>4. /\ u \in Seq(Names) /\ Len(u) = Len(s) + 1
      /\ u[Len(s) + 1] = b.name /\ \A k \in 1 .. Len(s) : u[k] = s[k].name
  BY <1>1, <1>2, NamesType, AppendProperties
<1>5. /\ NamesOf(t) \in Seq(Names) /\ Len(NamesOf(t)) = Len(s) + 1
      /\ \A k \in 1 .. Len(s) + 1 : NamesOf(t)[k] = t[k].name
  BY <1>3, NamesType
<1>6. ASSUME NEW k \in 1 .. Len(s) + 1 PROVE NamesOf(t)[k] = u[k]
  <2>1. CASE k = Len(s) + 1
    BY <1>3, <1>4, <1>5, <2>1
  <2>2. CASE k # Len(s) + 1
    <3>1. k \in 1 .. Len(s)
      BY <1>3, <2>2
    <3> QED
      BY <1>3, <1>4, <1>5, <3>1
  <2> QED
    BY <2>1, <2>2
<1>7. NamesOf(t) = u
  BY <1>4, <1>5, <1>6, SeqEqual
<1> QED
  BY <1>2, <1>7

LEMMA NamesOfFront ==
  ASSUME NEW s \in Seq(BlockType), s # <<>>
  PROVE  /\ NamesOf(s) # <<>> /\ NamesOf(s)[Len(NamesOf(s))] = s[Len(s)].name
         /\ NamesOf(Front(s)) = Front(NamesOf(s))
<1>1. /\ Len(s) \in Nat \ {0} /\ Len(s) \in 1 .. Len(s)
      /\ Front(s) \in Seq(BlockType) /\ Len(Front(s)) = Len(s) - 1
      /\ \A k \in 1 .. Len(s) - 1 : k \in 1 .. Len(s) /\ Front(s)[k] = s[k]
  BY FrontFacts
<1>2. PICK v : v = NamesOf(s)
  OBVIOUS
<1>3. v \in Seq(Names) /\ Len(v) = Len(s) /\ \A k \in 1 .. Len(s) : v[k] = s[k].name
  BY <1>2, NamesType
<1>4. v # <<>> /\ v[Len(v)] = s[Len(s)].name
  BY <1>1, <1>3, EmptySeq
<1>5. /\ Front(v) \in Seq(Names) /\ Len(Front(v)) = Len(s) - 1
      /\ \A k \in 1 .. Len(s) - 1 : Front(v)[k] = v[k]
  BY <1>3, <1>4, FrontFacts
<1>6. /\ NamesOf(Front(s)) \in Seq(Names) /\ Len(NamesOf(Front(s))) = Len(s) - 1
      /\ \A k \in 1 .. Len(s) - 1 : NamesOf(Front(s))[k] = Front(s)[k].name
  BY <1>1, NamesType
<1>7. \A k \in 1 .. Len(s) - 1 : NamesOf(Front(s))[k] = Front(v)[k]
  BY <1>1, <1>3, <1>5, <1>6
<1>8. NamesOf(Front(s)) = Front(v)
  BY <1>5, <1>6, <1>7, SeqEqual
<1> QED
  BY <1>2, <1>4, <1>8

LEMMA OpenedEmpty == Opened(<<>>, <<>>)
<1>1. Len(<<>>) = 0 /\ 1 .. 0 = {}
  OBVIOUS
<1>2. PICK idx : idx \in [1 .. 0 -> 1 .. 0]
  <2>1. [k \in 1 .. 0 |-> k] \in [1 .. 0 -> 1 .. 0]
    OBVIOUS
  <2> QED
    BY <2>1
<1>3. OpenedBy(idx, <<>>, <<>>)
  BY <1>1, <1>2 DEF OpenedBy
<1> QED
  BY <1>1, <1>2, <1>3 DEF Opened

LEMMA OpenedOnEnter ==
  ASSUME NEW s \in Seq(BlockType), NEW l \in Seq(Names), NEW b \in BlockType, Opened(s, l)
  PROVE  /\ b.style = "call" /\ b.entered => Opened(Append(s, b), Append(l, b.name))
         /\ ~(b.style = "call" /\ b.entered) => Opened(Append(s, b), l)
<1>1. PICK idx : OpenedBy(idx, s, l)
  BY DEF Opened
<1>2. PICK t, n, m : t = Append(s, b) /\ n = Len(s) /\ m = Len(l)
  OBVIOUS
<1>3. /\ n \in Nat /\ Len(t) = n + 1 /\ t[n + 1] = b /\ \A k \in 1 .. n : t[k] = s[k]
  BY <1>2, AppendProperties
<1>4. /\ m \in Nat /\ idx \in [1 .. m -> 1 .. n]
      /\ \A k \in 1 .. m : idx[k] \in 1 .. n /\ CallAt(s, idx[k]) /\ s[idx[k]].name = l[k]
      /\ \A j, k \in 1 .. m : j < k => idx[j] < idx[k]
      /\ \A q \in 1 .. n : CallAt(s, q) => \E k \in 1 .. m : idx[k] = q
  BY <1>1, <1>2 DEF OpenedBy
<1>5. \A q \in 1 .. n : q \in 1 .. n + 1 /\ (CallAt(t, q) <=> CallAt(s, q))
  BY <1>3 DEF CallAt
<1>6. \A q \in 1 .. n + 1 : q = n + 1 \/ q \in 1 .. n
  BY <1>3
<1>7. CallAt(t, n + 1) <=> b.style = "call" /\ b.entered
  BY <1>3 DEF CallAt
<1>8. ASSUME b.style = "call", b.entered PROVE Opened(t, Append(l, b.name))
  <2>1. PICK u : u = Append(l, b.name)
    OBVIOUS
  <2>2. /\ u \in Seq(Names) /\ Len(u) = m + 1 /\ u[m + 1] = b.name
        /\ \A k \in 1 .. m : u[k] = l[k]
    <3>1. b.name \in Names
      BY DEF BlockType
    <3> QED
      BY <1>2, <2>1, <3>1, AppendProperties
  <2>3. PICK jdx : jdx = [k \in 1 .. m + 1 |-> IF k = m + 1 THEN n + 1 ELSE idx[k]]
    OBVIOUS
  <2>4. \A k \in 1 .. m + 1 : k = m + 1 \/ k \in 1 .. m
    BY <1>4
  <2>5. jdx[m + 1] = n + 1 /\ m + 1 \in 1 .. m + 1 /\ n + 1 \in 1 .. n + 1
    BY <1>3, <1>4, <2>3
  <2>6. \A k \in 1 .. m : jdx[k] = idx[k] /\ k \in 1 .. m + 1
    BY <1>4, <2>3
  <2>7. jdx \in [1 .. m + 1 -> 1 .. n + 1]
    BY <1>4, <1>5, <2>3, <2>4, <2>5
  <2>8. \A k \in 1 .. m + 1 : CallAt(t, jdx[k]) /\ t[jdx[k]].name = u[k]
    <3> TAKE k \in 1 .. m + 1
    <3>1. CASE k = m + 1
      BY <1>3, <1>7, <1>8, <2>2, <2>5, <3>1
    <3>2. CASE k \in 1 .. m
      <4>1. PICK q : q = idx[k] /\ q = jdx[k]
        BY <2>6, <3>2
      <4>2. q \in 1 .. n /\ CallAt(s, q) /\ s[q].name = l[k]
        BY <1>4, <3>2, <4>1
      <4>3. CallAt(t, q) /\ t[q] = s[q] /\ u[k] = l[k]
        BY <1>3, <1>5, <2>2, <3>2, <4>2
      <4> QED
        BY <4>1, <4>2, <4>3
    <3> QED
      BY <2>4, <3>1, <3>2
  <2>9. \A j, k \in 1 .. m + 1 : j < k => jdx[j] < jdx[k]
    <3> SUFFICES ASSUME NEW j \in 1 .. m + 1, NEW k \in 1 .. m + 1, j < k
                 PROVE  jdx[j] < jdx[k]
      OBVIOUS
    <3>1. j \in 1 .. m
      BY <1>4
    <3>2. CASE k = m + 1
      BY <1>3, <1>4, <2>5, <2>6, <3>1, <3>2
    <3>3. CASE k \in 1 .. m
      BY <1>4, <2>6, <3>1, <3>3
    <3> QED
      BY <2>4, <3>2, <3>3
  <2>10. \A q \in 1 .. n + 1 : CallAt(t, q) => \E k \in 1 .. m + 1 : jdx[k] = q
    BY <1>4, <1>5, <1>6, <2>5, <2>6
  <2>11. OpenedBy(jdx, t, u)
    BY <1>3, <2>2, <2>7, <2>8, <2>9, <2>10 DEF OpenedBy
  <2> QED
    BY <1>3, <2>1, <2>2, <2>7, <2>11 DEF Opened
<1>9. ASSUME ~(b.style = "call" /\ b.entered) PROVE Opened(t, l)
  <2>1. idx \in [1 .. m -> 1 .. n + 1]
    BY <1>4, <1>5
  <2>2. \A k \in 1 .. m : CallAt(t, idx[k]) /\ t[idx[k]].name = l[k]
    BY <1>3, <1>4, <1>5
  <2>3. \A q \in 1 .. n + 1 : CallAt(t, q) => \E k \in 1 .. m : idx[k] = q
    BY <1>4, <1>5, <1>6, <1>7, <1>9
  <2>4. OpenedBy(idx, t, l)
    BY <1>2, <1>3, <1>4, <2>1, <2>2, <2>3 DEF OpenedBy
  <2> QED
    BY <1>2, <1>3, <2>1, <2>4 DEF Opened
<1> QED
  BY <1>2, <1>8, <1>9

LEMMA OpenedOnExit ==
  ASSUME NEW s \in Seq(BlockType), NEW l \in Seq(Names), s # <<>>, Opened(s, l)
  PROVE  /\ CallAt(s, Len(s)) =>
              l # <<>> /\ l[Len(l)] = s[Len(s)].name /\ Opened(Front(s), Front(l))
         /\ ~CallAt(s, Len(s)) => Opened(Front(s), l)
<1>1. PICK idx : OpenedBy(idx, s, l)
  BY DEF Opened
<1>2. PICK t, n, m : t = Front(s) /\ n = Len(s) /\ m = Len(l)
  OBVIOUS
<1>3. /\ n \in Nat \ {0} /\ n \in 1 .. n /\ Len(t) = n - 1
      /\ \A k \in 1 .. n - 1 : k \in 1 .. n /\ t[k] = s[k]
  BY <1>2, FrontFacts
<1>4. /\ m \in Nat /\ idx \in [1 .. m -> 1 .. n]
      /\ \A k \in 1 .. m : idx[k] \in 1 .. n /\ CallAt(s, idx[k]) /\ s[idx[k]].name = l[k]
      /\ \A j, k \in 1 .. m : j < k => idx[j] < idx[k]
      /\ \A q \in 1 .. n : CallAt(s, q) => \E k \in 1 .. m : idx[k] = q
  <2>1. m \in Nat
    BY <1>2
  <2>2. idx \in [1 .. m -> 1 .. n]
    BY <1>1, <1>2 DEF OpenedBy
  <2>3. \A k \in 1 .. m : CallAt(s, idx[k]) /\ s[idx[k]].name = l[k]
    BY <1>1, <1>2 DEF OpenedBy
  <2>4. \A q \in 1 .. n : CallAt(s, q) => \E k \in 1 .. m : idx[k] = q
    BY <1>1, <1>2 DEF OpenedBy
  <2>5. \A j, k \in 1 .. m : j < k => idx[j] < idx[k]
    BY <1>1, <1>2 DEF OpenedBy
  <2> QED
    BY <2>1, <2>2, <2>3, <2>4, <2>5
<1>5. \A q \in 1 .. n - 1 : CallAt(t, q) <=> CallAt(s, q)
  BY <1>3 DEF CallAt
<1>6. \A q \in 1 .. n : q = n \/ q \in 1 .. n - 1
  BY <1>3
<1>7. ASSUME CallAt(s, n)
      PROVE  l # <<>> /\ l[m] = s[n].name /\ Opened(t, Front(l))
  <2>1. PICK k \in 1 .. m : idx[k] = n
    BY <1>3, <1>4, <1>7
  <2>2. k = m
    <3> SUFFICES ASSUME k < m PROVE FALSE
      BY <1>4
    <3>1. m \in 1 .. m /\ idx[m] \in 1 .. n
      BY <1>4, <2>1
    <3>2. idx[k] < idx[m]
      BY <1>4, <3>1
    <3> QED
      BY <1>3, <2>1, <3>1, <3>2
  <2>3. l # <<>> /\ m \in Nat \ {0} /\ m \in 1 .. m
    BY <1>2, <1>4, <2>1, <2>2, EmptySeq
  <2>4. l[m] = s[n].name /\ idx[m] = n
    BY <1>4, <2>1, <2>2
  <2>5. PICK u : u = Front(l)
    OBVIOUS
  <2>6. Len(u) = m - 1 /\ \A j \in 1 .. m - 1 : j \in 1 .. m /\ u[j] = l[j]
    BY <1>2, <2>3, <2>5, FrontFacts
  <2>7. ASSUME NEW j \in 1 .. m - 1
        PROVE  j \in 1 .. m /\ j < m /\ idx[j] \in 1 .. n - 1
    <3>1. j \in 1 .. m /\ j < m
      BY <2>3
    <3>2. idx[j] < n
      BY <1>4, <2>3, <2>4, <3>1
    <3> QED
      BY <1>3, <1>4, <3>1, <3>2
  <2>8. PICK jdx : jdx = [j \in 1 .. m - 1 |-> idx[j]]
    OBVIOUS
  <2>9. jdx \in [1 .. m - 1 -> 1 .. n - 1] /\ \A j \in 1 .. m - 1 : jdx[j] = idx[j]
    BY <2>7, <2>8
  <2>10. \A j \in 1 .. m - 1 : CallAt(t, jdx[j]) /\ t[jdx[j]].name = u[j]
    <3> TAKE j \in 1 .. m - 1
    <3>1. PICK q : q = idx[j] /\ q = jdx[j]
      BY <2>9
    <3>2. q \in 1 .. n - 1 /\ j \in 1 .. m
      BY <2>7, <3>1
    <3>3. CallAt(s, q) /\ s[q].name = l[j]
      BY <1>4, <3>1, <3>2
    <3>4. CallAt(t, q) /\ t[q] = s[q] /\ u[j] = l[j]
      BY <1>3, <1>5, <2>6, <3>2, <3>3
    <3> QED
      BY <3>1, <3>3, <3>4
  <2>11. \A i, j \in 1 .. m - 1 : i < j => jdx[i] < jdx[j]
    BY <1>4, <2>7, <2>9
  <2>12. \A q \in 1 .. n - 1 : CallAt(t, q) => \E j \in 1 .. m - 1 : jdx[j] = q
    <3> SUFFICES ASSUME NEW q \in 1 .. n - 1, CallAt(t, q)
                 PROVE  \E j \in 1 .. m - 1 : jdx[j] = q
      OBVIOUS
    <3>1. q \in 1 .. n /\ q # n /\ CallAt(s, q)
      BY <1>3, <1>5
    <3>2. PICK j \in 1 .. m : idx[j] = q
      BY <1>4, <3>1
    <3>3. j # m
      BY <2>4, <3>1, <3>2
    <3>4. j \in 1 .. m - 1
      BY <1>4, <3>2, <3>3
    <3> QED
      BY <2>9, <3>2, <3>4
  <2>13. OpenedBy(jdx, t, u)
    BY <1>3, <2>6, <2>9, <2>10, <2>11, <2>12 DEF OpenedBy
  <2> QED
    BY <1>3, <2>3, <2>4, <2>5, <2>6, <2>9, <2>13 DEF Opened
<1>8. ASSUME ~CallAt(s, n) PROVE Opened(t, l)
  <2>1. \A k \in 1 .. m : idx[k] # n
    BY <1>4, <1>8
  <2>2. \A k \in 1 .. m : idx[k] \in 1 .. n - 1
    BY <1>4, <1>6, <2>1
  <2>3. idx \in [1 .. m -> 1 .. n - 1]
    BY <1>4, <2>2
  <2>4. \A k \in 1 .. m : CallAt(t, idx[k]) /\ t[idx[k]].name = l[k]
    BY <1>3, <1>4, <1>5, <2>2
  <2>5. \A q \in 1 .. n - 1 : CallAt(t, q) => \E k \in 1 .. m : idx[k] = q
    BY <1>3, <1>4, <1>5
  <2>6. OpenedBy(idx, t, l)
    BY <1>2, <1>3, <1>4, <2>3, <2>4, <2>5 DEF OpenedBy
  <2> QED
    BY <1>2, <1>3, <2>3, <2>6 DEF Opened
<1> QED
  BY <1>2, <1>7, <1>8
-----------------------------------------------------------------------------
(* Programs that keep to the rules: the invariant. *)

ApiTypeOK ==
  /\ profilingOn \in BOOLEAN
  /\ blocks \in [Threads -> Seq(BlockType)]
  /\ local \in [Threads -> Seq(Names)]

NothingRaised == ~crashed /\ raised = "nothing" /\ pyRaised = "nothing"

\* A path leads to a session, and to the one that has it.
PathsLeadToSessions ==
  \A path \in Paths : sessionPaths[path] # NoId =>
    /\ Live(sessionPaths[path])
    /\ sessions[sessionPaths[path]].path = path

ProfiledWhileLive ==
  /\ \A i \in SessionIds : Live(i) => profilingOn
  /\ \A i \in SessionIds : activeSessions[i] => started[sessions[i].profiler]

OneThreadAtATime == \A t \in Threads : blocks[t] # <<>> => Alone(t)

\* Profiling is not turned on or off while a scope is open.
ScopesKnowProfiling ==
  \A t \in Threads : \A k \in 1 .. Len(blocks[t]) : blocks[t][k].entered = profilingOn

\* The stack of an active session is the program's; any other stack is empty.
ContextsFollow ==
  \A i \in SessionIds :
    /\ ~activeSessions[i] => contexts[i] = <<>>
    /\ activeSessions[i] => \A t \in Threads : Alone(t) => contexts[i] = NamesOf(blocks[t])

LocalsFollow == \A t \in Threads : Opened(blocks[t], local[t])

ProgramInv ==
  /\ NothingRaised
  /\ PathsLeadToSessions
  /\ ProfiledWhileLive
  /\ OneThreadAtATime
  /\ ScopesKnowProfiling
  /\ ContextsFollow
  /\ LocalsFollow

ApiInv == SessionInv /\ ApiTypeOK /\ (Lawful => ProgramInv)

LEMMA RegisteredIsActive ==
  ASSUME SessionInv, NEW i \in SessionIds PROVE i \in Registered <=> activeSessions[i]
<1>1. counts[i] = IF activeSessions[i] THEN 1 ELSE 0
  BY DEF SessionInv, ActiveIsRegistered
<1>2. activeSessions[i] \in BOOLEAN
  BY DEF SessionInv, TypeOK
<1> QED
  BY <1>1, <1>2 DEF Registered

LEMMA InnermostType ==
  ASSUME ApiTypeOK, NEW t \in Threads, blocks[t] # <<>>
  PROVE  /\ blocks[t] \in Seq(BlockType) /\ Innermost(t) \in BlockType
         /\ Innermost(t).style \in Styles /\ Innermost(t).name \in Names
         /\ Innermost(t).entered \in BOOLEAN
<1>1. blocks[t] \in Seq(BlockType)
  BY DEF ApiTypeOK
<1>2. Innermost(t) \in BlockType
  BY <1>1, FrontFacts DEF Innermost
<1> QED
  BY <1>1, <1>2 DEF BlockType

LEMMA NothingInv == ASSUME SessionInv, Nothing PROVE SessionInv'
  BY QuietStep DEF Nothing, SessionInv, TypeOK

\* Whatever the program does, the manager keeps its own invariant.
LEMMA ApiManagerInv ==
  ASSUME SessionInv, ApiTypeOK, PyNext PROVE SessionInv' /\ ApiTypeOK'
<1>1. CASE \E path \in Paths, backend \in Backends : PyStart(path, backend)
  BY <1>1, StartInv DEF PyStart, ApiTypeOK
<1>2. CASE \E i \in SessionIds : PyActivate(i) \/ PyDeactivate(i) \/ PyFinalize(i)
  BY <1>2, ActivateInv, DeactivateInv, FinalizeInv
  DEF PyActivate, PyDeactivate, PyFinalize, ApiTypeOK
<1>3. CASE PyFinalizeAll
  BY <1>3, FinalizeAllInv DEF PyFinalizeAll, ApiTypeOK
<1>4. CASE \E t \in Threads, style \in Styles, name \in Names : Enter(t, style, name)
  <2>1. PICK t \in Threads, style \in Styles, name \in Names : Enter(t, style, name)
    BY <1>4
  <2>2. SessionInv'
    BY <2>1, NothingInv, EnterScopeInv DEF Enter
  <2>3. Block(style, name) \in BlockType
    BY DEF Block, BlockType, ApiTypeOK
  <2>4. Append(blocks[t], Block(style, name)) \in Seq(BlockType) /\ Append(local[t], name) \in Seq(Names)
    BY <2>3, AppendProperties DEF ApiTypeOK
  <2>5. blocks' = [blocks EXCEPT ![t] = Append(blocks[t], Block(style, name))]
    BY <2>1 DEF Enter
  <2>6. local' = [local EXCEPT ![t] = Append(local[t], name)] \/ local' = local
    BY <2>1 DEF Enter
  <2>7. blocks' \in [Threads -> Seq(BlockType)]
    BY <2>4, <2>5 DEF ApiTypeOK
  <2>8. local' \in [Threads -> Seq(Names)]
    BY <2>4, <2>6 DEF ApiTypeOK
  <2>9. profilingOn' \in BOOLEAN
    BY <2>1 DEF Enter, ApiTypeOK
  <2> QED
    BY <2>2, <2>7, <2>8, <2>9 DEF ApiTypeOK
<1>5. CASE \E t \in Threads : Exit(t)
  <2>1. PICK t \in Threads : Exit(t)
    BY <1>5
  <2>2. blocks[t] # <<>> /\ blocks' = [blocks EXCEPT ![t] = Front(blocks[t])] /\ UNCHANGED profilingOn
    BY <2>1 DEF Exit, Front
  <2>3. blocks[t] \in Seq(BlockType) /\ local[t] \in Seq(Names)
    BY DEF ApiTypeOK
  <2>4. Front(blocks[t]) \in Seq(BlockType)
    BY <2>2, <2>3, FrontFacts
  <2>5. blocks' \in [Threads -> Seq(BlockType)]
    BY <2>2, <2>4 DEF ApiTypeOK
  <2>6. CASE ExitWith(t)
    <3>1. SessionInv'
      BY <2>2, <2>6, NothingInv, ExitScopeInv, InnermostType DEF ExitWith
    <3> QED
      BY <2>2, <2>5, <2>6, <3>1 DEF ExitWith, ApiTypeOK
  <2>7. CASE ExitCall(t)
    <3>1. CASE UNCHANGED local /\ Nothing
      BY <2>2, <2>5, <3>1, NothingInv DEF ApiTypeOK
    <3>2. CASE /\ local[t] # <<>>
               /\ ExitScope(local[t][Len(local[t])])
               /\ local' = [local EXCEPT ![t] = SubSeq(@, 1, Len(@) - 1)]
      <4>1. local[t][Len(local[t])] \in Names /\ Front(local[t]) \in Seq(Names)
        BY <2>3, <3>2, FrontFacts
      <4>2. local' = [local EXCEPT ![t] = Front(local[t])]
        BY <3>2 DEF Front
      <4>3. local' \in [Threads -> Seq(Names)]
        BY <4>1, <4>2 DEF ApiTypeOK
      <4>4. SessionInv'
        BY <3>2, <4>1, ExitScopeInv
      <4> QED
        BY <2>2, <2>5, <4>3, <4>4 DEF ApiTypeOK
    <3> QED
      BY <2>7, <3>1, <3>2 DEF ExitCall
  <2> QED
    BY <2>1, <2>6, <2>7 DEF Exit
<1> QED
  BY <1>1, <1>2, <1>3, <1>4, <1>5 DEF PyNext

LEMMA NoStacksOutside ==
  ASSUME ProgramInv, \A t \in Threads : blocks[t] = <<>>, NEW i \in SessionIds
  PROVE  contexts[i] = <<>>
<1>1. PICK t \in Threads : TRUE
  BY ThreadsAssumption
<1>2. Alone(t) /\ NamesOf(blocks[t]) = <<>>
  BY NamesOfEmpty DEF Alone
<1> QED
  BY <1>2 DEF ProgramInv, ContextsFollow

\* A call outside scopes that leaves all the stacks empty.
LEMMA OutsideStep ==
  ASSUME ProgramInv, SessionInv', \A t \in Threads : blocks[t] = <<>>,
         UNCHANGED <<blocks, local>>,
         NothingRaised', PathsLeadToSessions', ProfiledWhileLive',
         \A i \in SessionIds : contexts'[i] = <<>>
  PROVE  ProgramInv'
<1>1. \A t \in Threads : blocks'[t] = <<>> /\ local'[t] = local[t] /\ blocks'[t] = blocks[t]
  OBVIOUS
<1>2. OneThreadAtATime'
  BY <1>1 DEF OneThreadAtATime
<1>3. ScopesKnowProfiling'
  <2>1. \A t \in Threads : 1 .. Len(blocks'[t]) = {}
    BY <1>1
  <2> QED
    BY <2>1 DEF ScopesKnowProfiling
<1>4. ContextsFollow'
  BY <1>1, NamesOfEmpty DEF ContextsFollow
<1>5. LocalsFollow'
  BY <1>1 DEF ProgramInv, LocalsFollow
<1> QED
  BY <1>2, <1>3, <1>4, <1>5 DEF ProgramInv

LEMMA ActiveProfiler ==
  ASSUME SessionInv, NEW i \in SessionIds, activeSessions[i]
  PROVE  sessions[i].profiler \in Profilers
<1>1. sessions[i] # Absent
  BY DEF SessionInv, ActiveIsLive, Live
<1>2. sessions \in [SessionIds -> [path : Paths, profiler : Profilers] \cup {Absent}]
  BY DEF SessionInv, TypeOK
<1>3. sessions[i] \in [path : Paths, profiler : Profilers]
  BY <1>1, <1>2
<1> QED
  BY <1>3

\* Activating session i, by whatever call.
LEMMA ActivateProgram ==
  ASSUME SessionInv, SessionInv', ProgramInv, \A t \in Threads : blocks[t] = <<>>,
         NEW i \in SessionIds, Live(i), Activate(i), UNCHANGED <<blocks, local>>,
         profilingOn => profilingOn', Returns
  PROVE  ProgramInv'
<1>1. profilingOn /\ profilingOn' /\ ~crashed
  BY DEF ProgramInv, ProfiledWhileLive, NothingRaised
<1>2. /\ UNCHANGED registry /\ raised' = "nothing" /\ ~crashed' /\ UNCHANGED contexts
      /\ UNCHANGED <<activity, started>> \/ TurnOn(i, sessions[i].profiler)
  BY <1>1 DEF Activate, Nothing
<1>3. NothingRaised'
  BY <1>2 DEF NothingRaised, Returns
<1>4. PathsLeadToSessions'
  BY <1>2 DEF ProgramInv, PathsLeadToSessions, Live, registry
<1>5. ProfiledWhileLive'
  <2>1. ASSUME NEW j \in SessionIds, activeSessions'[j] PROVE started'[sessions'[j].profiler]
    <3>1. sessions'[j] = sessions[j]
      BY <1>2 DEF registry
    <3>2. CASE UNCHANGED <<activity, started>>
      BY <2>1, <3>1, <3>2 DEF ProgramInv, ProfiledWhileLive, activity
    <3>3. CASE TurnOn(i, sessions[i].profiler)
      <4>1. sessions[i].profiler \in Profilers
        BY DEF SessionInv, TypeOK, Live
      <4>2. /\ started' = [started EXCEPT ![sessions[i].profiler] = TRUE]
            /\ activeSessions' = [activeSessions EXCEPT ![i] = TRUE]
        BY <3>3 DEF TurnOn
      <4>3. started \in [Profilers -> BOOLEAN] /\ activeSessions \in [SessionIds -> BOOLEAN]
        BY DEF SessionInv, TypeOK
      <4>4. CASE j = i
        BY <3>1, <4>1, <4>2, <4>3, <4>4
      <4>5. CASE j # i
        <5>1. activeSessions[j]
          BY <2>1, <4>2, <4>3, <4>5
        <5>2. started[sessions[j].profiler]
          BY <5>1 DEF ProgramInv, ProfiledWhileLive
        <5>3. sessions[j].profiler \in Profilers
          BY <5>1, ActiveProfiler
        <5> QED
          BY <3>1, <4>2, <4>3, <5>2, <5>3
      <4> QED
        BY <4>4, <4>5
    <3> QED
      BY <1>2, <3>2, <3>3
  <2> QED
    BY <1>1, <1>2, <2>1 DEF ProfiledWhileLive, Live, registry
<1>6. \A j \in SessionIds : contexts'[j] = <<>>
  BY <1>2, NoStacksOutside
<1> QED
  BY <1>3, <1>4, <1>5, <1>6, OutsideStep

LEMMA StartProgram ==
  ASSUME SessionInv, SessionInv', ProgramInv, Lawful,
         NEW path \in Paths, NEW backend \in Backends, PyStart(path, backend)
  PROVE  ProgramInv'
<1>1. /\ \A t \in Threads : blocks[t] = <<>>
      /\ backend \in Profilers /\ UNCHANGED <<blocks, local>> /\ Returns
      /\ profilingOn' = TRUE /\ Start(path, backend)
  BY DEF Lawful, RuleNames, PyStart, OutsideScopes, Keeps
<1>2. CASE StartKnown(path)
  <2>1. PICK i : i = sessionPaths[path]
    OBVIOUS
  <2>2. i # NoId /\ Activate(i)
    BY <1>2, <2>1 DEF StartKnown
  <2>3. i \in SessionIds /\ Live(i)
    BY <2>1, <2>2 DEF ProgramInv, PathsLeadToSessions, SessionInv, TypeOK
  <2> QED
    BY <1>1, <2>2, <2>3, ActivateProgram
<1>3. CASE StartNew(path, backend)
  <2>1. PICK n : n = nextSessionId
    OBVIOUS
  <2>2. /\ n \in SessionIds /\ ~Live(n)
        /\ \A q \in Paths : sessionPaths[q] # NoId => sessionPaths[q] # n
    <3>1. n \in SessionIds /\ n \in Nat
      BY <1>3, <2>1, NextIdFacts DEF StartNew
    <3>2. \A q \in Paths : sessionPaths[q] # NoId => sessionPaths[q] \in SessionIds
      BY DEF SessionInv, TypeOK
    <3> QED
      BY <2>1, <3>1, <3>2, IdFacts DEF SessionInv, IdsAreFresh
  <2>3. /\ sessionPaths' = [sessionPaths EXCEPT ![path] = n]
        /\ sessions' = [sessions EXCEPT ![n] = Session(path, backend)]
        /\ TurnOn(n, backend) /\ raised' = "nothing" /\ UNCHANGED <<contexts, crashed>>
    BY <1>3, <2>1 DEF StartNew
  <2>4. /\ sessionPaths \in [Paths -> SessionIds \cup {NoId}]
        /\ sessions \in [SessionIds -> [path : Paths, profiler : Profilers] \cup {Absent}]
        /\ started \in [Profilers -> BOOLEAN] /\ activeSessions \in [SessionIds -> BOOLEAN]
    BY DEF SessionInv, TypeOK
  <2>5. /\ sessions'[n] = Session(path, backend)
        /\ \A j \in SessionIds \ {n} : sessions'[j] = sessions[j]
    BY <2>2, <2>3, <2>4
  <2>6. /\ Session(path, backend) # Absent /\ Session(path, backend).path = path
        /\ Session(path, backend).profiler = backend
    BY <1>1, AbsentAssumption DEF Session
  <2>7. NothingRaised'
    BY <1>1, <2>3 DEF ProgramInv, NothingRaised, Returns
  <2>8. PathsLeadToSessions'
    <3> SUFFICES ASSUME NEW q \in Paths, sessionPaths'[q] # NoId
                 PROVE  /\ sessions'[sessionPaths'[q]] # Absent
                        /\ sessions'[sessionPaths'[q]].path = q
      BY DEF PathsLeadToSessions, Live
    <3>1. CASE q = path
      BY <2>3, <2>4, <2>5, <2>6, <3>1
    <3>2. CASE q # path
      <4>1. sessionPaths'[q] = sessionPaths[q] /\ sessionPaths[q] # NoId
        BY <2>3, <2>4, <3>2
      <4>2. sessionPaths[q] \in SessionIds \ {n}
        BY <2>2, <2>4, <4>1
      <4>3. Live(sessionPaths[q]) /\ sessions[sessionPaths[q]].path = q
        BY <4>1 DEF ProgramInv, PathsLeadToSessions
      <4> QED
        BY <2>5, <4>1, <4>2, <4>3 DEF Live
    <3> QED
      BY <3>1, <3>2
  <2>9. ProfiledWhileLive'
    <3>1. ASSUME NEW j \in SessionIds, activeSessions'[j] PROVE started'[sessions'[j].profiler]
      <4>1. /\ started' = [started EXCEPT ![backend] = TRUE]
            /\ activeSessions' = [activeSessions EXCEPT ![n] = TRUE]
        BY <2>3 DEF TurnOn
      <4>2. CASE j = n
        BY <1>1, <2>4, <2>5, <2>6, <4>1, <4>2
      <4>3. CASE j # n
        <5>1. activeSessions[j] /\ sessions'[j] = sessions[j]
          BY <2>4, <2>5, <3>1, <4>1, <4>3
        <5>2. started[sessions[j].profiler]
          BY <5>1 DEF ProgramInv, ProfiledWhileLive
        <5>3. sessions[j].profiler \in Profilers
          BY <5>1, ActiveProfiler
        <5> QED
          BY <2>4, <4>1, <5>1, <5>2, <5>3
      <4> QED
        BY <4>2, <4>3
    <3> QED
      BY <1>1, <3>1 DEF ProfiledWhileLive
  <2>10. \A j \in SessionIds : contexts'[j] = <<>>
    BY <1>1, <2>3, NoStacksOutside
  <2> QED
    BY <1>1, <2>7, <2>8, <2>9, <2>10, OutsideStep
<1>4. CASE StartFails(path, backend)
  BY <1>1, <1>4 DEF StartFails
<1> QED
  BY <1>1, <1>2, <1>3, <1>4 DEF Start

LEMMA DeactivateProgram ==
  ASSUME SessionInv, SessionInv', ProgramInv, Lawful, NEW i \in SessionIds, PyDeactivate(i)
  PROVE  ProgramInv'
<1>1. /\ \A t \in Threads : blocks[t] = <<>>
      /\ UNCHANGED <<blocks, local, profilingOn>> /\ Returns /\ Deactivate(i)
  BY DEF Lawful, RuleNames, PyDeactivate, OutsideScopes, Keeps
<1>2. /\ TurnOff({i}) /\ raised' = "nothing"
      /\ UNCHANGED <<registry, started, contexts, crashed>>
  BY <1>1 DEF Deactivate
<1>3. \A j \in SessionIds : activeSessions'[j] => activeSessions[j]
  BY <1>2 DEF TurnOff
<1>4. NothingRaised'
  BY <1>1, <1>2 DEF ProgramInv, NothingRaised, Returns
<1>5. PathsLeadToSessions'
  BY <1>2 DEF ProgramInv, PathsLeadToSessions, Live, registry
<1>6. ProfiledWhileLive'
  BY <1>1, <1>2, <1>3 DEF ProgramInv, ProfiledWhileLive, Live, registry
<1>7. \A j \in SessionIds : contexts'[j] = <<>>
  BY <1>1, <1>2, NoStacksOutside
<1> QED
  BY <1>1, <1>4, <1>5, <1>6, <1>7, OutsideStep

\* Finishing sessions that include every active user of their profilers.
LEMMA FinishProgram ==
  ASSUME SessionInv, SessionInv', ProgramInv, \A t \in Threads : blocks[t] = <<>>,
         NEW S \in SUBSET SessionIds, Finish(S), UNCHANGED <<blocks, local>>, Returns,
         \A i \in S : Live(i),
         \A i \in S, j \in SessionIds :
           activeSessions[j] /\ sessions[j].profiler = sessions[i].profiler => j \in S,
         \A i \in SessionIds \ S : Live(i) => profilingOn'
  PROVE  ProgramInv'
<1>1. /\ started' = [p \in Profilers |-> started[p] /\ \A i \in S : sessions[i].profiler # p]
      /\ activeSessions' = [i \in SessionIds |-> activeSessions[i] /\ i \notin S]
      /\ raised' = "nothing" /\ UNCHANGED crashed /\ Remove(S)
  BY DEF Finish, TurnOff
<1>2. /\ \A i \in SessionIds : sessions'[i] = IF i \in S THEN Absent ELSE sessions[i]
      /\ \A path \in Paths : sessionPaths'[path] =
           IF \E i \in S : sessions[i].path = path THEN NoId ELSE sessionPaths[path]
      /\ \A i \in SessionIds : contexts'[i] = IF i \in S THEN <<>> ELSE contexts[i]
  BY <1>1 DEF Remove
<1>3. NothingRaised'
  BY <1>1 DEF ProgramInv, NothingRaised, Returns
<1>4. PathsLeadToSessions'
  <2> SUFFICES ASSUME NEW q \in Paths, sessionPaths'[q] # NoId
               PROVE  /\ sessions'[sessionPaths'[q]] # Absent
                      /\ sessions'[sessionPaths'[q]].path = q
    BY DEF PathsLeadToSessions, Live
  <2>1. PICK j : j = sessionPaths[q]
    OBVIOUS
  <2>2. sessionPaths'[q] = j /\ j # NoId /\ \A i \in S : sessions[i].path # q
    BY <1>2, <2>1
  <2>3. j \in SessionIds /\ Live(j) /\ sessions[j].path = q
    BY <2>1, <2>2 DEF ProgramInv, PathsLeadToSessions, SessionInv, TypeOK
  <2>4. j \notin S
    BY <2>2, <2>3
  <2> QED
    BY <1>2, <2>2, <2>3, <2>4 DEF Live
<1>5. ProfiledWhileLive'
  <2>1. ASSUME NEW j \in SessionIds, activeSessions'[j] PROVE started'[sessions'[j].profiler]
    <3>1. activeSessions[j] /\ j \notin S
      BY <1>1, <2>1
    <3>2. started[sessions[j].profiler] /\ sessions[j].profiler \in Profilers
      BY <3>1, ActiveProfiler DEF ProgramInv, ProfiledWhileLive
    <3>3. \A i \in S : sessions[i].profiler # sessions[j].profiler
      BY <3>1
    <3> QED
      BY <1>1, <1>2, <3>1, <3>2, <3>3
  <2>2. ASSUME NEW j \in SessionIds, sessions'[j] # Absent PROVE profilingOn'
    BY <1>2, <2>2 DEF Live
  <2> QED
    BY <2>1, <2>2 DEF ProfiledWhileLive, Live
<1>6. \A j \in SessionIds : contexts'[j] = <<>>
  BY <1>2, NoStacksOutside
<1> QED
  BY <1>3, <1>4, <1>5, <1>6, OutsideStep

LEMMA FinalizeProgram ==
  ASSUME SessionInv, SessionInv', ProgramInv, Lawful, NEW i \in SessionIds, PyFinalize(i)
  PROVE  ProgramInv'
<1>1. /\ \A t \in Threads : blocks[t] = <<>>
      /\ UNCHANGED <<blocks, local, profilingOn>> /\ Returns /\ Finalize(i)
      /\ Live(i) => ActiveOf(sessions[i].profiler) \subseteq {i}
  BY DEF Lawful, RuleNames, PyFinalize, OutsideScopes, Keeps
<1>2. CASE Live(i)
  <2>1. Finish({i})
    BY <1>1, <1>2 DEF Finalize
  <2>2. \A k \in {i}, j \in SessionIds :
          activeSessions[j] /\ sessions[j].profiler = sessions[k].profiler => j \in {i}
    BY <1>1, <1>2 DEF ActiveOf
  <2>3. \A j \in SessionIds \ {i} : Live(j) => profilingOn'
    BY <1>1 DEF ProgramInv, ProfiledWhileLive
  <2> QED
    BY <1>1, <1>2, <2>1, <2>2, <2>3, FinishProgram
<1>3. CASE ~Live(i)
  <2>1. Nothing
    BY <1>1, <1>3 DEF Finalize
  <2>2. NothingRaised'
    BY <1>1, <2>1 DEF ProgramInv, NothingRaised, Returns, Nothing
  <2>3. PathsLeadToSessions' /\ ProfiledWhileLive'
    BY <1>1, <2>1
    DEF ProgramInv, PathsLeadToSessions, ProfiledWhileLive, Live, Nothing, registry, activity
  <2>4. \A j \in SessionIds : contexts'[j] = <<>>
    BY <1>1, <2>1, NoStacksOutside DEF Nothing
  <2> QED
    BY <1>1, <2>2, <2>3, <2>4, OutsideStep
<1> QED
  BY <1>2, <1>3

LEMMA FinalizeAllProgram ==
  ASSUME SessionInv, SessionInv', ProgramInv, Lawful, PyFinalizeAll
  PROVE  ProgramInv'
<1>1. /\ \A t \in Threads : blocks[t] = <<>>
      /\ UNCHANGED <<blocks, local>> /\ Returns
      /\ Finish({i \in SessionIds : Live(i)})
  BY DEF Lawful, RuleNames, PyFinalizeAll, FinalizeAll, OutsideScopes, Keeps
<1>2. \A j \in SessionIds : activeSessions[j] => j \in {i \in SessionIds : Live(i)}
  BY DEF SessionInv, ActiveIsLive
<1>3. PICK S \in SUBSET SessionIds : S = {i \in SessionIds : Live(i)}
  OBVIOUS
<1>4. /\ Finish(S) /\ \A i \in S : Live(i)
      /\ \A i \in SessionIds \ S : Live(i) => profilingOn'
      /\ \A j \in SessionIds : activeSessions[j] => j \in S
  BY <1>1, <1>2, <1>3
<1> QED
  BY <1>1, <1>4, FinishProgram

\* Entering or leaving a scope touches neither sessions nor profilers.
LEMMA ScopeStep ==
  ASSUME ProgramInv, UNCHANGED <<registry, activity, started, crashed, profilingOn>>,
         raised' = "nothing", pyRaised' = "nothing"
  PROVE  NothingRaised' /\ PathsLeadToSessions' /\ ProfiledWhileLive'
<1>1. NothingRaised'
  BY DEF ProgramInv, NothingRaised
<1>2. PathsLeadToSessions'
  BY DEF ProgramInv, PathsLeadToSessions, Live, registry
<1>3. ProfiledWhileLive'
  BY DEF ProgramInv, ProfiledWhileLive, Live, registry, activity
<1> QED
  BY <1>1, <1>2, <1>3

\* With profiling off there is no stack to keep.
LEMMA NoneActive ==
  ASSUME SessionInv, ProgramInv, ~profilingOn, NEW i \in SessionIds
  PROVE  ~activeSessions[i] /\ contexts[i] = <<>>
<1>1. ~activeSessions[i]
  BY DEF ProgramInv, ProfiledWhileLive, SessionInv, ActiveIsLive
<1> QED
  BY <1>1 DEF ProgramInv, ContextsFollow

LEMMA EnterProgram ==
  ASSUME SessionInv, ApiTypeOK, ProgramInv, Lawful, NEW t \in Threads, NEW style \in Styles,
         NEW name \in Names, Enter(t, style, name)
  PROVE  ProgramInv'
<1>1. PICK b : b = Block(style, name)
  OBVIOUS
<1>2. b.style = style /\ b.name = name /\ b.entered = profilingOn /\ b \in BlockType
  BY <1>1 DEF Block, BlockType, ApiTypeOK
<1>3. /\ Alone(t) /\ blocks' = [blocks EXCEPT ![t] = Append(blocks[t], b)]
      /\ UNCHANGED profilingOn /\ pyRaised' = "nothing"
  BY <1>1 DEF Enter, Lawful, RuleNames, Keeps, Returns, Alone
<1>4. blocks \in [Threads -> Seq(BlockType)] /\ blocks[t] \in Seq(BlockType)
  BY DEF ApiTypeOK
<1>5. /\ blocks'[t] = Append(blocks[t], b) /\ blocks'[t] # <<>>
      /\ \A u \in Threads \ {t} : blocks'[u] = blocks[u] /\ blocks'[u] = <<>>
  BY <1>2, <1>3, <1>4, AppendProperties DEF Alone
<1>6. IF profilingOn THEN EnterScope(name) ELSE Nothing
  BY DEF Enter
<1>7. UNCHANGED <<registry, activity, started, crashed>> /\ raised' = "nothing"
  BY <1>6 DEF EnterScope, Nothing
<1>8. NothingRaised' /\ PathsLeadToSessions' /\ ProfiledWhileLive'
  BY <1>3, <1>7, ScopeStep
<1>9. OneThreadAtATime'
  BY <1>5 DEF OneThreadAtATime, Alone
<1>10. ScopesKnowProfiling'
  <2> SUFFICES ASSUME NEW u \in Threads, NEW k \in 1 .. Len(blocks'[u])
               PROVE  blocks'[u][k].entered = profilingOn
    BY <1>3 DEF ScopesKnowProfiling
  <2>1. CASE u # t
    BY <1>5, <2>1
  <2>2. CASE u = t
    <3>1. /\ Len(blocks[t]) \in Nat /\ Len(blocks'[t]) = Len(blocks[t]) + 1
          /\ blocks'[t][Len(blocks[t]) + 1] = b
          /\ \A j \in 1 .. Len(blocks[t]) : blocks'[t][j] = blocks[t][j]
      BY <1>2, <1>4, <1>5, AppendProperties
    <3>2. CASE k = Len(blocks[t]) + 1
      BY <1>2, <2>2, <3>1, <3>2
    <3>3. CASE k # Len(blocks[t]) + 1
      <4>1. k \in 1 .. Len(blocks[t])
        BY <2>2, <3>1, <3>3
      <4> QED
        BY <2>2, <3>1, <4>1 DEF ProgramInv, ScopesKnowProfiling
    <3> QED
      BY <3>2, <3>3
  <2> QED
    BY <2>1, <2>2
<1>11. ContextsFollow'
  <2>1. ASSUME NEW i \in SessionIds
        PROVE  /\ activeSessions'[i] = activeSessions[i]
               /\ ~activeSessions[i] => contexts'[i] = <<>>
               /\ activeSessions[i] => contexts'[i] = NamesOf(blocks'[t])
    <3>1. activeSessions'[i] = activeSessions[i]
      BY <1>7 DEF activity
    <3>2. CASE profilingOn
      <4>1. contexts'[i] = IF i \in Registered THEN Append(contexts[i], name) ELSE contexts[i]
        BY <1>6, <3>2 DEF EnterScope
      <4>2. CASE activeSessions[i]
        <5>1. contexts[i] = NamesOf(blocks[t])
          BY <1>3, <4>2 DEF ProgramInv, ContextsFollow
        <5>2. contexts'[i] = Append(NamesOf(blocks[t]), name)
          BY <4>1, <4>2, <5>1, RegisteredIsActive
        <5> QED
          BY <1>2, <1>4, <1>5, <3>1, <4>2, <5>2, NamesOfAppend
      <4>3. CASE ~activeSessions[i]
        BY <3>1, <4>1, <4>3, RegisteredIsActive DEF ProgramInv, ContextsFollow
      <4> QED
        BY <4>2, <4>3
    <3>3. CASE ~profilingOn
      BY <1>6, <3>1, <3>3, NoneActive DEF Nothing
    <3> QED
      BY <3>2, <3>3
  <2>2. ASSUME NEW u \in Threads, \A v \in Threads \ {u} : blocks'[v] = <<>> PROVE u = t
    BY <1>5, <2>2
  <2> QED
    BY <2>1, <2>2 DEF ContextsFollow, Alone
<1>12. LocalsFollow'
  <2>1. local[t] \in Seq(Names) /\ local \in [Threads -> Seq(Names)] /\ Opened(blocks[t], local[t])
    BY DEF ApiTypeOK, ProgramInv, LocalsFollow
  <2>2. Opened(blocks'[t], local'[t])
    <3>1. CASE profilingOn /\ style = "call"
      <4>1. local'[t] = Append(local[t], name)
        BY <2>1, <3>1 DEF Enter
      <4> QED
        BY <1>2, <1>4, <1>5, <2>1, <3>1, <4>1, OpenedOnEnter
    <3>2. CASE ~(profilingOn /\ style = "call")
      <4>1. local'[t] = local[t]
        BY <3>2 DEF Enter
      <4> QED
        BY <1>2, <1>4, <1>5, <2>1, <3>2, <4>1, OpenedOnEnter
    <3> QED
      BY <3>1, <3>2
  <2>3. ASSUME NEW u \in Threads, u # t PROVE Opened(blocks'[u], local'[u])
    <3>1. local'[u] = local[u] /\ blocks'[u] = blocks[u]
      BY <1>5, <2>1, <2>3 DEF Enter
    <3> QED
      BY <3>1 DEF ProgramInv, LocalsFollow
  <2> QED
    BY <2>2, <2>3 DEF LocalsFollow
<1> QED
  BY <1>8, <1>9, <1>10, <1>11, <1>12 DEF ProgramInv

\* Leaving the innermost scope finds every stack as it must be.
LEMMA ExitBalanced ==
  ASSUME SessionInv, ApiTypeOK, ProgramInv, NEW t \in Threads, blocks[t] # <<>>,
         NEW i \in SessionIds, activeSessions[i]
  PROVE  /\ Balanced(i, Innermost(t).name)
         /\ Front(contexts[i]) = NamesOf(Front(blocks[t]))
<1>1. Alone(t) /\ blocks[t] \in Seq(BlockType)
  BY DEF ProgramInv, OneThreadAtATime, ApiTypeOK
<1>2. contexts[i] = NamesOf(blocks[t])
  BY <1>1 DEF ProgramInv, ContextsFollow
<1> QED
  BY <1>1, <1>2, NamesOfFront DEF Balanced, Innermost

LEMMA ExitScopeProgram ==
  ASSUME SessionInv, ApiTypeOK, ProgramInv, NEW t \in Threads, blocks[t] # <<>>,
         ExitScope(Innermost(t).name)
  PROVE  /\ raised' = "nothing" /\ UNCHANGED <<registry, activity, started, crashed>>
         /\ \A i \in SessionIds :
              /\ activeSessions[i] => contexts'[i] = NamesOf(Front(blocks[t]))
              /\ ~activeSessions[i] => contexts'[i] = <<>>
<1>1. \A i \in Registered : i \in SessionIds /\ activeSessions[i]
  BY RegisteredIsActive DEF Registered
<1>2. {i \in Registered : Balanced(i, Innermost(t).name)} = Registered
  BY <1>1, ExitBalanced
<1>3. raised' = "nothing" /\ Pop(Registered) /\ UNCHANGED <<registry, activity, started, crashed>>
  BY <1>2 DEF ExitScope
<1>4. ASSUME NEW i \in SessionIds, activeSessions[i] PROVE contexts'[i] = NamesOf(Front(blocks[t]))
  <2>1. contexts'[i] = Front(contexts[i])
    BY <1>3, <1>4, RegisteredIsActive DEF Pop, Front
  <2> QED
    BY <1>4, <2>1, ExitBalanced
<1>5. ASSUME NEW i \in SessionIds, ~activeSessions[i] PROVE contexts'[i] = <<>>
  <2>1. contexts'[i] = contexts[i]
    BY <1>3, <1>5, RegisteredIsActive DEF Pop
  <2> QED
    BY <1>5, <2>1 DEF ProgramInv, ContextsFollow
<1> QED
  BY <1>3, <1>4, <1>5

LEMMA ExitProgram ==
  ASSUME SessionInv, ApiTypeOK, ProgramInv, Lawful, NEW t \in Threads, Exit(t)
  PROVE  ProgramInv'
<1>1. /\ blocks[t] # <<>> /\ blocks' = [blocks EXCEPT ![t] = Front(blocks[t])]
      /\ UNCHANGED profilingOn
  BY DEF Exit, Front
<1>2. PICK s, f : s = blocks[t] /\ f = Front(s)
  OBVIOUS
<1>3. /\ s \in Seq(BlockType) /\ s # <<>> /\ f \in Seq(BlockType) /\ Len(f) = Len(s) - 1
      /\ Len(s) \in Nat \ {0} /\ Len(s) \in 1 .. Len(s)
      /\ \A k \in 1 .. Len(s) - 1 : k \in 1 .. Len(s) /\ f[k] = s[k]
  BY <1>1, <1>2, FrontFacts DEF ApiTypeOK
<1>4. /\ Alone(t) /\ blocks'[t] = f
      /\ \A u \in Threads \ {t} : blocks'[u] = blocks[u] /\ blocks'[u] = <<>>
  BY <1>1, <1>2 DEF ProgramInv, OneThreadAtATime, ApiTypeOK, Alone
<1>5. s[Len(s)].entered = profilingOn /\ Innermost(t) = s[Len(s)]
  BY <1>2, <1>3 DEF ProgramInv, ScopesKnowProfiling, Innermost
<1>6. /\ local[t] \in Seq(Names) /\ local \in [Threads -> Seq(Names)]
      /\ \A u \in Threads : Opened(blocks[u], local[u])
  BY DEF ApiTypeOK, ProgramInv, LocalsFollow
<1>7. /\ CallAt(s, Len(s)) =>
           /\ local[t] # <<>> /\ local[t][Len(local[t])] = s[Len(s)].name
           /\ Opened(f, Front(local[t]))
      /\ ~CallAt(s, Len(s)) => Opened(f, local[t])
  BY <1>2, <1>3, <1>6, OpenedOnExit
<1>8. CallAt(s, Len(s)) <=> Innermost(t).style = "call" /\ profilingOn
  BY <1>5 DEF CallAt
<1>9. pyRaised' = "nothing" /\ (IF profilingOn THEN ExitScope(Innermost(t).name) ELSE Nothing)
  BY <1>5, <1>7, <1>8 DEF Exit, ExitWith, ExitCall, Returns
<1>10. local' = IF CallAt(s, Len(s)) THEN [local EXCEPT ![t] = Front(local[t])] ELSE local
  BY <1>7, <1>8 DEF Exit, ExitWith, ExitCall, Front
<1>11. UNCHANGED <<registry, activity, started, crashed>> /\ raised' = "nothing"
  BY <1>1, <1>9, ExitScopeProgram DEF Nothing
<1>12. NothingRaised' /\ PathsLeadToSessions' /\ ProfiledWhileLive'
  BY <1>1, <1>9, <1>11, ScopeStep
<1>13. OneThreadAtATime'
  <2>1. ASSUME NEW u \in Threads, blocks'[u] # <<>> PROVE \A v \in Threads \ {u} : blocks'[v] = <<>>
    BY <1>4, <2>1
  <2> QED
    BY <2>1 DEF OneThreadAtATime, Alone
<1>14. ScopesKnowProfiling'
  <2> SUFFICES ASSUME NEW u \in Threads, NEW k \in 1 .. Len(blocks'[u])
               PROVE  blocks'[u][k].entered = profilingOn
    BY <1>1 DEF ScopesKnowProfiling
  <2>1. CASE u # t
    BY <1>4, <2>1
  <2>2. CASE u = t
    <3>1. k \in 1 .. Len(s) - 1
      BY <1>3, <1>4, <2>2
    <3>2. k \in 1 .. Len(s) /\ f[k] = s[k]
      BY <1>3, <3>1
    <3>3. s[k].entered = profilingOn
      BY <1>2, <3>2 DEF ProgramInv, ScopesKnowProfiling
    <3> QED
      BY <1>4, <2>2, <3>2, <3>3
  <2> QED
    BY <2>1, <2>2
<1>15. ContextsFollow'
  <2>1. ASSUME NEW i \in SessionIds
        PROVE  /\ activeSessions'[i] = activeSessions[i]
               /\ ~activeSessions[i] => contexts'[i] = <<>>
               /\ activeSessions[i] => contexts'[i] = NamesOf(f)
    <3>1. activeSessions'[i] = activeSessions[i]
      BY <1>11 DEF activity
    <3>2. CASE profilingOn
      BY <1>1, <1>2, <1>9, <3>1, <3>2, ExitScopeProgram
    <3>3. CASE ~profilingOn
      BY <1>9, <3>1, <3>3, NoneActive DEF Nothing
    <3> QED
      BY <3>2, <3>3
  <2>2. ASSUME NEW u \in Threads, \A v \in Threads \ {u} : blocks'[v] = <<>>
        PROVE  NamesOf(blocks'[u]) = NamesOf(f)
    BY <1>4, <2>2
  <2> QED
    BY <2>1, <2>2 DEF ContextsFollow, Alone
<1>16. LocalsFollow'
  <2>1. Opened(blocks'[t], local'[t])
    BY <1>4, <1>6, <1>7, <1>10
  <2>2. ASSUME NEW u \in Threads, u # t PROVE Opened(blocks'[u], local'[u])
    <3>1. local'[u] = local[u] /\ blocks'[u] = blocks[u]
      BY <1>4, <1>6, <1>10, <2>2
    <3> QED
      BY <1>6, <3>1
  <2> QED
    BY <2>1, <2>2 DEF LocalsFollow
<1> QED
  BY <1>12, <1>13, <1>14, <1>15, <1>16 DEF ProgramInv

LEMMA ApiInit == PyInit => ApiInv
<1> SUFFICES ASSUME PyInit PROVE ApiInv
  OBVIOUS
<1>1. SessionInv
  BY InitInv DEF PyInit
<1>2. /\ \A t \in Threads : blocks[t] = <<>> /\ local[t] = <<>>
      /\ blocks = [t \in Threads |-> <<>>] /\ local = [t \in Threads |-> <<>>]
  BY DEF PyInit
<1>3. ApiTypeOK
  <2>1. <<>> \in Seq(BlockType) /\ <<>> \in Seq(Names) /\ profilingOn = FALSE
    BY DEF PyInit
  <2> QED
    BY <1>2, <2>1 DEF ApiTypeOK
<1>4. NothingRaised /\ PathsLeadToSessions
  BY DEF PyInit, Init, NothingRaised, PathsLeadToSessions
<1>5. ProfiledWhileLive
  BY DEF PyInit, Init, ProfiledWhileLive, Live
<1>6. OneThreadAtATime
  BY <1>2 DEF OneThreadAtATime
<1>7. ScopesKnowProfiling
  <2>1. \A t \in Threads : 1 .. Len(blocks[t]) = {}
    BY <1>2
  <2> QED
    BY <2>1 DEF ScopesKnowProfiling
<1>8. ContextsFollow
  BY DEF PyInit, Init, ContextsFollow
<1>9. LocalsFollow
  BY <1>2, OpenedEmpty DEF LocalsFollow
<1> QED
  BY <1>1, <1>3, <1>4, <1>5, <1>6, <1>7, <1>8, <1>9 DEF ApiInv, ProgramInv

LEMMA ApiStep == ApiInv /\ [PyNext]_allVars => ApiInv'
<1> SUFFICES ASSUME ApiInv, [PyNext]_allVars PROVE ApiInv'
  OBVIOUS
<1>1. CASE PyNext
  <2>1. SessionInv /\ ApiTypeOK /\ SessionInv' /\ ApiTypeOK'
    BY <1>1, ApiManagerInv DEF ApiInv
  <2>2. ASSUME Lawful' PROVE ProgramInv'
    <3>1. Lawful
      BY <1>1, <2>2 DEF Lawful, PyNext
    <3>2. ProgramInv
      BY <3>1 DEF ApiInv
    <3>3. CASE \E path \in Paths, backend \in Backends : PyStart(path, backend)
      BY <2>1, <3>1, <3>2, <3>3, StartProgram
    <3>4. CASE \E i \in SessionIds : PyActivate(i)
      <4>1. PICK i \in SessionIds : PyActivate(i)
        BY <3>4
      <4>2. /\ \A t \in Threads : blocks[t] = <<>>
            /\ Live(i) /\ Activate(i) /\ Returns /\ UNCHANGED <<blocks, local, profilingOn>>
        BY <3>1, <4>1 DEF Lawful, RuleNames, PyActivate, OutsideScopes, Keeps
      <4> QED
        BY <2>1, <3>2, <4>2, ActivateProgram
    <3>5. CASE \E i \in SessionIds : PyDeactivate(i)
      BY <2>1, <3>1, <3>2, <3>5, DeactivateProgram
    <3>6. CASE \E i \in SessionIds : PyFinalize(i)
      BY <2>1, <3>1, <3>2, <3>6, FinalizeProgram
    <3>7. CASE PyFinalizeAll
      BY <2>1, <3>1, <3>2, <3>7, FinalizeAllProgram
    <3>8. CASE \E t \in Threads, style \in Styles, name \in Names : Enter(t, style, name)
      BY <2>1, <3>1, <3>2, <3>8, EnterProgram
    <3>9. CASE \E t \in Threads : Exit(t)
      BY <2>1, <3>1, <3>2, <3>9, ExitProgram
    <3> QED
      BY <1>1, <3>3, <3>4, <3>5, <3>6, <3>7, <3>8, <3>9 DEF PyNext
  <2> QED
    BY <2>1, <2>2 DEF ApiInv
<1>2. CASE UNCHANGED allVars
  <2> USE <1>2 DEF allVars, vars, pyVars, registry, activity
  <2>1. SessionInv'
    BY NextInv DEF ApiInv
  <2>2. ApiTypeOK'
    BY DEF ApiInv, ApiTypeOK
  <2>3. ASSUME Lawful' PROVE ProgramInv'
    <3>1. ProgramInv
      BY <2>3 DEF ApiInv, Lawful
    <3>2. NothingRaised' /\ PathsLeadToSessions' /\ ProfiledWhileLive'
      BY <3>1 DEF ProgramInv, NothingRaised, PathsLeadToSessions, ProfiledWhileLive, Live
    <3>3. OneThreadAtATime' /\ ScopesKnowProfiling' /\ ContextsFollow' /\ LocalsFollow'
      BY <3>1 DEF ProgramInv, OneThreadAtATime, ScopesKnowProfiling, ContextsFollow,
                  LocalsFollow, Alone
    <3> QED
      BY <3>2, <3>3 DEF ProgramInv
  <2> QED
    BY <2>1, <2>2, <2>3 DEF ApiInv
<1> QED
  BY <1>1, <1>2

LEMMA ApiCorrect == PySpec => []ApiInv
  BY ApiInit, ApiStep, PTL DEF PySpec

(***************************************************************************)
(* The manager's own invariant holds under the Python functions too,       *)
(* whatever rules the program keeps to.                                    *)
(***************************************************************************)
THEOREM ProgramsKeepManager == PySpec => []SessionInv
<1>1. ApiInv => SessionInv
  BY DEF ApiInv
<1> QED
  BY <1>1, ApiCorrect, PTL

(***************************************************************************)
(* A program that keeps to the rules makes no call that dereferences a     *)
(* session that is not there (Session.cpp:78-85).                          *)
(***************************************************************************)
THEOREM RulesPreventCrashes == PySpec => []NoCrash
<1>1. ApiInv => NoCrash
  BY DEF ApiInv, ProgramInv, NothingRaised, NoCrash
<1> QED
  BY <1>1, ApiCorrect, PTL

(***************************************************************************)
(* A program that keeps to the rules leaves every scope it entered without *)
(* an error, for every nesting of `with` blocks and call pairs             *)
(* (Shadow.cpp:9-19, scope.py:35-96).                                      *)
(***************************************************************************)
THEOREM RulesLetScopesExit == PySpec => []ScopesExitCleanly
<1>1. ApiInv => ScopesExitCleanly
  BY DEF ApiInv, ProgramInv, NothingRaised, ScopesExitCleanly
<1> QED
  BY <1>1, ApiCorrect, PTL

(***************************************************************************)
(* In a program that keeps to the rules every active session is profiled,  *)
(* and its context stack is the scopes the program is in, however often    *)
(* sessions were started, skipped, resumed and finalized (Shadow.h:9-26).  *)
(***************************************************************************)
THEOREM ContextsAreThePrograms == PySpec => []ContextIsProgram
<1>1. ASSUME ApiInv PROVE ContextIsProgram
  <2> SUFFICES ASSUME Lawful, NEW i \in SessionIds, activeSessions[i]
               PROVE  /\ started[sessions[i].profiler]
                      /\ \E t \in Threads : Alone(t) /\ contexts[i] = NamesOf(blocks[t])
    BY DEF ContextIsProgram
  <2>1. ProgramInv
    BY <1>1 DEF ApiInv
  <2>2. \E t \in Threads : Alone(t)
    BY <2>1, ThreadsAssumption DEF ProgramInv, OneThreadAtATime, Alone
  <2> QED
    BY <2>1, <2>2 DEF ProgramInv, ProfiledWhileLive, ContextsFollow
<1> QED
  BY <1>1, ApiCorrect, PTL
=============================================================================
