----------------------- MODULE ValidationGateProofs -----------------------
(***************************************************************************)
(* prioritized_mutex excludes, and stop cannot reach the pool while a call *)
(* waits for it; the promise of a call is fulfilled once, success stands   *)
(* for every job of every phase, and no branch is being pushed once the    *)
(* pool is aborted: for any number of threads, workers and phases, with    *)
(* and without priorities.                                                 *)
(***************************************************************************)
EXTENDS ValidationGate, SequenceTheorems, FunctionTheorems, FiniteSetTheorems, TLAPS

PC == {"start", "wait", "next", "data", "entered", "critical",
       "awaiting", "unlock", "unlock_data", "unlock_wait",
       "aborting", "closing", "done"}

\* What the locks need to be typed.
GateType ==
  /\ pc \in [Thread -> PC]
  /\ owner \in [{"wait", "next", "data"} -> Thread \cup {Nobody}]

(***************************************************************************)
(* A thread in the section owns the data mutex; the organizers are stopped *)
(* before the pool is aborted, and no caller waits once they are stopped.  *)
(***************************************************************************)
Gate ==
  /\ GateType
  /\ \A t \in Thread : InSection(t) => owner["data"] = t
  /\ \A c \in Caller : pc[c] = "awaiting" => ~stopped
  /\ pc[Stopper] = "aborting" => stopped
  /\ aborted => stopped

LEMMA InitGate == Init => Gate
BY ThreadAssumption DEF Init, Gate, GateType, PC, InSection, Thread

\* A step that moves one thread and changes no mutex, outside organize and stop.
LEMMA MovePreserves ==
  ASSUME Gate, NEW t \in Thread, NEW from, NEW to \in PC, Goto(t, from, to),
         to # "awaiting", to # "aborting",
         UNCHANGED <<stopped, aborted>>,
         UNCHANGED owner,
         to \in {"entered", "critical", "unlock", "unlock_data"} => InSection(t)
  PROVE  Gate'
<1>1. GateType'
  BY DEF Gate, GateType, Goto
<1>2. ASSUME NEW s \in Thread, InSection(s)' PROVE owner'["data"] = s
  BY <1>2 DEF Gate, GateType, Goto, InSection
<1>3. \A c \in Caller : pc'[c] = "awaiting" => ~stopped'
  BY DEF Gate, GateType, Goto, Thread
<1>4. (pc'[Stopper] = "aborting" => stopped') /\ (aborted' => stopped')
  BY DEF Gate, GateType, Goto, Thread
<1>. QED  BY <1>1, <1>2, <1>3, <1>4 DEF Gate

\* A step that takes a mutex nobody has.
LEMMA TakePreserves ==
  ASSUME Gate, NEW t \in Thread, NEW from, NEW to \in {"next", "data", "entered", "critical"},
         NEW mutex \in {"wait", "next", "data"},
         Goto(t, from, to), Take(t, mutex), UNCHANGED <<stopped, aborted>>,
         to \in {"entered", "critical"} <=> mutex = "data"
  PROVE  Gate'
<1>1. GateType'
  BY DEF Gate, GateType, Goto, Take, PC
<1>2. ASSUME NEW s \in Thread, InSection(s)' PROVE owner'["data"] = s
  <2>1. CASE s = t
    BY <2>1, <1>2 DEF Gate, GateType, Goto, InSection, Take
  <2>2. CASE s # t
    <3>1. InSection(s)
      BY <2>2, <1>2 DEF Gate, GateType, Goto, InSection
    <3>2. owner["data"] = s /\ s # Nobody
      BY <3>1, ThreadAssumption DEF Gate
    <3>. QED  BY <3>2 DEF Gate, GateType, Take
  <2>. QED  BY <2>1, <2>2
<1>3. \A c \in Caller : pc'[c] = "awaiting" => ~stopped'
  BY DEF Gate, GateType, Goto, Thread
<1>4. (pc'[Stopper] = "aborting" => stopped') /\ (aborted' => stopped')
  BY DEF Gate, GateType, Goto, Thread
<1>. QED  BY <1>1, <1>2, <1>3, <1>4 DEF Gate

\* A step that gives a mutex back.
LEMMA ReleasePreserves ==
  ASSUME Gate, NEW t \in Thread, NEW from, NEW to \in PC,
         NEW mutex \in {"wait", "next", "data"},
         Goto(t, from, to), Release(t, mutex), UNCHANGED <<stopped, aborted>>,
         to # "awaiting", to # "aborting",
         to \in {"entered", "critical", "unlock", "unlock_data"} =>
           InSection(t) /\ mutex # "data",
         mutex = "data" => InSection(t)
  PROVE  Gate'
<1>1. GateType'
  BY DEF Gate, GateType, Goto, Release, PC
<1>2. ASSUME NEW s \in Thread, InSection(s)' PROVE owner'["data"] = s
  <2>1. InSection(s) /\ owner["data"] = s
    BY <1>2 DEF Gate, GateType, Goto, InSection
  <2>2. CASE mutex = "data"
    <3>1. s = t
      BY <2>1, <2>2 DEF Gate
    <3>. QED  BY <3>1, <2>2, <1>2 DEF Gate, GateType, Goto, InSection
  <2>3. CASE mutex # "data"
    BY <2>1, <2>3 DEF Gate, GateType, Release
  <2>. QED  BY <2>2, <2>3
<1>3. \A c \in Caller : pc'[c] = "awaiting" => ~stopped'
  BY DEF Gate, GateType, Goto, Thread
<1>4. (pc'[Stopper] = "aborting" => stopped') /\ (aborted' => stopped')
  BY DEF Gate, GateType, Goto, Thread
<1>. QED  BY <1>1, <1>2, <1>3, <1>4 DEF Gate

LEMMA MutexPreserves ==
  ASSUME Gate, NEW t \in Thread, Call(t) \/ Lock(t) \/ Unlock(t)
  PROVE  Gate'
<1>1. CASE Call(t)
  BY <1>1, MovePreserves DEF Call, FirstStep, PC
<1>2. CASE LockWait(t)
  BY <1>2, TakePreserves DEF LockWait
<1>3. CASE LockNext(t)
  BY <1>3, TakePreserves DEF LockNext
<1>4. CASE LockData(t)
  BY <1>4, TakePreserves DEF LockData
<1>5. CASE PassNext(t)
  <2>1. InSection(t)
    BY <1>5 DEF PassNext, Goto, InSection
  <2>. QED  BY <1>5, <2>1, ReleasePreserves DEF PassNext, PC
<1>6. CASE UnlockNext(t)
  <2>1. InSection(t)
    BY <1>6 DEF UnlockNext, Goto, InSection
  <2>2. CASE IsLow(t) /\ Prioritize
    BY <1>6, <2>1, <2>2, ReleasePreserves DEF UnlockNext, PC
  <2>3. CASE ~(IsLow(t) /\ Prioritize)
    BY <1>6, <2>1, <2>3, MovePreserves DEF UnlockNext, PC
  <2>. QED  BY <2>2, <2>3
<1>7. CASE UnlockData(t)
  <2> DEFINE to == CASE t = Stopper -> "closing"
                     [] IsLow(t) /\ Prioritize -> "unlock_wait"
                     [] OTHER -> "done"
  <2>1. InSection(t)
    BY <1>7 DEF UnlockData, Goto, InSection
  <2>2. to \in {"closing", "unlock_wait", "done"}
    OBVIOUS
  <2>3. Goto(t, "unlock_data", to) /\ Release(t, "data") /\ UNCHANGED <<stopped, aborted>>
    BY <1>7 DEF UnlockData
  <2>. HIDE DEF to
  <2>. QED  BY <2>1, <2>2, <2>3, ReleasePreserves DEF PC
<1>8. CASE UnlockWait(t)
  BY <1>8, ReleasePreserves DEF UnlockWait, PC
<1>. QED  BY <1>1, <1>2, <1>3, <1>4, <1>5, <1>6, <1>7, <1>8 DEF Lock, Unlock

LEMMA OrganizePreserves ==
  ASSUME Gate, NEW c \in Caller, Organize(c)
  PROVE  Gate'
<1>1. c \in Thread /\ c # Stopper
  BY ThreadAssumption DEF Thread
<1>2. CASE Enter(c)
  <2>1. GateType'
    BY <1>1, <1>2 DEF Gate, GateType, Enter, Goto, PC
  <2>2. \A s \in Thread : InSection(s)' => owner'["data"] = s
    BY <1>1, <1>2 DEF Gate, GateType, Enter, Goto, InSection
  <2>3. /\ \A d \in Caller : pc'[d] = "awaiting" => ~stopped'
        /\ pc'[Stopper] = "aborting" => stopped'
        /\ aborted' => stopped'
    BY <1>1, <1>2 DEF Gate, GateType, Enter, Goto, Thread
  <2>. QED  BY <2>1, <2>2, <2>3 DEF Gate
<1>3. CASE EnterStopped(c)
  BY <1>1, <1>3, MovePreserves DEF EnterStopped, Goto, InSection, PC
<1>4. CASE Resume(c)
  BY <1>1, <1>4, MovePreserves DEF Resume, Goto, InSection, PC
<1>. QED  BY <1>2, <1>3, <1>4 DEF Organize

\* stop has the data mutex, so no caller is waiting.
LEMMA ClosePreserves ==
  ASSUME Gate, Close
  PROVE  Gate'
<1>1. Stopper \in Thread
  BY DEF Thread
<1>2. CASE StopOrganizers
  <2>1. GateType'
    BY <1>1, <1>2 DEF Gate, GateType, StopOrganizers, Goto, PC
  <2>2. \A s \in Thread : InSection(s)' => owner'["data"] = s
    BY <1>1, <1>2 DEF Gate, GateType, StopOrganizers, Goto, InSection
  <2>3. ASSUME NEW c \in Caller PROVE pc'[c] # "awaiting"
    <3>1. c \in Thread /\ c # Stopper /\ owner["data"] = Stopper
      BY <1>1, <1>2, ThreadAssumption DEF Gate, StopOrganizers, Goto, InSection, Thread
    <3>. QED  BY <3>1, <1>2 DEF Gate, GateType, StopOrganizers, Goto, InSection
  <2>. QED  BY <2>1, <2>2, <2>3, <1>2 DEF Gate, StopOrganizers
<1>3. CASE AbortPool
  <2>1. GateType'
    BY <1>1, <1>3 DEF Gate, GateType, AbortPool, Goto, PC
  <2>2. \A s \in Thread : InSection(s)' => owner'["data"] = s
    BY <1>1, <1>3 DEF Gate, GateType, AbortPool, Goto, InSection
  <2>3. stopped
    BY <1>3 DEF Gate, AbortPool, Goto
  <2>4. \A c \in Caller : pc'[c] # "awaiting"
    BY <1>1, <1>3, <2>3, ThreadAssumption DEF Gate, GateType, AbortPool, Goto, Thread
  <2>. QED  BY <2>1, <2>2, <2>3, <2>4, <1>3 DEF Gate, AbortPool
<1>4. CASE CloseDatabase
  BY <1>1, <1>4, MovePreserves DEF CloseDatabase, PC
<1>. QED  BY <1>2, <1>3, <1>4 DEF Close

LEMMA SamePreserves ==
  ASSUME Gate, UNCHANGED <<pc, owner, stopped, aborted>>
  PROVE  Gate'
BY DEF Gate, GateType, InSection

\* The pool moves no caller and locks nothing.
LEMMA JobKeeps ==
  ASSUME NEW w \in Worker, Job(w)
  PROVE  UNCHANGED <<pc, owner, stopped, aborted, open>>
<1>1. CASE StartJob(w) \/ EndPrune(w)
  BY <1>1 DEF StartJob, EndPrune, locks
<1>2. ASSUME NEW c \in Caller, NEW p \in 1..LastPhase(c), NEW ok \in BOOLEAN,
             Report(w, c, p, ok)
      PROVE  UNCHANGED <<pc, owner, stopped, aborted, open>>
  BY <1>2 DEF Report, locks
<1>3. ASSUME NEW c \in Caller, NEW p \in 1..LastPhase(c), JobContinues(w, c, p)
      PROVE  Report(w, c, p, TRUE)
  BY <1>3 DEF JobContinues, JobClears
<1>4. ASSUME NEW c \in Caller, NEW p \in 1..LastPhase(c), NEW ok \in BOOLEAN,
             NEW stale \in BOOLEAN,
             JobIgnored(w, c, p, ok) \/ JobCounted(w, c, p, ok) \/ JobCompletes(w, c, p, ok, stale)
      PROVE  Report(w, c, p, ok)
  BY <1>4 DEF JobIgnored, JobCounted, JobCompletes, JobClears
<1>. QED  BY <1>1, <1>2, <1>3, <1>4 DEF Job

LEMMA JobPreserves ==
  ASSUME Gate, NEW w \in Worker, Job(w)
  PROVE  Gate'
BY JobKeeps, SamePreserves

LEMMA NextPreserves == Gate /\ [Next]_vars => Gate'
<1>. SUFFICES ASSUME Gate, [Next]_vars PROVE Gate'
  OBVIOUS
<1>1. CASE UNCHANGED vars
  BY <1>1, SamePreserves DEF vars
<1>. QED  BY <1>1, MutexPreserves, OrganizePreserves, ClosePreserves, JobPreserves DEF Next

\* The section is one, whatever the schedule and the priorities.
THEOREM GateIsInvariant == Spec => []Gate
BY InitGate, NextPreserves, PTL DEF Spec

\* lock_low_priority and lock_high_priority exclude each other and themselves.
THEOREM SectionsExclude == Spec => []MutualExclusion
<1>1. Gate => MutualExclusion
  BY DEF Gate, MutualExclusion
<1>. QED  BY <1>1, GateIsInvariant, PTL

\* block_chain::stop aborts the pool only when no organize waits for it.
THEOREM PoolIsAbortedLast == Spec => []PoolOutlivesCalls
<1>1. Gate => PoolOutlivesCalls
  BY DEF Gate, PoolOutlivesCalls
<1>. QED  BY <1>1, GateIsInvariant, PTL

-----------------------------------------------------------------------------
(* How many jobs of a phase are about: posted, or in the hands of a worker. *)

Positions(q, job) == {i \in 1..Len(q) : q[i] = job}
Hands(r, job) == {w \in Worker : r[w] = job}

Jobs == Tasks \cup {PruneTask}

LEMMA PositionsFinite ==
  ASSUME NEW S, NEW q \in Seq(S), NEW job
  PROVE  /\ IsFiniteSet(Positions(q, job))
         /\ Cardinality(Positions(q, job)) \in Nat
<1>1. IsFiniteSet(1..Len(q))
  BY FS_Interval
<1>2. Positions(q, job) \in SUBSET (1..Len(q))
  BY DEF Positions
<1>. QED  BY <1>1, <1>2, FS_Subset, FS_CardinalityType

\* A worker takes the first job.
LEMMA TailPositions ==
  ASSUME NEW S, NEW q \in Seq(S), q # <<>>, NEW job
  PROVE  Cardinality(Positions(q, job)) =
           Cardinality(Positions(Tail(q), job)) + (IF Head(q) = job THEN 1 ELSE 0)
<1> DEFINE P == Positions(Tail(q), job)
           Q == Positions(q, job) \ {1}
           f == [i \in P |-> i + 1]
<1>1. /\ Tail(q) \in Seq(S) /\ Len(Tail(q)) = Len(q) - 1 /\ Len(q) \in Nat
      /\ Len(q) # 0
      /\ \A i \in 1..Len(Tail(q)) : Tail(q)[i] = q[i + 1]
  BY HeadTailProperties, LenProperties, EmptySeq
<1>2. f \in Bijection(P, Q)
  <2>1. \A i \in P : f[i] \in Q
    BY <1>1 DEF Positions
  <2>2. \A i, j \in P : f[i] = f[j] => i = j
    BY <1>1 DEF Positions
  <2>3. \A j \in Q : \E i \in P : f[i] = j
    <3>1. TAKE j \in Q
    <3>2. j \in 1..Len(q) /\ j # 1 /\ q[j] = job
      BY DEF Positions
    <3>3. j - 1 \in 1..Len(Tail(q)) /\ Tail(q)[j - 1] = job
      BY <1>1, <3>2
    <3>4. j - 1 \in P /\ f[j - 1] = j
      BY <3>2, <3>3 DEF Positions
    <3>. QED  BY <3>4
  <2>. QED  BY <2>1, <2>2, <2>3 DEF Bijection, Injection, Surjection, IsInjective
<1>3. IsFiniteSet(P) /\ Cardinality(Q) = Cardinality(P)
  <2>1. IsFiniteSet(P)
    BY <1>1, PositionsFinite
  <2>2. ExistsBijection(P, Q)
    BY <1>2 DEF ExistsBijection
  <2>. QED  BY <2>1, <2>2, FS_Bijection
<1>4. /\ IsFiniteSet(Positions(q, job)) /\ Cardinality(Positions(q, job)) \in Nat
      /\ Cardinality(Q) = IF 1 \in Positions(q, job) THEN Cardinality(Positions(q, job)) - 1
                           ELSE Cardinality(Positions(q, job))
  BY PositionsFinite, FS_RemoveElement
<1>5. 1 \in Positions(q, job) <=> Head(q) = job
  <2>1. Head(q) = q[1]
    OBVIOUS
  <2>. QED  BY <1>1, <2>1 DEF Positions
<1>. QED  BY <1>3, <1>4, <1>5

\* A phase is posted behind what is there.
LEMMA ConcatPositions ==
  ASSUME NEW S, NEW q \in Seq(S), NEW r \in Seq(S), NEW job
  PROVE  Cardinality(Positions(q \o r, job)) =
           Cardinality(Positions(q, job)) + Cardinality(Positions(r, job))
<1> DEFINE P == Positions(q, job)
           R == Positions(r, job)
           Q == Positions(q \o r, job) \ P
           f == [i \in R |-> i + Len(q)]
<1>1. /\ Len(q \o r) = Len(q) + Len(r) /\ Len(q) \in Nat /\ Len(r) \in Nat
      /\ \A i \in 1..Len(q) + Len(r) :
           (q \o r)[i] = IF i <= Len(q) THEN q[i] ELSE r[i - Len(q)]
  BY ConcatProperties, LenProperties
<1>2. f \in Bijection(R, Q)
  <2>1. ASSUME NEW i \in R PROVE f[i] \in Q
    <3>1. i \in 1..Len(r) /\ r[i] = job /\ f[i] = i + Len(q)
      BY DEF Positions
    <3>2. i + Len(q) \in 1..Len(q) + Len(r) /\ ~(i + Len(q) <= Len(q)) /\ (i + Len(q)) - Len(q) = i
      BY <1>1, <3>1
    <3>3. (q \o r)[i + Len(q)] = job
      BY <1>1, <3>1, <3>2
    <3>. QED  BY <1>1, <3>1, <3>2, <3>3 DEF Positions
  <2>2. \A i, j \in R : f[i] = f[j] => i = j
    BY <1>1 DEF Positions
  <2>3. \A j \in Q : \E i \in R : f[i] = j
    <3>1. TAKE j \in Q
    <3>2. j \in 1..Len(q) + Len(r) /\ (q \o r)[j] = job /\ j \notin P
      BY <1>1 DEF Positions
    <3>3. ~(j <= Len(q))
      BY <1>1, <3>2 DEF Positions
    <3>4. j - Len(q) \in 1..Len(r) /\ r[j - Len(q)] = job
      BY <1>1, <3>2, <3>3
    <3>5. j - Len(q) \in R
      BY <3>4 DEF Positions
    <3>6. f[j - Len(q)] = j
      BY <1>1, <3>2, <3>5
    <3>. QED  BY <3>5, <3>6
  <2>. QED  BY <2>1, <2>2, <2>3 DEF Bijection, Injection, Surjection, IsInjective
<1>3. /\ IsFiniteSet(P) /\ Cardinality(P) \in Nat
      /\ IsFiniteSet(R) /\ Cardinality(R) \in Nat
  BY PositionsFinite
<1>4. IsFiniteSet(Q) /\ Cardinality(Q) = Cardinality(R)
  <2>1. ExistsBijection(R, Q)
    BY <1>2 DEF ExistsBijection
  <2>. QED  BY <1>3, <2>1, FS_Bijection
<1>5. Positions(q \o r, job) = P \cup Q /\ P \cap Q = {}
  BY <1>1 DEF Positions
<1>6. Cardinality(P \cup Q) = Cardinality(P) + Cardinality(Q) - Cardinality(P \cap Q)
  BY <1>3, <1>4, FS_Union
<1>7. Cardinality(P \cap Q) = 0
  BY <1>5, FS_EmptySet
<1>8. Positions(q \o r, job) = P \cup Q
  BY <1>5
<1>. HIDE DEF P, Q, R
<1>9. Cardinality(P \cup Q) = Cardinality(P) + Cardinality(R)
  BY <1>3, <1>4, <1>6, <1>7
<1>. QED  BY <1>8, <1>9 DEF P, R

-----------------------------------------------------------------------------
(* Phases and tasks. *)

LEMMA PhaseFacts ==
  ASSUME NEW c \in Caller
  PROVE  /\ LastPhase(c) \in Nat \ {0}
         /\ LastPhase(c) <= Len(BlockPhases) + Len(TxPhases)
         /\ \A p \in 1..LastPhase(c) : Phases(c)[p] \in Nat \ {0}
<1>1. Len(BlockPhases) \in Nat \ {0} /\ Len(TxPhases) \in Nat \ {0}
  BY PhasesAssumption, EmptySeq, LenProperties
<1>2. Phases(c) \in Seq(Nat \ {0}) /\ Phases(c) \in {BlockPhases, TxPhases}
  BY PhasesAssumption DEF Phases
<1>3. \A p \in 1..Len(Phases(c)) : Phases(c)[p] \in Nat \ {0}
  BY <1>2, ElementOfSeq
<1>. QED  BY <1>1, <1>2, <1>3 DEF LastPhase

LEMMA TaskFacts ==
  ASSUME NEW c \in Caller, NEW p
  PROVE  /\ Task(c, p) # PruneTask /\ Task(c, p) # IdleTask
         /\ p \in 1..LastPhase(c) => Task(c, p) \in Tasks
         /\ \A d, o : Task(d, o) = Task(c, p) <=> d = c /\ o = p
<1>1. c # Nobody
  BY ThreadAssumption DEF Thread
<1>2. p \in 1..LastPhase(c) => p \in 1..Len(BlockPhases) + Len(TxPhases)
  BY PhaseFacts, PhasesAssumption, LenProperties
<1>. QED  BY <1>1, <1>2 DEF Task, PruneTask, IdleTask, Tasks

LEMMA PostedFacts ==
  ASSUME NEW c \in Caller, NEW p \in 1..LastPhase(c), NEW d \in Caller, NEW o
  PROVE  /\ Posted(c, p) \in Seq(Jobs)
         /\ Cardinality(Positions(Posted(c, p), Task(d, o))) =
              IF d = c /\ o = p THEN Phases(c)[p] ELSE 0
<1> DEFINE n == Phases(c)[p]
<1>1. n \in Nat \ {0}
  BY PhaseFacts
<1>2. Posted(c, p) = [i \in 1..n |-> Task(c, p)] /\ Task(c, p) \in Jobs
  BY TaskFacts DEF Posted, Jobs
<1>. HIDE DEF n
<1>3. Posted(c, p) \in Seq(Jobs) /\ Len(Posted(c, p)) = n
  BY <1>1, <1>2
<1>4. CASE d = c /\ o = p
  <2>1. Positions(Posted(c, p), Task(d, o)) = 1..n
    BY <1>1, <1>2, <1>3, <1>4 DEF Positions
  <2>2. Cardinality(1..n) = n
    BY <1>1, FS_Interval
  <2>. QED  BY <1>3, <1>4, <2>1, <2>2 DEF n
<1>5. CASE ~(d = c /\ o = p)
  <2>1. Task(d, o) # Task(c, p)
    BY <1>5, TaskFacts
  <2>2. Positions(Posted(c, p), Task(d, o)) = {}
    BY <1>1, <1>2, <1>3, <2>1 DEF Positions
  <2>. QED  BY <1>3, <1>5, <2>2, FS_EmptySet
<1>. QED  BY <1>4, <1>5

-----------------------------------------------------------------------------
(* Types. *)

\* TypeOK, and that the counters are kept for callers and nobody else.
Types ==
  /\ TypeOK
  /\ DOMAIN count = Caller
  /\ DOMAIN good = Caller

LEMMA InitTypes == Init => Types
<1>. SUFFICES ASSUME Init PROVE Types
  OBVIOUS
<1>1. <<>> \in Seq(Tasks \cup {PruneTask})
  OBVIOUS
<1>. QED  BY <1>1 DEF Init, Types, TypeOK

LEMMA CallerIsThread == Caller \subseteq Thread /\ Stopper \in Thread
BY DEF Thread

LEMMA MutexTypes ==
  ASSUME Types, NEW t \in Thread, Call(t) \/ Lock(t) \/ Unlock(t)
  PROVE  Types'
<1>1. UNCHANGED <<stopped, aborted, open, pool, calls>>
  BY DEF Call, Lock, Unlock, LockWait, LockNext, LockData, PassNext, UnlockNext, UnlockData,
         UnlockWait
<1>2. pc' \in [Thread -> PC]
  BY DEF Call, Lock, Unlock, LockWait, LockNext, LockData, PassNext, UnlockNext, UnlockData,
         UnlockWait, Goto, FirstStep, Types, TypeOK, PC
<1>3. owner' \in [{"wait", "next", "data"} -> Thread \cup {Nobody}]
  BY DEF Call, Lock, Unlock, LockWait, LockNext, LockData, PassNext, UnlockNext, UnlockData,
         UnlockWait, Take, Release, Types, TypeOK
<1>. QED  BY <1>1, <1>2, <1>3 DEF Types, TypeOK, pool, calls, PC

LEMMA OrganizeTypes ==
  ASSUME Types, NEW c \in Caller, Organize(c)
  PROVE  Types'
<1>1. pc' \in [Thread -> PC]
  BY CallerIsThread DEF Organize, Enter, EnterStopped, Resume, Goto, Types, TypeOK, PC
<1>2. queue' \in Seq(Tasks \cup {PruneTask})
  <2>1. CASE Enter(c)
    <3>1. 1 \in 1..LastPhase(c)
      BY PhaseFacts
    <3>2. Posted(c, 1) \in Seq(Tasks \cup {PruneTask}) /\ queue \in Seq(Tasks \cup {PruneTask})
      BY <3>1, PostedFacts DEF Jobs, Types, TypeOK
    <3>. QED  BY <2>1, <3>2, ConcatProperties DEF Enter
  <2>2. CASE EnterStopped(c) \/ Resume(c)
    BY <2>2 DEF EnterStopped, Resume, pool, Types, TypeOK
  <2>. QED  BY <2>1, <2>2 DEF Organize
<1>3. answer' \in [Caller -> {"none", "success", "error", "stopped"}]
  BY DEF Organize, Enter, EnterStopped, Resume, calls, Types, TypeOK
<1>4. UNCHANGED <<owner, stopped, aborted, open, running, count, good, signals>>
  BY DEF Organize, Enter, EnterStopped, Resume, calls, pool
<1>. QED  BY <1>1, <1>2, <1>3, <1>4 DEF Types, TypeOK, PC

LEMMA CloseTypes ==
  ASSUME Types, Close
  PROVE  Types'
<1>1. pc' \in [Thread -> PC]
  BY CallerIsThread DEF Close, StopOrganizers, AbortPool, CloseDatabase, Goto, Types, TypeOK, PC
<1>2. stopped' \in BOOLEAN /\ aborted' \in BOOLEAN /\ open' \in BOOLEAN
  BY DEF Close, StopOrganizers, AbortPool, CloseDatabase, Types, TypeOK
<1>3. UNCHANGED <<owner, pool, calls>>
  BY DEF Close, StopOrganizers, AbortPool, CloseDatabase
<1>. QED  BY <1>1, <1>2, <1>3 DEF Types, TypeOK, PC, pool, calls

LEMMA CountersTyped ==
  ASSUME Types, NEW c \in Caller, NEW p \in 1..LastPhase(c)
  PROVE  count[c][p] \in Nat /\ good[c][p] \in Nat
<1>1. count[c] \in [1..LastPhase(c) -> Nat] /\ good[c] \in [1..LastPhase(c) -> Nat]
  BY DEF Types, TypeOK
<1>. QED  BY <1>1

LEMMA JobTypes ==
  ASSUME Types, NEW w \in Worker, Job(w)
  PROVE  Types'
<1>1. UNCHANGED <<pc, owner, stopped, aborted, open>>
  BY JobKeeps
<1>2. CASE StartJob(w)
  <2>1. /\ Head(queue) \in Tasks \cup {PruneTask}
        /\ Tail(queue) \in Seq(Tasks \cup {PruneTask})
    BY <1>2, HeadTailProperties DEF StartJob, Types, TypeOK
  <2>2. UNCHANGED calls
    BY <1>2 DEF StartJob
  <2>. QED  BY <1>1, <1>2, <2>1, <2>2 DEF StartJob, Types, TypeOK, calls
<1>3. CASE EndPrune(w)
  <2>1. running' \in [Worker -> Tasks \cup {PruneTask, IdleTask}]
    BY <1>3 DEF EndPrune, Types, TypeOK
  <2>2. UNCHANGED <<queue, count, good, answer, signals>>
    BY <1>3 DEF EndPrune, calls
  <2>. QED  BY <1>1, <2>1, <2>2 DEF Types, TypeOK
<1>4. ASSUME NEW c \in Caller, NEW p \in 1..LastPhase(c), NEW ok \in BOOLEAN,
             Report(w, c, p, ok)
      PROVE  /\ running' \in [Worker -> Tasks \cup {PruneTask, IdleTask}]
             /\ DOMAIN good' = Caller
             /\ \A d \in Caller : good'[d] \in [1..LastPhase(d) -> Nat]
  <2>1. running' \in [Worker -> Tasks \cup {PruneTask, IdleTask}]
    BY <1>4 DEF Report, Types, TypeOK
  <2>2. good[c][p] + 1 \in Nat
    BY CountersTyped
  <2>3. good' = IF ok THEN [good EXCEPT ![c][p] = @ + 1] ELSE good
    BY <1>4 DEF Report
  <2>. QED  BY <2>1, <2>2, <2>3 DEF Types, TypeOK
<1>5. ASSUME NEW c \in Caller, NEW p \in 1..LastPhase(c), JobContinues(w, c, p)
      PROVE  Types'
  <2>1. Report(w, c, p, TRUE) /\ p < LastPhase(c)
    BY <1>5 DEF JobContinues, JobClears
  <2>2. p + 1 \in 1..LastPhase(c) /\ Clearance(c, p) \in Nat
    BY <2>1, PhaseFacts DEF Clearance
  <2>3. queue' \in Seq(Tasks \cup {PruneTask})
    <3>1. Posted(c, p + 1) \in Seq(Tasks \cup {PruneTask})
      BY <2>2, PostedFacts DEF Jobs
    <3>. QED  BY <1>5, <3>1, ConcatProperties DEF JobContinues, Types, TypeOK
  <2>4. DOMAIN count' = Caller /\ \A d \in Caller : count'[d] \in [1..LastPhase(d) -> Nat]
    BY <1>5, <2>2 DEF JobContinues, JobClears, Types, TypeOK
  <2>5. UNCHANGED <<answer, signals>>
    BY <1>5 DEF JobContinues
  <2>. QED  BY <1>1, <1>4, <2>1, <2>3, <2>4, <2>5 DEF Types, TypeOK
<1>6. ASSUME NEW c \in Caller, NEW p \in 1..LastPhase(c), NEW ok \in BOOLEAN,
             JobIgnored(w, c, p, ok)
      PROVE  Types'
  <2>1. Report(w, c, p, ok) /\ UNCHANGED <<queue, count, answer, signals>>
    BY <1>6 DEF JobIgnored
  <2>. QED  BY <1>1, <1>4, <2>1 DEF Types, TypeOK
<1>7. ASSUME NEW c \in Caller, NEW p \in 1..LastPhase(c), NEW ok \in BOOLEAN,
             JobCounted(w, c, p, ok)
      PROVE  Types'
  <2>1. Report(w, c, p, ok) /\ UNCHANGED <<queue, answer, signals>>
    BY <1>7 DEF JobCounted
  <2>2. NextCount(c, p, ok) \in Nat
    BY CountersTyped, PhaseFacts DEF NextCount, Clearance
  <2>3. DOMAIN count' = Caller /\ \A d \in Caller : count'[d] \in [1..LastPhase(d) -> Nat]
    BY <1>7, <2>2 DEF JobCounted, Types, TypeOK
  <2>. QED  BY <1>1, <1>4, <2>1, <2>3 DEF Types, TypeOK
<1>8. ASSUME NEW c \in Caller, NEW p \in 1..LastPhase(c), NEW ok \in BOOLEAN,
             NEW stale \in BOOLEAN, JobCompletes(w, c, p, ok, stale)
      PROVE  Types'
  <2>1. Report(w, c, p, ok) /\ Clearance(c, p) \in Nat
    BY <1>8, PhaseFacts DEF JobCompletes, JobClears, Clearance
  <2>2. queue' \in Seq(Tasks \cup {PruneTask})
    BY <1>8 DEF JobCompletes, Types, TypeOK
  <2>3. DOMAIN count' = Caller /\ \A d \in Caller : count'[d] \in [1..LastPhase(d) -> Nat]
    BY <1>8, <2>1 DEF JobCompletes, JobClears, Types, TypeOK
  <2>4. /\ answer' \in [Caller -> {"none", "success", "error", "stopped"}]
        /\ signals' \in [Caller -> Nat]
    BY <1>8 DEF JobCompletes, Types, TypeOK
  <2>. QED  BY <1>1, <1>4, <2>1, <2>2, <2>3, <2>4 DEF Types, TypeOK
<1>. QED  BY <1>2, <1>3, <1>5, <1>6, <1>7, <1>8 DEF Job

LEMMA NextTypes == Types /\ [Next]_vars => Types'
<1>. SUFFICES ASSUME Types, [Next]_vars PROVE Types'
  OBVIOUS
<1>1. CASE UNCHANGED vars
  BY <1>1 DEF vars, pool, calls, Types, TypeOK
<1>. QED  BY <1>1, MutexTypes, OrganizeTypes, CloseTypes, JobTypes DEF Next

\* The counters and the queue hold what they are declared to hold.
THEOREM TypesHold == Spec => []TypeOK
<1>1. Types => TypeOK
  BY DEF Types
<1>. QED  BY <1>1, InitTypes, NextTypes, PTL DEF Spec

-----------------------------------------------------------------------------
(* What becomes of the jobs of a phase. *)

\* Jobs of phase p of call c that have not reported.
Outstanding(c, p) ==
  Cardinality(Positions(queue, Task(c, p))) + Cardinality(Hands(running, Task(c, p)))

LEMMA HandsFinite ==
  ASSUME NEW r, NEW job
  PROVE  IsFiniteSet(Hands(r, job)) /\ Cardinality(Hands(r, job)) \in Nat
BY PoolAssumption, FS_Subset, FS_CardinalityType DEF Hands

\* A worker puts down one job and takes another.
LEMMA HandsExchange ==
  ASSUME NEW r, NEW s, NEW w \in Worker, NEW job,
         \A v \in Worker \ {w} : s[v] = r[v]
  PROVE  Cardinality(Hands(s, job)) =
           Cardinality(Hands(r, job)) - (IF r[w] = job THEN 1 ELSE 0)
                                      + (IF s[w] = job THEN 1 ELSE 0)
<1> DEFINE H == Hands(r, job)
           I == Hands(s, job)
<1>1. H \ {w} = I \ {w} /\ (w \in H <=> r[w] = job) /\ (w \in I <=> s[w] = job)
  BY DEF Hands
<1>2. /\ Cardinality(H) \in Nat /\ Cardinality(I) \in Nat
      /\ Cardinality(H \ {w}) = IF w \in H THEN Cardinality(H) - 1 ELSE Cardinality(H)
      /\ Cardinality(I \ {w}) = IF w \in I THEN Cardinality(I) - 1 ELSE Cardinality(I)
  BY HandsFinite, FS_RemoveElement
<1>. HIDE DEF H, I
<1>3. Cardinality(H \ {w}) = Cardinality(I \ {w})
  BY <1>1
<1>4. Cardinality(I) = Cardinality(H) - (IF r[w] = job THEN 1 ELSE 0)
                                      + (IF s[w] = job THEN 1 ELSE 0)
  BY <1>1, <1>2, <1>3
<1>. QED  BY <1>4 DEF H, I

LEMMA OutstandingIsNat ==
  ASSUME Types, NEW c, NEW p
  PROVE  Outstanding(c, p) \in Nat
<1>1. queue \in Seq(Jobs)
  BY DEF Types, TypeOK, Jobs
<1>. QED  BY <1>1, PositionsFinite, HandsFinite DEF Outstanding

\* Starting a job moves it from the queue to a worker.
LEMMA StartKeepsOutstanding ==
  ASSUME Types, NEW w \in Worker, StartJob(w) \/ EndPrune(w), NEW c \in Caller, NEW p
  PROVE  Outstanding(c, p)' = Outstanding(c, p)
<1>1. queue \in Seq(Jobs) /\ running \in [Worker -> Jobs \cup {IdleTask}]
  BY DEF Types, TypeOK, Jobs
<1>2. Task(c, p) # PruneTask /\ Task(c, p) # IdleTask
  BY TaskFacts
<1>3. /\ Cardinality(Hands(running, Task(c, p))) \in Nat
      /\ Cardinality(Positions(queue, Task(c, p))) \in Nat
  BY <1>1, HandsFinite, PositionsFinite
<1>4. CASE StartJob(w)
  <2>1. queue # <<>> /\ running[w] = IdleTask /\ queue' = Tail(queue)
        /\ running' = [running EXCEPT ![w] = Head(queue)]
    BY <1>4 DEF StartJob
  <2>2. Tail(queue) \in Seq(Jobs)
    BY <1>1, <2>1, HeadTailProperties
  <2>3. Cardinality(Positions(Tail(queue), Task(c, p))) \in Nat
    BY <2>2, PositionsFinite
  <2>4. Cardinality(Positions(queue, Task(c, p))) =
          Cardinality(Positions(Tail(queue), Task(c, p)))
            + (IF Head(queue) = Task(c, p) THEN 1 ELSE 0)
    BY <1>1, <2>1, TailPositions
  <2>5. Cardinality(Hands(running', Task(c, p))) =
          Cardinality(Hands(running, Task(c, p)))
            + (IF Head(queue) = Task(c, p) THEN 1 ELSE 0)
    <3>1. /\ running[w] = IdleTask /\ running'[w] = Head(queue)
          /\ \A v \in Worker \ {w} : running'[v] = running[v]
      BY <1>1, <2>1
    <3>. QED  BY <3>1, <1>2, <1>3, HandsExchange
  <2>. QED  BY <1>3, <2>1, <2>3, <2>4, <2>5 DEF Outstanding
<1>5. CASE EndPrune(w)
  <2>1. running[w] = PruneTask /\ queue' = queue
        /\ running' = [running EXCEPT ![w] = IdleTask]
    BY <1>5 DEF EndPrune
  <2>2. Cardinality(Hands(running', Task(c, p))) = Cardinality(Hands(running, Task(c, p)))
    <3>1. /\ running[w] = PruneTask /\ running'[w] = IdleTask
          /\ \A v \in Worker \ {w} : running'[v] = running[v]
      BY <1>1, <2>1
    <3>. QED  BY <3>1, <1>2, <1>3, HandsExchange
  <2>. QED  BY <2>1, <2>2 DEF Outstanding
<1>. QED  BY <1>4, <1>5

\* A job that reports is outstanding no more.
LEMMA ReportHands ==
  ASSUME Types, NEW w \in Worker, NEW c \in Caller, NEW p, NEW ok, Report(w, c, p, ok),
         NEW d \in Caller, NEW o
  PROVE  /\ Cardinality(Hands(running', Task(d, o))) =
              Cardinality(Hands(running, Task(d, o))) - (IF d = c /\ o = p THEN 1 ELSE 0)
         /\ Cardinality(Hands(running', Task(d, o))) \in Nat
         /\ Cardinality(Hands(running, Task(d, o))) \in Nat
<1>1. /\ running[w] = Task(c, p) /\ running'[w] = IdleTask
      /\ \A v \in Worker \ {w} : running'[v] = running[v]
  BY DEF Types, TypeOK, Report
<1>2. Task(d, o) # IdleTask /\ (Task(c, p) = Task(d, o) <=> d = c /\ o = p)
  BY TaskFacts
<1>3. /\ Cardinality(Hands(running, Task(d, o))) \in Nat
      /\ Cardinality(Hands(running', Task(d, o))) \in Nat
  BY HandsFinite
<1>4. Cardinality(Hands(running', Task(d, o))) =
        Cardinality(Hands(running, Task(d, o))) - (IF running[w] = Task(d, o) THEN 1 ELSE 0)
                                                + (IF running'[w] = Task(d, o) THEN 1 ELSE 0)
  BY <1>1, HandsExchange
<1>. QED  BY <1>1, <1>2, <1>3, <1>4

LEMMA ReporterWasOut ==
  ASSUME Types, NEW w \in Worker, NEW c \in Caller, NEW p, NEW ok, Report(w, c, p, ok)
  PROVE  Outstanding(c, p) >= 1
<1>1. Cardinality(Positions(queue, Task(c, p))) \in Nat
  BY PositionsFinite DEF Types, TypeOK
<1>2. /\ Cardinality(Hands(running', Task(c, p))) = Cardinality(Hands(running, Task(c, p))) - 1
      /\ Cardinality(Hands(running', Task(c, p))) \in Nat
      /\ Cardinality(Hands(running, Task(c, p))) \in Nat
  BY ReportHands
<1>. QED  BY <1>1, <1>2 DEF Outstanding

LEMMA PruneIsNoCall ==
  ASSUME Types, NEW c \in Caller, NEW p
  PROVE  Cardinality(Positions(Append(queue, PruneTask), Task(c, p))) =
           Cardinality(Positions(queue, Task(c, p)))
<1>1. queue \in Seq(Jobs) /\ PruneTask \in Jobs /\ <<PruneTask>> \in Seq(Jobs)
  BY DEF Types, TypeOK, Jobs
<1>2. Append(queue, PruneTask) = queue \o <<PruneTask>>
  BY <1>1, AppendIsConcat
<1>3. Positions(<<PruneTask>>, Task(c, p)) = {}
  BY TaskFacts DEF Positions
<1>4. Cardinality(Positions(queue, Task(c, p))) \in Nat
  BY <1>1, PositionsFinite
<1>5. Cardinality(Positions(queue \o <<PruneTask>>, Task(c, p))) =
        Cardinality(Positions(queue, Task(c, p))) + Cardinality(Positions(<<PruneTask>>, Task(c, p)))
  BY <1>1, ConcatPositions
<1>6. Cardinality(Positions(Append(queue, PruneTask), Task(c, p))) =
        Cardinality(Positions(queue \o <<PruneTask>>, Task(c, p)))
  BY <1>2, Zenon
<1>. QED  BY <1>3, <1>4, <1>5, <1>6, FS_EmptySet

\* A job that reports and posts no phase.
LEMMA ReportOutstanding ==
  ASSUME Types, NEW w \in Worker, NEW c \in Caller, NEW p, NEW ok, Report(w, c, p, ok),
         queue' \in {queue, Append(queue, PruneTask)}, NEW d \in Caller, NEW o
  PROVE  Outstanding(d, o)' = Outstanding(d, o) - (IF d = c /\ o = p THEN 1 ELSE 0)
<1>1. Cardinality(Positions(queue, Task(d, o))) \in Nat
  BY PositionsFinite DEF Types, TypeOK
<1>2. Cardinality(Positions(queue', Task(d, o))) = Cardinality(Positions(queue, Task(d, o)))
  <2>1. CASE queue' = queue
    BY <2>1, Zenon
  <2>2. CASE queue' = Append(queue, PruneTask)
    BY <2>2, PruneIsNoCall, Zenon
  <2>. QED  BY <2>1, <2>2
<1>3. /\ Cardinality(Hands(running', Task(d, o))) =
           Cardinality(Hands(running, Task(d, o))) - (IF d = c /\ o = p THEN 1 ELSE 0)
      /\ Cardinality(Hands(running, Task(d, o))) \in Nat
  BY ReportHands
<1>. QED  BY <1>1, <1>2, <1>3 DEF Outstanding

\* A phase that is posted.
LEMMA PostedPositions ==
  ASSUME Types, NEW c \in Caller, NEW p \in 1..LastPhase(c), queue' = queue \o Posted(c, p),
         NEW d \in Caller, NEW o
  PROVE  /\ Cardinality(Positions(queue', Task(d, o))) =
              Cardinality(Positions(queue, Task(d, o)))
                + (IF d = c /\ o = p THEN Phases(c)[p] ELSE 0)
         /\ Cardinality(Positions(queue, Task(d, o))) \in Nat
<1>1. queue \in Seq(Jobs) /\ Posted(c, p) \in Seq(Jobs)
  BY PostedFacts DEF Types, TypeOK, Jobs
<1>2. Cardinality(Positions(queue \o Posted(c, p), Task(d, o))) =
        Cardinality(Positions(queue, Task(d, o))) + Cardinality(Positions(Posted(c, p), Task(d, o)))
  BY <1>1, ConcatPositions
<1>3. Cardinality(Positions(queue', Task(d, o))) =
        Cardinality(Positions(queue \o Posted(c, p), Task(d, o)))
  BY Zenon
<1>4. Cardinality(Positions(Posted(c, p), Task(d, o))) =
        IF d = c /\ o = p THEN Phases(c)[p] ELSE 0
  BY PostedFacts
<1>5. Cardinality(Positions(queue, Task(d, o))) \in Nat
  BY <1>1, PositionsFinite
<1>. QED  BY <1>2, <1>3, <1>4, <1>5

LEMMA ContinueOutstanding ==
  ASSUME Types, NEW w \in Worker, NEW c \in Caller, NEW p \in 1..LastPhase(c),
         JobContinues(w, c, p), NEW d \in Caller, NEW o
  PROVE  Outstanding(d, o)' = Outstanding(d, o) - (IF d = c /\ o = p THEN 1 ELSE 0)
                                + (IF d = c /\ o = p + 1 THEN Phases(c)[p + 1] ELSE 0)
<1>1. p < LastPhase(c) /\ queue' = queue \o Posted(c, p + 1)
  BY DEF JobContinues
<1>2. p + 1 \in 1..LastPhase(c) /\ Phases(c)[p + 1] \in Nat
  <2>1. p + 1 \in 1..LastPhase(c)
    BY <1>1, PhaseFacts
  <2>. QED  BY <2>1, PhaseFacts
<1>3. /\ Cardinality(Positions(queue', Task(d, o))) =
           Cardinality(Positions(queue, Task(d, o)))
             + (IF d = c /\ o = p + 1 THEN Phases(c)[p + 1] ELSE 0)
      /\ Cardinality(Positions(queue, Task(d, o))) \in Nat
  BY <1>1, <1>2, PostedPositions
<1>4. PICK ok \in BOOLEAN : Report(w, c, p, ok)
  BY DEF JobContinues, JobClears
<1>5. /\ Cardinality(Hands(running', Task(d, o))) =
           Cardinality(Hands(running, Task(d, o))) - (IF d = c /\ o = p THEN 1 ELSE 0)
      /\ Cardinality(Hands(running, Task(d, o))) \in Nat
  BY <1>4, ReportHands
<1>. QED  BY <1>2, <1>3, <1>5 DEF Outstanding

LEMMA EnterOutstanding ==
  ASSUME Types, NEW c \in Caller, Enter(c), NEW d \in Caller, NEW o
  PROVE  Outstanding(d, o)' = Outstanding(d, o)
                                + (IF d = c /\ o = 1 THEN Phases(c)[1] ELSE 0)
<1>1. 1 \in 1..LastPhase(c) /\ Phases(c)[1] \in Nat
  BY PhaseFacts
<1>2. queue' = queue \o Posted(c, 1) /\ running' = running
  BY DEF Enter
<1>3. /\ Cardinality(Positions(queue', Task(d, o))) =
           Cardinality(Positions(queue, Task(d, o)))
             + (IF d = c /\ o = 1 THEN Phases(c)[1] ELSE 0)
      /\ Cardinality(Positions(queue, Task(d, o))) \in Nat
  BY <1>1, <1>2, PostedPositions
<1>4. /\ Cardinality(Hands(running', Task(d, o))) = Cardinality(Hands(running, Task(d, o)))
      /\ Cardinality(Hands(running, Task(d, o))) \in Nat
  BY <1>2, HandsFinite, Zenon
<1>. QED  BY <1>1, <1>3, <1>4 DEF Outstanding

-----------------------------------------------------------------------------
(***************************************************************************)
(* The account of a call.  Its phases are reached one after the other; in  *)
(* a phase, the jobs that are out and those that ended well are never more *)
(* than were posted, and fewer once one has failed.  The promise is        *)
(* fulfilled by the job that clears the last phase reached, so that every  *)
(* job left over finds its synchronizer cleared.                           *)
(***************************************************************************)
Returning == {"unlock", "unlock_data", "unlock_wait", "done"}

\* The call has posted jobs.
InCall(c) == pc[c] \in Returning \cup {"awaiting"} /\ answer[c] # "stopped"

Reached(c, p) == InCall(c) /\ \A o \in 1..p - 1 : good[c][o] = Clearance(c, o)

Ledger(c, p) ==
  /\ count[c][p] <= Clearance(c, p)
  /\ Outstanding(c, p) + good[c][p] <= Clearance(c, p)
  /\ ~IsCleared(c, p) => good[c][p] = count[c][p]
  /\ IsCleared(c, p) /\ good[c][p] # Clearance(c, p) =>
       Outstanding(c, p) + good[c][p] < Clearance(c, p)
  /\ ~Reached(c, p) => Outstanding(c, p) = 0 /\ good[c][p] = 0 /\ count[c][p] = 0

\* The promise is not yet fulfilled.
Waiting(c) ==
  /\ InCall(c) => pc[c] = "awaiting"
  /\ \A p \in 1..LastPhase(c) : IsCleared(c, p) => good[c][p] = Clearance(c, p)
  /\ good[c][LastPhase(c)] # Clearance(c, LastPhase(c))

Fulfilled(c) == InCall(c) /\ \A p \in 1..LastPhase(c) : Reached(c, p) => IsCleared(c, p)

Outcome(c) ==
  /\ signals[c] \in {0, 1}
  /\ signals[c] = 0 => Waiting(c)
  /\ signals[c] = 1 => Fulfilled(c)
  /\ answer[c] = "success" => good[c][LastPhase(c)] = Clearance(c, LastPhase(c))
  /\ answer[c] = "stopped" => pc[c] \in Returning /\ signals[c] = 0

Account(c) == Outcome(c) /\ \A p \in 1..LastPhase(c) : Ledger(c, p)

LEMMA InitAccounts == Init => \A c \in Caller : Account(c)
<1>. SUFFICES ASSUME Init, NEW c \in Caller PROVE Account(c)
  OBVIOUS
<1>1. ~InCall(c) /\ signals[c] = 0 /\ answer[c] = "none"
  BY CallerIsThread DEF Init, InCall, Returning
<1>2. ASSUME NEW p \in 1..LastPhase(c)
      PROVE  /\ count[c][p] = 0 /\ good[c][p] = 0
             /\ Clearance(c, p) \in Nat \ {0}
             /\ Outstanding(c, p) = 0
  <2>1. count[c][p] = 0 /\ good[c][p] = 0 /\ Clearance(c, p) \in Nat \ {0}
    BY PhaseFacts DEF Init, Clearance
  <2>2. Positions(queue, Task(c, p)) = {}
    BY DEF Init, Positions
  <2>3. Hands(running, Task(c, p)) = {}
    BY TaskFacts DEF Init, Hands
  <2>. QED  BY <2>1, <2>2, <2>3, FS_EmptySet DEF Outstanding
<1>3. LastPhase(c) \in 1..LastPhase(c)
  BY PhaseFacts
<1>. QED  BY <1>1, <1>2, <1>3 DEF Account, Outcome, Waiting, Ledger, IsCleared

\* The facts about a phase that every step needs.
LEMMA AccountNumbers ==
  ASSUME Types, NEW c \in Caller, NEW p \in 1..LastPhase(c)
  PROVE  /\ Clearance(c, p) \in Nat \ {0} /\ Outstanding(c, p) \in Nat
         /\ count[c][p] \in Nat /\ good[c][p] \in Nat
         /\ LastPhase(c) \in 1..LastPhase(c)
BY PhaseFacts, CountersTyped, OutstandingIsNat DEF Clearance

\* A step that leaves the jobs of a call as they are, and takes its caller on.
LEMMA AccountKept ==
  ASSUME NEW c \in Caller, Account(c),
         count'[c] = count[c], good'[c] = good[c], signals'[c] = signals[c],
         answer'[c] = answer[c],
         \A p \in 1..LastPhase(c) : Outstanding(c, p)' = Outstanding(c, p),
         pc'[c] \in Returning \cup {"awaiting"} <=> pc[c] \in Returning \cup {"awaiting"},
         pc[c] \in Returning => pc'[c] \in Returning,
         signals[c] = 0 => (pc[c] = "awaiting" => pc'[c] = "awaiting")
  PROVE  Account(c)'
<1>1. InCall(c)' <=> InCall(c)
  BY DEF InCall
<1>2. \A p \in 1..LastPhase(c) :
        (Reached(c, p)' <=> Reached(c, p)) /\ (IsCleared(c, p)' <=> IsCleared(c, p))
  BY <1>1 DEF Reached, IsCleared
<1>3. \A p \in 1..LastPhase(c) : Ledger(c, p)'
  BY <1>2 DEF Account, Ledger
<1>4. Outcome(c)'
  BY <1>1, <1>2 DEF Account, Outcome, Waiting, Fulfilled
<1>. QED  BY <1>3, <1>4 DEF Account

LEMMA SameOutstanding ==
  ASSUME UNCHANGED pool, NEW c, NEW p
  PROVE  Outstanding(c, p)' = Outstanding(c, p)
BY DEF pool, Outstanding, Positions, Hands

LEMMA MutexAccounts ==
  ASSUME Types, NEW t \in Thread, Call(t) \/ Lock(t) \/ Unlock(t),
         NEW c \in Caller, Account(c)
  PROVE  Account(c)'
<1>1. UNCHANGED pool /\ UNCHANGED calls
  BY DEF Call, Lock, Unlock, LockWait, LockNext, LockData, PassNext, UnlockNext, UnlockData,
         UnlockWait
<1>2. c \in Thread /\ c # Stopper /\ pc \in [Thread -> PC]
  BY ThreadAssumption DEF Thread, Types, TypeOK, PC
<1>3. CASE t # c
  <2>1. pc'[c] = pc[c]
    BY <1>2, <1>3 DEF Call, Lock, Unlock, LockWait, LockNext, LockData, PassNext, UnlockNext,
                      UnlockData, UnlockWait, Goto
  <2>. QED  BY <1>1, <2>1, AccountKept, SameOutstanding DEF calls
<1>4. CASE t = c
  <2>1. CASE Call(t) \/ Lock(t)
    <3>1. /\ pc[c] \in {"start", "wait", "next", "data", "entered"}
          /\ pc'[c] \in {"wait", "next", "data", "entered", "critical"}
      BY <1>2, <1>4, <2>1 DEF Call, Lock, LockWait, LockNext, LockData, PassNext, Goto, FirstStep
    <3>. QED  BY <1>1, <3>1, AccountKept, SameOutstanding DEF calls, Returning
  <2>2. CASE Unlock(t)
    <3>1. pc[c] \in Returning /\ pc[c] # "awaiting" /\ pc'[c] \in Returning
      BY <1>2, <1>4, <2>2 DEF Unlock, UnlockNext, UnlockData, UnlockWait, Goto, Returning
    <3>. QED  BY <1>1, <3>1, AccountKept, SameOutstanding DEF calls
  <2>. QED  BY <2>1, <2>2
<1>. QED  BY <1>3, <1>4

LEMMA CloseAccounts ==
  ASSUME Types, Close, NEW c \in Caller, Account(c)
  PROVE  Account(c)'
<1>1. UNCHANGED pool /\ UNCHANGED calls
  BY DEF Close, StopOrganizers, AbortPool, CloseDatabase
<1>2. pc'[c] = pc[c]
  <2>1. c \in Thread /\ c # Stopper /\ pc \in [Thread -> PC]
    BY ThreadAssumption DEF Thread, Types, TypeOK, PC
  <2>. QED  BY <2>1 DEF Close, StopOrganizers, AbortPool, CloseDatabase, Goto
<1>. QED  BY <1>1, <1>2, AccountKept, SameOutstanding DEF calls

\* The first phase is posted when nothing of the call is out.
LEMMA EnterAccounts ==
  ASSUME Types, NEW c \in Caller, Enter(c), NEW d \in Caller, Account(d)
  PROVE  Account(d)'
<1>1. /\ UNCHANGED calls /\ c \in Thread /\ d \in Thread /\ pc \in [Thread -> PC]
      /\ pc[c] = "critical" /\ pc' = [pc EXCEPT ![c] = "awaiting"]
  BY CallerIsThread DEF Enter, Goto, Types, TypeOK, PC
<1>2. CASE d # c
  <2>1. pc'[d] = pc[d]
    BY <1>1, <1>2
  <2>2. \A p \in 1..LastPhase(d) : Outstanding(d, p)' = Outstanding(d, p)
    BY <1>2, EnterOutstanding, OutstandingIsNat
  <2>. QED  BY <1>1, <2>1, <2>2, AccountKept DEF calls
<1>3. CASE d = c
  <2>1. pc'[c] = "awaiting" /\ ~InCall(c) /\ pc[c] \notin Returning
    BY <1>1 DEF InCall, Returning
  <2>2. signals[c] = 0 /\ answer[c] # "stopped"
    BY <1>3, <2>1 DEF Account, Outcome, Fulfilled
  <2>3. InCall(c)'
    BY <1>1, <2>1, <2>2 DEF InCall, calls
  <2>4. \A p \in 1..LastPhase(c) : Outstanding(c, p) = 0 /\ good[c][p] = 0 /\ count[c][p] = 0
    BY <1>3, <2>1 DEF Account, Ledger, Reached
  <2>5. \A p \in 1..LastPhase(c) : /\ good'[c][p] = 0 /\ count'[c][p] = 0
                                   /\ Clearance(c, p) \in Nat \ {0}
    BY <1>1, <2>4, AccountNumbers DEF calls
  <2>6. \A p \in 1..LastPhase(c) :
          Outstanding(c, p)' = IF p = 1 THEN Clearance(c, 1) ELSE 0
    <3>1. Clearance(c, 1) \in Nat
      BY AccountNumbers, PhaseFacts
    <3>. QED  BY <2>4, <3>1, EnterOutstanding DEF Clearance
  <2>7. ASSUME NEW p \in 1..LastPhase(c) PROVE Ledger(c, p)'
    <3>1. CASE p = 1
      <4>1. Reached(c, 1)'
        BY <2>3 DEF Reached
      <4>. QED  BY <2>5, <2>6, <3>1, <4>1 DEF Ledger, IsCleared
    <3>2. CASE p # 1
      BY <2>5, <2>6, <3>2 DEF Ledger, IsCleared
    <3>. QED  BY <3>1, <3>2
  <2>8. Outcome(c)'
    BY <1>1, <1>3, <2>1, <2>2, <2>5, AccountNumbers
       DEF Account, Outcome, Waiting, IsCleared, calls
  <2>. QED  BY <1>3, <2>7, <2>8 DEF Account
<1>. QED  BY <1>2, <1>3

LEMMA OrganizeAccounts ==
  ASSUME Types, NEW c \in Caller, Organize(c), NEW d \in Caller, Account(d)
  PROVE  Account(d)'
<1>1. c \in Thread /\ d \in Thread /\ pc \in [Thread -> PC]
  BY CallerIsThread DEF Types, TypeOK, PC
<1>2. CASE EnterStopped(c)
  <2>1. /\ pc[c] = "critical" /\ pc' = [pc EXCEPT ![c] = "unlock"]
        /\ answer' = [answer EXCEPT ![c] = "stopped"]
        /\ UNCHANGED <<count, good, signals>> /\ UNCHANGED pool
    BY <1>2 DEF EnterStopped, Goto
  <2>2. answer \in [Caller -> {"none", "success", "error", "stopped"}]
    BY DEF Types, TypeOK
  <2>3. CASE d # c
    BY <1>1, <2>1, <2>2, <2>3, AccountKept, SameOutstanding
  <2>4. CASE d = c
    <3>1. /\ pc'[c] = "unlock" /\ answer'[c] = "stopped"
          /\ ~InCall(c) /\ ~InCall(c)' /\ pc[c] \notin Returning
      BY <1>1, <2>1, <2>2 DEF InCall, Returning
    <3>2. signals[c] = 0 /\ signals' = signals
      BY <2>1, <2>4, <3>1 DEF Account, Outcome, Fulfilled
    <3>3. \A p \in 1..LastPhase(c) : Ledger(c, p)'
      <4>1. \A p \in 1..LastPhase(c) : ~Reached(c, p) /\ ~Reached(c, p)'
        BY <3>1 DEF Reached
      <4>2. \A p \in 1..LastPhase(c) : Outstanding(c, p)' = Outstanding(c, p)
        BY <2>1, SameOutstanding
      <4>. QED  BY <2>1, <2>4, <4>1, <4>2 DEF Account, Ledger, IsCleared
    <3>4. Outcome(c)'
      BY <2>1, <2>4, <3>1, <3>2 DEF Account, Outcome, Waiting, Returning, IsCleared
    <3>. QED  BY <2>4, <3>3, <3>4 DEF Account
  <2>. QED  BY <2>3, <2>4
<1>3. CASE Resume(c)
  <2>1. /\ signals[c] > 0 /\ pc[c] = "awaiting" /\ pc' = [pc EXCEPT ![c] = "unlock"]
        /\ UNCHANGED pool /\ UNCHANGED calls
    BY <1>3 DEF Resume, Goto
  <2>2. CASE d # c
    BY <1>1, <2>1, <2>2, AccountKept, SameOutstanding DEF calls
  <2>3. CASE d = c
    <3>1. signals[c] # 0 /\ pc'[c] = "unlock"
      BY <1>1, <2>1
    <3>. QED  BY <2>1, <2>3, <3>1, AccountKept, SameOutstanding DEF calls, Returning
  <2>. QED  BY <2>2, <2>3
<1>. QED  BY <1>2, <1>3, EnterAccounts DEF Organize

\* A phase nothing happens to.
LEMMA LedgerKept ==
  ASSUME NEW c, NEW p, Ledger(c, p), Outstanding(c, p)' = Outstanding(c, p),
         good'[c][p] = good[c][p], count'[c][p] = count[c][p],
         Reached(c, p)' <=> Reached(c, p)
  PROVE  Ledger(c, p)'
BY DEF Ledger, IsCleared

\* What every report does to the phases of its own call.
LEMMA ReportEffect ==
  ASSUME Types, NEW w \in Worker, NEW c \in Caller, NEW p \in 1..LastPhase(c),
         NEW ok \in BOOLEAN, Report(w, c, p, ok), Account(c)
  PROVE  /\ pc'[c] = pc[c] /\ Reached(c, p) /\ InCall(c)
         /\ good'[c][p] = good[c][p] + (IF ok THEN 1 ELSE 0)
         /\ \A o \in 1..LastPhase(c) : o # p => good'[c][o] = good[c][o]
         /\ Outstanding(c, p) >= 1
         /\ good[c][p] # Clearance(c, p)
<1>1. pc' = pc /\ good' = IF ok THEN [good EXCEPT ![c][p] = @ + 1] ELSE good
  BY DEF Report, locks
<1>2. DOMAIN good = Caller /\ good[c] \in [1..LastPhase(c) -> Nat]
  BY DEF Types, TypeOK
<1>3. Outstanding(c, p) >= 1
  BY ReporterWasOut
<1>4. Ledger(c, p) /\ Clearance(c, p) \in Nat /\ Outstanding(c, p) \in Nat /\ good[c][p] \in Nat
  BY AccountNumbers DEF Account
<1>5. Reached(c, p) /\ good[c][p] # Clearance(c, p)
  BY <1>3, <1>4 DEF Ledger
<1>. QED  BY <1>1, <1>2, <1>3, <1>5 DEF Reached

\* A report leaves the other calls alone.
LEMMA OtherAccounts ==
  ASSUME Types, NEW w \in Worker, NEW c \in Caller, NEW p \in 1..LastPhase(c),
         NEW ok \in BOOLEAN, Report(w, c, p, ok),
         NEW d \in Caller, d # c, Account(d),
         count'[d] = count[d], answer'[d] = answer[d], signals'[d] = signals[d],
         \A o \in 1..LastPhase(d) : Outstanding(d, o)' = Outstanding(d, o)
  PROVE  Account(d)'
<1>1. pc' = pc /\ good' = IF ok THEN [good EXCEPT ![c][p] = @ + 1] ELSE good
  BY DEF Report, locks
<1>2. DOMAIN good = Caller
  BY DEF Types
<1>3. good'[d] = good[d]
  BY <1>1, <1>2
<1>. QED  BY <1>1, <1>3, AccountKept

\* Which phases are reached depends on which ended well.
LEMMA ReachedKept ==
  ASSUME NEW c \in Caller, InCall(c)' <=> InCall(c),
         \A o \in 1..LastPhase(c) : good'[c][o] = Clearance(c, o) <=> good[c][o] = Clearance(c, o)
  PROVE  \A p \in 1..LastPhase(c) : Reached(c, p)' <=> Reached(c, p)
<1>1. \A p \in 1..LastPhase(c) : \A o \in 1..p - 1 : o \in 1..LastPhase(c)
  BY PhaseFacts
<1>. QED  BY <1>1 DEF Reached

LEMMA IgnoredAccounts ==
  ASSUME Types, NEW w \in Worker, NEW c \in Caller, NEW p \in 1..LastPhase(c),
         NEW ok \in BOOLEAN, JobIgnored(w, c, p, ok), NEW d \in Caller, Account(d)
  PROVE  Account(d)'
<1>1. /\ Report(w, c, p, ok) /\ IsCleared(c, p)
      /\ queue' \in {queue, Append(queue, PruneTask)}
      /\ UNCHANGED <<count, answer, signals>>
  BY DEF JobIgnored
<1>2. \A o : Outstanding(d, o)' = Outstanding(d, o) - (IF d = c /\ o = p THEN 1 ELSE 0)
  BY <1>1, ReportOutstanding
<1>3. CASE d # c
  <2>1. \A o \in 1..LastPhase(d) : Outstanding(d, o)' = Outstanding(d, o)
    BY <1>2, <1>3, OutstandingIsNat
  <2>. QED  BY <1>1, <1>3, <2>1, OtherAccounts
<1>4. CASE d = c
  <2>1. /\ pc'[c] = pc[c] /\ Reached(c, p) /\ InCall(c)
        /\ good'[c][p] = good[c][p] + (IF ok THEN 1 ELSE 0)
        /\ \A o \in 1..LastPhase(c) : o # p => good'[c][o] = good[c][o]
        /\ Outstanding(c, p) >= 1
        /\ good[c][p] # Clearance(c, p)
    BY <1>1, <1>4, ReportEffect
  <2>2. /\ Ledger(c, p)
        /\ Clearance(c, p) \in Nat /\ Outstanding(c, p) \in Nat /\ good[c][p] \in Nat
    BY <1>4, AccountNumbers DEF Account
  <2>3. /\ Outstanding(c, p)' + good'[c][p] < Clearance(c, p)
        /\ Outstanding(c, p)' + good'[c][p] <= Clearance(c, p)
        /\ good'[c][p] # Clearance(c, p)
    <3>1. Outstanding(c, p)' = Outstanding(c, p) - 1
      BY <1>2, <1>4
    <3>2. Outstanding(c, p) + good[c][p] < Clearance(c, p)
      BY <1>1, <2>1, <2>2 DEF Ledger
    <3>. QED  BY <2>1, <2>2, <3>1, <3>2
  <2>4. InCall(c)' /\ InCall(c)
    BY <1>1, <2>1 DEF InCall
  <2>5. \A o \in 1..LastPhase(c) : good'[c][o] = Clearance(c, o) <=> good[c][o] = Clearance(c, o)
    BY <2>1, <2>3
  <2>6. \A o \in 1..LastPhase(c) : Reached(c, o)' <=> Reached(c, o)
    BY <2>4, <2>5, ReachedKept
  <2>7. signals[c] = 1
    BY <1>1, <1>4, <2>1 DEF Account, Outcome, Waiting
  <2>8. Outcome(c)'
    BY <1>1, <1>4, <2>4, <2>5, <2>6, <2>7, <2>1, AccountNumbers
       DEF Account, Outcome, Fulfilled, IsCleared
  <2>9. ASSUME NEW o \in 1..LastPhase(c) PROVE Ledger(c, o)'
    <3>1. CASE o = p
      <4>1. /\ count'[c][p] = Clearance(c, p) /\ count'[c][p] <= Clearance(c, p)
            /\ Reached(c, p)'
        BY <1>1, <2>1, <2>2, <2>6 DEF IsCleared
      <4>. QED  BY <2>3, <3>1, <4>1 DEF Ledger, IsCleared
    <3>2. CASE o # p
      <4>1. Outstanding(c, o)' = Outstanding(c, o)
        BY <1>2, <1>4, <3>2, AccountNumbers
      <4>2. Ledger(c, o) /\ good'[c][o] = good[c][o] /\ count'[c][o] = count[c][o]
        BY <1>1, <1>4, <2>1, <3>2 DEF Account
      <4>. QED  BY <2>6, <4>1, <4>2, LedgerKept
    <3>. QED  BY <3>1, <3>2
  <2>. QED  BY <1>4, <2>8, <2>9 DEF Account
<1>. QED  BY <1>3, <1>4

LEMMA CountedAccounts ==
  ASSUME Types, NEW w \in Worker, NEW c \in Caller, NEW p \in 1..LastPhase(c),
         NEW ok \in BOOLEAN, JobCounted(w, c, p, ok), NEW d \in Caller, Account(d)
  PROVE  Account(d)'
<1>1. /\ Report(w, c, p, ok) /\ ~IsCleared(c, p) /\ NextCount(c, p, ok) # Clearance(c, p)
      /\ queue' \in {queue, Append(queue, PruneTask)}
      /\ count' = [count EXCEPT ![c][p] = NextCount(c, p, ok)]
      /\ UNCHANGED <<answer, signals>>
  BY DEF JobCounted
<1>2. \A o : Outstanding(d, o)' = Outstanding(d, o) - (IF d = c /\ o = p THEN 1 ELSE 0)
  BY <1>1, ReportOutstanding
<1>3. DOMAIN count = Caller /\ count[c] \in [1..LastPhase(c) -> Nat]
  BY DEF Types, TypeOK
<1>4. CASE d # c
  <2>1. \A o \in 1..LastPhase(d) : Outstanding(d, o)' = Outstanding(d, o)
    BY <1>2, <1>4, OutstandingIsNat
  <2>2. count'[d] = count[d]
    BY <1>1, <1>3, <1>4
  <2>. QED  BY <1>1, <1>4, <2>1, <2>2, OtherAccounts
<1>5. CASE d = c
  <2>1. ok /\ NextCount(c, p, ok) = count[c][p] + 1
    BY <1>1 DEF NextCount
  <2>2. /\ pc'[c] = pc[c] /\ Reached(c, p) /\ InCall(c)
        /\ good'[c][p] = good[c][p] + 1
        /\ \A o \in 1..LastPhase(c) : o # p => good'[c][o] = good[c][o]
        /\ Outstanding(c, p) >= 1
        /\ good[c][p] # Clearance(c, p)
    BY <1>1, <1>5, <2>1, ReportEffect
  <2>3. /\ count'[c][p] = count[c][p] + 1
        /\ \A o \in 1..LastPhase(c) : o # p => count'[c][o] = count[c][o]
    BY <1>1, <1>3, <2>1
  <2>4. /\ Ledger(c, p) /\ Clearance(c, p) \in Nat /\ Outstanding(c, p) \in Nat
        /\ good[c][p] \in Nat /\ count[c][p] \in Nat
    BY <1>5, AccountNumbers DEF Account
  <2>5. /\ count'[c][p] # Clearance(c, p) /\ count'[c][p] <= Clearance(c, p)
        /\ good'[c][p] = count'[c][p]
        /\ Outstanding(c, p)' + good'[c][p] <= Clearance(c, p)
    <3>1. Outstanding(c, p)' = Outstanding(c, p) - 1
      BY <1>2, <1>5
    <3>2. count[c][p] <= Clearance(c, p) /\ count[c][p] # Clearance(c, p)
          /\ good[c][p] = count[c][p] /\ Outstanding(c, p) + good[c][p] <= Clearance(c, p)
      BY <1>1, <2>4 DEF Ledger, IsCleared
    <3>3. count[c][p] + 1 # Clearance(c, p)
      BY <1>1, <2>1
    <3>. QED  BY <2>2, <2>3, <2>4, <3>1, <3>2, <3>3
  <2>6. InCall(c)' <=> InCall(c)
    BY <1>1, <2>2 DEF InCall
  <2>7. \A o \in 1..LastPhase(c) : good'[c][o] = Clearance(c, o) <=> good[c][o] = Clearance(c, o)
    BY <2>2, <2>5
  <2>8. \A o \in 1..LastPhase(c) : Reached(c, o)' <=> Reached(c, o)
    BY <2>6, <2>7, ReachedKept
  <2>9. signals[c] = 0
    BY <1>1, <1>5, <2>2 DEF Account, Outcome, Fulfilled
  <2>10. \A o \in 1..LastPhase(c) : IsCleared(c, o)' => IsCleared(c, o)
    BY <2>3, <2>5 DEF IsCleared
  <2>11. Outcome(c)'
    BY <1>1, <1>5, <2>2, <2>6, <2>7, <2>9, <2>10, AccountNumbers DEF Account, Outcome, Waiting
  <2>12. ASSUME NEW o \in 1..LastPhase(c) PROVE Ledger(c, o)'
    <3>1. CASE o = p
      BY <2>2, <2>5, <2>8, <3>1 DEF Ledger, IsCleared
    <3>2. CASE o # p
      <4>1. Outstanding(c, o)' = Outstanding(c, o)
        BY <1>2, <1>5, <3>2, AccountNumbers
      <4>2. Ledger(c, o) /\ good'[c][o] = good[c][o] /\ count'[c][o] = count[c][o]
        BY <1>5, <2>2, <2>3, <3>2 DEF Account
      <4>. QED  BY <2>8, <4>1, <4>2, LedgerKept
    <3>. QED  BY <3>1, <3>2
  <2>. QED  BY <1>5, <2>11, <2>12 DEF Account
<1>. QED  BY <1>4, <1>5

\* The job that clears a phase.
LEMMA ClearsEffect ==
  ASSUME Types, NEW w \in Worker, NEW c \in Caller, NEW p \in 1..LastPhase(c),
         NEW ok \in BOOLEAN, JobClears(w, c, p, ok), Account(c)
  PROVE  /\ Report(w, c, p, ok)
         /\ pc'[c] = pc[c] /\ Reached(c, p) /\ InCall(c) /\ signals[c] = 0
         /\ count'[c][p] = Clearance(c, p)
         /\ \A o \in 1..LastPhase(c) : o # p => /\ good'[c][o] = good[c][o]
                                                /\ count'[c][o] = count[c][o]
         /\ ok => good'[c][p] = Clearance(c, p) /\ good[c][p] + 1 = Clearance(c, p)
         /\ ~ok => good'[c][p] = good[c][p]
         /\ \A o \in 1..LastPhase(c) : good[c][o] = Clearance(c, o) => IsCleared(c, o)
         /\ Outstanding(c, p) >= 1
         /\ good[c][p] # Clearance(c, p)
<1>1. /\ Report(w, c, p, ok) /\ ~IsCleared(c, p) /\ NextCount(c, p, ok) = Clearance(c, p)
      /\ count' = [count EXCEPT ![c][p] = Clearance(c, p)]
  BY DEF JobClears
<1>2. DOMAIN count = Caller /\ count[c] \in [1..LastPhase(c) -> Nat]
  BY DEF Types, TypeOK
<1>3. /\ pc'[c] = pc[c] /\ Reached(c, p) /\ InCall(c)
      /\ good'[c][p] = good[c][p] + (IF ok THEN 1 ELSE 0)
      /\ \A o \in 1..LastPhase(c) : o # p => good'[c][o] = good[c][o]
      /\ Outstanding(c, p) >= 1
      /\ good[c][p] # Clearance(c, p)
  BY <1>1, ReportEffect
<1>4. /\ count'[c][p] = Clearance(c, p)
      /\ \A o \in 1..LastPhase(c) : o # p => count'[c][o] = count[c][o]
  BY <1>1, <1>2
<1>5. good[c][p] = count[c][p] /\ good[c][p] \in Nat
  BY <1>1, AccountNumbers DEF Account, Ledger
<1>6. /\ ok => good'[c][p] = Clearance(c, p) /\ good[c][p] + 1 = Clearance(c, p)
      /\ ~ok => good'[c][p] = good[c][p]
  <2>1. CASE ok
    <3>1. NextCount(c, p, ok) = count[c][p] + 1
      BY <2>1 DEF NextCount
    <3>2. count[c][p] + 1 = Clearance(c, p)
      BY <1>1, <3>1
    <3>. QED  BY <1>3, <1>5, <2>1, <3>2
  <2>2. CASE ~ok
    BY <1>3, <1>5, <2>2
  <2>. QED  BY <2>1, <2>2
<1>7. signals[c] = 0
  BY <1>1, <1>3 DEF Account, Outcome, Fulfilled
<1>8. \A o \in 1..LastPhase(c) : good[c][o] = Clearance(c, o) => IsCleared(c, o)
  BY DEF Account, Ledger, IsCleared
<1>. QED  BY <1>1, <1>3, <1>4, <1>6, <1>7, <1>8

LEMMA ContinuesAccounts ==
  ASSUME Types, NEW w \in Worker, NEW c \in Caller, NEW p \in 1..LastPhase(c),
         JobContinues(w, c, p), NEW d \in Caller, Account(d)
  PROVE  Account(d)'
<1>1. PICK ok \in BOOLEAN : ok /\ JobClears(w, c, p, ok)
  BY DEF JobContinues
<1>2. p < LastPhase(c) /\ answer' = answer /\ signals' = signals
  BY DEF JobContinues
<1>3. p + 1 \in 1..LastPhase(c)
  BY <1>2, PhaseFacts
<1>4. \A o : Outstanding(d, o)' =
        Outstanding(d, o) - (IF d = c /\ o = p THEN 1 ELSE 0)
                          + (IF d = c /\ o = p + 1 THEN Clearance(c, p + 1) ELSE 0)
  BY ContinueOutstanding DEF Clearance
<1>5. CASE d # c
  <2>1. \A o \in 1..LastPhase(d) : Outstanding(d, o)' = Outstanding(d, o)
    BY <1>4, <1>5, OutstandingIsNat
  <2>2. count'[d] = count[d] /\ Report(w, c, p, ok)
    BY <1>1, <1>5 DEF JobClears, Types
  <2>. QED  BY <1>2, <1>5, <2>1, <2>2, OtherAccounts
<1>6. CASE d = c
  <2>1. /\ pc'[c] = pc[c] /\ Reached(c, p) /\ InCall(c) /\ signals[c] = 0
        /\ count'[c][p] = Clearance(c, p) /\ good'[c][p] = Clearance(c, p)
        /\ good[c][p] + 1 = Clearance(c, p)
        /\ \A o \in 1..LastPhase(c) : o # p => /\ good'[c][o] = good[c][o]
                                               /\ count'[c][o] = count[c][o]
        /\ Outstanding(c, p) >= 1
        /\ good[c][p] # Clearance(c, p)
    <3>1. Account(c)
      BY <1>6
    <3>2. JobClears(w, c, p, ok) /\ ok
      BY <1>1
    <3>. QED  BY <3>1, <3>2, ClearsEffect, Zenon
  <2>2. InCall(c)' /\ InCall(c)
    BY <1>2, <2>1 DEF InCall
  <2>3. \A o \in 1..LastPhase(c) :
          /\ Clearance(c, o) \in Nat \ {0} /\ Outstanding(c, o) \in Nat
          /\ good[c][o] \in Nat /\ count[c][o] \in Nat /\ Ledger(c, o)
    BY <1>6, AccountNumbers DEF Account
  <2>4. ASSUME NEW o \in 1..LastPhase(c), o > p
        PROVE  ~Reached(c, o) /\ Outstanding(c, o) = 0 /\ good[c][o] = 0 /\ count[c][o] = 0
    <3>1. p \in 1..o - 1
      BY <2>4, PhaseFacts
    <3>2. ~Reached(c, o)
      BY <2>1, <3>1 DEF Reached
    <3>. QED  BY <2>3, <3>2 DEF Ledger
  <2>5. Ledger(c, p)'
    <3>1. Outstanding(c, p)' = Outstanding(c, p) - 1
      BY <1>4, <1>6, <2>3
    <3>2. Outstanding(c, p)' = 0
      BY <2>1, <2>3, <3>1 DEF Ledger
    <3>3. Reached(c, p)'
      <4>1. \A o \in 1..p - 1 : o \in 1..LastPhase(c) /\ o # p
        BY PhaseFacts
      <4>. QED  BY <2>1, <2>2, <4>1 DEF Reached
    <3>. QED  BY <2>1, <2>3, <3>2, <3>3 DEF Ledger, IsCleared
  <2>6. Ledger(c, p + 1)'
    <3>1. good'[c][p + 1] = 0 /\ count'[c][p + 1] = 0 /\ Outstanding(c, p + 1) = 0
      BY <1>3, <2>1, <2>4
    <3>2. Outstanding(c, p + 1)' = Clearance(c, p + 1)
      BY <1>3, <1>4, <1>6, <2>3, <3>1
    <3>3. Reached(c, p + 1)'
      <4>1. \A o \in 1..(p + 1) - 1 : o = p \/ (o \in 1..p - 1 /\ o \in 1..LastPhase(c) /\ o # p)
        BY PhaseFacts
      <4>. QED  BY <2>1, <2>2, <4>1 DEF Reached
    <3>. QED  BY <1>3, <2>3, <3>1, <3>2, <3>3 DEF Ledger, IsCleared
  <2>7. ASSUME NEW o \in 1..LastPhase(c), o < p PROVE Ledger(c, o)'
    <3>1. Outstanding(c, o)' = Outstanding(c, o)
      BY <1>4, <1>6, <2>3, <2>7
    <3>2. good'[c][o] = good[c][o] /\ count'[c][o] = count[c][o]
      BY <2>1, <2>7
    <3>3. Reached(c, o)' <=> Reached(c, o)
      <4>1. \A q \in 1..o - 1 : q \in 1..LastPhase(c) /\ q # p
        BY <2>7, PhaseFacts
      <4>. QED  BY <2>1, <2>2, <4>1 DEF Reached
    <3>. QED  BY <2>3, <3>1, <3>2, <3>3, LedgerKept
  <2>8. ASSUME NEW o \in 1..LastPhase(c), o > p + 1 PROVE Ledger(c, o)'
    <3>1. Outstanding(c, o)' = Outstanding(c, o)
      BY <1>4, <1>6, <2>3, <2>8
    <3>2. good'[c][o] = good[c][o] /\ count'[c][o] = count[c][o] /\ ~Reached(c, o)
      BY <2>1, <2>4, <2>8
    <3>3. ~Reached(c, o)'
      <4>1. p + 1 \in 1..o - 1
        BY <2>8, PhaseFacts
      <4>2. good'[c][p + 1] = 0 /\ Clearance(c, p + 1) # 0
        BY <1>3, <2>1, <2>3, <2>4
      <4>. QED  BY <4>1, <4>2 DEF Reached
    <3>. QED  BY <2>3, <3>1, <3>2, <3>3, LedgerKept
  <2>9. \A o \in 1..LastPhase(c) : Ledger(c, o)'
    <3>1. \A o \in 1..LastPhase(c) : o = p \/ o = p + 1 \/ o < p \/ o > p + 1
      BY PhaseFacts
    <3>. QED  BY <2>5, <2>6, <2>7, <2>8, <3>1
  <2>10. Outcome(c)'
    <3>1. LastPhase(c) \in 1..LastPhase(c) /\ LastPhase(c) # p
      BY <1>2, PhaseFacts
    <3>2. good'[c][LastPhase(c)] = good[c][LastPhase(c)]
      BY <2>1, <3>1
    <3>3. \A o \in 1..LastPhase(c) : count'[c][o] = Clearance(c, o) => good'[c][o] = Clearance(c, o)
      BY <1>6, <2>1 DEF Account, Outcome, Waiting, IsCleared
    <3>. QED  BY <1>2, <1>6, <2>1, <2>2, <3>2, <3>3 DEF Account, Outcome, Waiting, IsCleared
  <2>. QED  BY <1>6, <2>9, <2>10 DEF Account
<1>. QED  BY <1>5, <1>6

\* The promise is fulfilled by the job that clears the last phase, or fails one.
LEMMA CompletesAccounts ==
  ASSUME Types, NEW w \in Worker, NEW c \in Caller, NEW p \in 1..LastPhase(c),
         NEW ok \in BOOLEAN, NEW stale \in BOOLEAN, JobCompletes(w, c, p, ok, stale),
         NEW d \in Caller, Account(d)
  PROVE  Account(d)'
<1>1. /\ JobClears(w, c, p, ok) /\ (ok => p = LastPhase(c))
      /\ queue' \in {queue, Append(queue, PruneTask)}
      /\ answer' = [answer EXCEPT ![c] = IF ok THEN "success" ELSE "error"]
      /\ signals' = [signals EXCEPT ![c] = @ + 1]
  BY DEF JobCompletes
<1>2. Report(w, c, p, ok) /\ count' = [count EXCEPT ![c][p] = Clearance(c, p)]
  BY <1>1 DEF JobClears
<1>3. /\ answer \in [Caller -> {"none", "success", "error", "stopped"}]
      /\ signals \in [Caller -> Nat]
  BY DEF Types, TypeOK
<1>4. \A o : Outstanding(d, o)' = Outstanding(d, o) - (IF d = c /\ o = p THEN 1 ELSE 0)
  BY <1>1, <1>2, ReportOutstanding
<1>5. CASE d # c
  <2>1. \A o \in 1..LastPhase(d) : Outstanding(d, o)' = Outstanding(d, o)
    BY <1>4, <1>5, OutstandingIsNat
  <2>2. count'[d] = count[d] /\ answer'[d] = answer[d] /\ signals'[d] = signals[d]
    BY <1>1, <1>2, <1>3, <1>5 DEF Types
  <2>. QED  BY <1>2, <1>5, <2>1, <2>2, OtherAccounts
<1>6. CASE d = c
  <2>1. Account(c)
    BY <1>6
  <2>2. /\ pc'[c] = pc[c] /\ Reached(c, p) /\ InCall(c) /\ signals[c] = 0
        /\ count'[c][p] = Clearance(c, p)
        /\ \A o \in 1..LastPhase(c) : o # p => /\ good'[c][o] = good[c][o]
                                               /\ count'[c][o] = count[c][o]
        /\ ok => good'[c][p] = Clearance(c, p) /\ good[c][p] + 1 = Clearance(c, p)
        /\ ~ok => good'[c][p] = good[c][p]
        /\ \A o \in 1..LastPhase(c) : good[c][o] = Clearance(c, o) => IsCleared(c, o)
        /\ Outstanding(c, p) >= 1
        /\ good[c][p] # Clearance(c, p)
    <3>1. JobClears(w, c, p, ok)
      BY <1>1
    <3>. QED  BY <2>1, <3>1, ClearsEffect
  <2>3. /\ signals'[c] = 1
        /\ ok => answer'[c] = "success"
        /\ ~ok => answer'[c] = "error"
    BY <1>1, <1>3, <2>2
  <2>4. InCall(c)' /\ InCall(c) /\ answer'[c] # "stopped"
    BY <2>2, <2>3 DEF InCall
  <2>5. \A o \in 1..LastPhase(c) :
          /\ Clearance(c, o) \in Nat \ {0} /\ Outstanding(c, o) \in Nat
          /\ good[c][o] \in Nat /\ count[c][o] \in Nat /\ Ledger(c, o)
    BY <2>1, AccountNumbers DEF Account
  <2>6. \A o \in 1..LastPhase(c) : o <= p => (Reached(c, o)' <=> Reached(c, o))
    <3>1. \A o \in 1..LastPhase(c) : o <= p =>
            \A q \in 1..o - 1 : q \in 1..LastPhase(c) /\ q # p
      BY PhaseFacts
    <3>. QED  BY <2>2, <2>4, <3>1 DEF Reached
  <2>7. \A o \in 1..LastPhase(c) : o > p => ~Reached(c, o) /\ ~Reached(c, o)'
    <3>1. \A o \in 1..LastPhase(c) : o > p => p \in 1..o - 1 /\ p # LastPhase(c)
      BY PhaseFacts
    <3>2. ASSUME NEW o \in 1..LastPhase(c), o > p PROVE ~Reached(c, o) /\ ~Reached(c, o)'
      <4>1. p \in 1..o - 1 /\ ~ok
        BY <1>1, <3>1, <3>2
      <4>2. good[c][p] # Clearance(c, p) /\ good'[c][p] # Clearance(c, p)
        BY <2>2, <4>1
      <4>. QED  BY <4>1, <4>2 DEF Reached
    <3>. QED  BY <3>2
  <2>8. Ledger(c, p)'
    <3>1. Outstanding(c, p)' = Outstanding(c, p) - 1
      BY <1>4, <1>6, <2>5
    <3>2. Outstanding(c, p) + good[c][p] <= Clearance(c, p)
      BY <2>5 DEF Ledger
    <3>3. p <= p /\ Reached(c, p)'
      BY <2>2, <2>6, PhaseFacts
    <3>4. CASE ok
      BY <2>2, <2>5, <3>1, <3>2, <3>3, <3>4 DEF Ledger, IsCleared
    <3>5. CASE ~ok
      BY <2>2, <2>5, <3>1, <3>2, <3>3, <3>5 DEF Ledger, IsCleared
    <3>. QED  BY <3>4, <3>5
  <2>9. ASSUME NEW o \in 1..LastPhase(c), o # p PROVE Ledger(c, o)'
    <3>1. Outstanding(c, o)' = Outstanding(c, o)
      BY <1>4, <1>6, <2>5, <2>9
    <3>2. good'[c][o] = good[c][o] /\ count'[c][o] = count[c][o]
      BY <2>2, <2>9
    <3>3. Reached(c, o)' <=> Reached(c, o)
      BY <2>6, <2>7, PhaseFacts
    <3>. QED  BY <2>5, <3>1, <3>2, <3>3, LedgerKept
  <2>10. Fulfilled(c)'
    <3>1. ASSUME NEW o \in 1..LastPhase(c), Reached(c, o)' PROVE count'[c][o] = Clearance(c, o)
      <4>1. o <= p
        BY <2>7, <3>1, PhaseFacts
      <4>2. CASE o = p
        BY <2>2, <4>2
      <4>3. CASE o # p
        <5>1. o \in 1..p - 1
          BY <4>1, <4>3, PhaseFacts
        <5>2. good[c][o] = Clearance(c, o)
          BY <2>2, <5>1 DEF Reached
        <5>. QED  BY <2>2, <4>3, <5>2 DEF IsCleared
      <4>. QED  BY <4>2, <4>3
    <3>. QED  BY <2>4, <3>1 DEF Fulfilled, IsCleared
  <2>11. answer'[c] = "success" => good'[c][LastPhase(c)] = Clearance(c, LastPhase(c))
    <3>1. CASE ok
      BY <1>1, <2>2, <3>1
    <3>2. CASE ~ok
      BY <2>3, <3>2
    <3>. QED  BY <3>1, <3>2
  <2>12. Outcome(c)'
    BY <2>3, <2>4, <2>10, <2>11 DEF Outcome
  <2>. QED  BY <1>6, <2>8, <2>9, <2>12 DEF Account
<1>. QED  BY <1>5, <1>6

LEMMA JobAccounts ==
  ASSUME Types, NEW w \in Worker, Job(w), NEW d \in Caller, Account(d)
  PROVE  Account(d)'
<1>1. CASE StartJob(w) \/ EndPrune(w)
  <2>1. UNCHANGED calls /\ pc' = pc
    BY <1>1 DEF StartJob, EndPrune, locks
  <2>2. \A p \in 1..LastPhase(d) : Outstanding(d, p)' = Outstanding(d, p)
    BY <1>1, StartKeepsOutstanding
  <2>. QED  BY <2>1, <2>2, AccountKept DEF calls
<1>. QED  BY <1>1, ContinuesAccounts, IgnoredAccounts, CountedAccounts, CompletesAccounts DEF Job

\* Every call's account is in order, with the types it needs.
Accounts == Types /\ \A c \in Caller : Account(c)

LEMMA NextAccounts == Accounts /\ [Next]_vars => Accounts'
<1>. SUFFICES ASSUME Accounts, [Next]_vars PROVE Accounts'
  OBVIOUS
<1>1. Types'
  BY NextTypes DEF Accounts
<1>2. ASSUME NEW c \in Caller PROVE Account(c)'
  <2>1. Types /\ Account(c)
    BY DEF Accounts
  <2>2. CASE UNCHANGED vars
    BY <2>1, <2>2, AccountKept, SameOutstanding DEF vars, pool
  <2>. QED  BY <2>1, <2>2, MutexAccounts, OrganizeAccounts, CloseAccounts, JobAccounts DEF Next
<1>. QED  BY <1>1, <1>2 DEF Accounts

\* Whatever the jobs do, and in whatever order their workers report.
THEOREM AccountsInOrder == Spec => []Accounts
BY InitAccounts, InitTypes, NextAccounts, PTL DEF Spec, Accounts

\* prom.set_value runs once for a call: a synchronizer that was cleared, by the
\* last job or by a failure, invokes its handler no more.
THEOREM PromiseIsKeptOnce == Spec => []CompletesOnce
<1>1. Accounts => CompletesOnce
  <2>. SUFFICES ASSUME Accounts, NEW c \in Caller
       PROVE  /\ signals[c] <= 1
              /\ pc[c] \in {"start", "wait", "next", "data", "entered", "critical"} => signals[c] = 0
    BY DEF CompletesOnce
  <2>1. Outcome(c)
    BY DEF Accounts, Account
  <2>. QED  BY <2>1 DEF Outcome, Fulfilled, InCall, Returning
<1>. QED  BY <1>1, AccountsInOrder, PTL

\* The last phase is reached only through all of the others.
LEMMA SuccessHasAll == Accounts => SuccessIsEarned
<1>. SUFFICES ASSUME Accounts, NEW c \in Caller, answer[c] = "success",
                     NEW p \in 1..LastPhase(c)
     PROVE  good[c][p] = Phases(c)[p]
  BY DEF SuccessIsEarned
<1>1. Account(c) /\ Types
  BY DEF Accounts
<1>2. good[c][LastPhase(c)] = Clearance(c, LastPhase(c))
  BY <1>1 DEF Account, Outcome
<1>3. CASE p = LastPhase(c)
  BY <1>2, <1>3 DEF Clearance
<1>4. CASE p # LastPhase(c)
  <2>1. LastPhase(c) \in 1..LastPhase(c) /\ Clearance(c, LastPhase(c)) # 0
    BY <1>1, AccountNumbers
  <2>2. Reached(c, LastPhase(c))
    BY <1>1, <1>2, <2>1 DEF Account, Ledger
  <2>3. p \in 1..LastPhase(c) - 1
    BY <1>4, <2>1, PhaseFacts
  <2>. QED  BY <2>2, <2>3 DEF Reached, Clearance
<1>. QED  BY <1>3, <1>4

\* organize returns success only if every job of every phase ended well.
THEOREM SuccessIsProved == Spec => []SuccessIsEarned
BY SuccessHasAll, AccountsInOrder, PTL

-----------------------------------------------------------------------------
(***************************************************************************)
(* The refinement: every step of the gate is a step of SerialCalls or a    *)
(* stutter, given the accounts and what the answers mean.                  *)
(***************************************************************************)

View == [t \in Thread |-> Place(t)]
PassedPhases == [c \in Caller |-> Passed(c)]

\* A caller has its answer when it leaves, and none while its jobs are at work;
\* the organizers are stopped by the one who closes, once.
Answers ==
  /\ \A c \in Caller :
       /\ pc[c] \notin Returning /\ signals[c] = 0 => answer[c] = "none"
       /\ pc[c] \in Returning \/ signals[c] # 0 => answer[c] # "none"
  /\ stopped <=> pc[Stopper] \in Returning \cup {"aborting", "closing"}

LEMMA InitAnswers == Init => Answers
BY CallerIsThread DEF Init, Answers, Returning

\* Threads that take and give back mutexes answer nobody.
LEMMA MutexAnswers ==
  ASSUME Types, NEW t \in Thread, Call(t) \/ Lock(t) \/ Unlock(t), Answers
  PROVE  Answers'
<1>1. UNCHANGED <<stopped, answer, signals>>
  BY DEF Call, Lock, Unlock, LockWait, LockNext, LockData, PassNext, UnlockNext, UnlockData,
         UnlockWait, calls
<1>2. pc \in [Thread -> PC] /\ \A c \in Caller : c \in Thread /\ c # Stopper
  BY ThreadAssumption DEF Thread, Types, TypeOK, PC
<1>3. \A c \in Caller : pc'[c] \in Returning <=> pc[c] \in Returning
  <2>1. CASE Call(t) \/ Lock(t)
    BY <1>2, <2>1 DEF Call, Lock, LockWait, LockNext, LockData, PassNext, Goto, FirstStep, Returning
  <2>2. CASE Unlock(t)
    BY <1>2, <2>2 DEF Unlock, UnlockNext, UnlockData, UnlockWait, Goto, Returning
  <2>. QED  BY <2>1, <2>2
<1>4. pc'[Stopper] \in Returning \cup {"aborting", "closing"} <=>
        pc[Stopper] \in Returning \cup {"aborting", "closing"}
  <2>0. Stopper \in Thread
    BY DEF Thread
  <2>1. CASE t # Stopper
    <3>1. pc'[Stopper] = pc[Stopper]
      BY <1>2, <2>0, <2>1 DEF Call, Lock, Unlock, LockWait, LockNext, LockData, PassNext,
                              UnlockNext, UnlockData, UnlockWait, Goto
    <3>. QED  BY <3>1
  <2>2. CASE t = Stopper /\ (Call(t) \/ Lock(t))
    <3>1. /\ pc[Stopper] \in {"start", "wait", "next", "data", "entered"}
          /\ pc'[Stopper] \in {"wait", "next", "data", "entered", "critical"}
      BY <1>2, <2>0, <2>2 DEF Call, Lock, LockWait, LockNext, LockData, PassNext, Goto, FirstStep
    <3>. QED  BY <3>1 DEF Returning
  <2>3. CASE t = Stopper /\ Unlock(t)
    <3>1. /\ pc[Stopper] \in Returning
          /\ pc'[Stopper] \in Returning \cup {"closing"}
      BY <1>2, <2>0, <2>3 DEF Unlock, UnlockNext, UnlockData, UnlockWait, Goto, Returning
    <3>. QED  BY <3>1
  <2>. QED  BY <2>1, <2>2, <2>3
<1>. QED  BY <1>1, <1>3, <1>4 DEF Answers

LEMMA OrganizeAnswers ==
  ASSUME Accounts, NEW c \in Caller, Organize(c), Answers
  PROVE  Answers'
<1>1. /\ pc \in [Thread -> PC] /\ c \in Thread /\ Stopper \in Thread /\ c # Stopper
      /\ \A d \in Caller : d \in Thread
      /\ answer \in [Caller -> {"none", "success", "error", "stopped"}]
  BY ThreadAssumption DEF Thread, Accounts, Types, TypeOK, PC
<1>2. UNCHANGED <<stopped, signals>> /\ pc'[Stopper] = pc[Stopper]
  BY <1>1 DEF Organize, Enter, EnterStopped, Resume, Goto, calls
<1>3. CASE Enter(c)
  BY <1>1, <1>2, <1>3 DEF Enter, Goto, Answers, Returning, calls
<1>4. CASE EnterStopped(c)
  BY <1>1, <1>2, <1>4 DEF EnterStopped, Goto, Answers, Returning
<1>5. CASE Resume(c)
  <2>1. signals[c] # 0
    BY <1>5 DEF Resume, Accounts, Types, TypeOK
  <2>. QED  BY <1>1, <1>2, <1>5, <2>1 DEF Resume, Goto, Answers, Returning, calls
<1>. QED  BY <1>3, <1>4, <1>5 DEF Organize

LEMMA CloseAnswers ==
  ASSUME Types, Close, Answers
  PROVE  Answers'
<1>1. /\ pc \in [Thread -> PC] /\ Stopper \in Thread
      /\ \A d \in Caller : d \in Thread /\ d # Stopper
  BY ThreadAssumption DEF Thread, Types, TypeOK, PC
<1>2. UNCHANGED calls /\ \A d \in Caller : pc'[d] = pc[d]
  BY <1>1 DEF Close, StopOrganizers, AbortPool, CloseDatabase, Goto
<1>3. stopped' <=> pc'[Stopper] \in Returning \cup {"aborting", "closing"}
  BY <1>1 DEF Close, StopOrganizers, AbortPool, CloseDatabase, Goto, Answers, Returning
<1>. QED  BY <1>2, <1>3 DEF Answers, calls

\* A promise is fulfilled with an answer.
LEMMA JobAnswers ==
  ASSUME Types, NEW w \in Worker, Job(w), Answers
  PROVE  Answers'
<1>1. UNCHANGED <<pc, stopped>>
  BY JobKeeps
<1>2. CASE UNCHANGED <<answer, signals>>
  BY <1>1, <1>2 DEF Answers
<1>3. ASSUME NEW c \in Caller, NEW p \in 1..LastPhase(c), NEW ok \in BOOLEAN,
             NEW stale \in BOOLEAN, JobCompletes(w, c, p, ok, stale)
      PROVE  Answers'
  <2>1. /\ answer \in [Caller -> {"none", "success", "error", "stopped"}]
        /\ signals \in [Caller -> Nat]
    BY DEF Types, TypeOK
  <2>2. /\ answer' = [answer EXCEPT ![c] = IF ok THEN "success" ELSE "error"]
        /\ signals' = [signals EXCEPT ![c] = @ + 1]
    BY <1>3 DEF JobCompletes
  <2>3. signals'[c] # 0 /\ answer'[c] # "none"
    BY <2>1, <2>2
  <2>4. \A d \in Caller \ {c} : signals'[d] = signals[d] /\ answer'[d] = answer[d]
    BY <2>1, <2>2
  <2>. QED  BY <1>1, <2>3, <2>4 DEF Answers
<1>. QED  BY <1>2, <1>3 DEF Job, StartJob, EndPrune, JobContinues, JobIgnored, JobCounted, calls

Served == Gate /\ Accounts /\ Answers

LEMMA NextServed == Served /\ [Next]_vars => Served'
<1>. SUFFICES ASSUME Served, [Next]_vars PROVE Served'
  OBVIOUS
<1>1. Gate' /\ Accounts'
  BY NextPreserves, NextAccounts DEF Served
<1>2. Types /\ Accounts /\ Answers
  BY DEF Served, Accounts
<1>3. Answers'
  <2>1. CASE UNCHANGED vars
    BY <1>2, <2>1 DEF Answers, vars
  <2>. QED  BY <1>2, <2>1, MutexAnswers, OrganizeAnswers, CloseAnswers, JobAnswers DEF Next
<1>. QED  BY <1>1, <1>3 DEF Served

\* What an outsider sees of a thread that moves.
LEMMA MoveIsSeen ==
  ASSUME pc \in [Thread -> PC], NEW t \in Thread, NEW from, NEW to, Goto(t, from, to)
  PROVE  /\ pc[t] = from /\ pc'[t] = to
         /\ View' = [View EXCEPT ![t] = Place(t)']
<1>1. pc[t] = from /\ pc'[t] = to
  BY DEF Goto
<1>2. \A s \in Thread \ {t} : pc'[s] = pc[s]
  BY DEF Goto
<1>3. \A s \in Thread \ {t} : Place(s)' = Place(s)
  BY <1>2 DEF Place, InSection
<1>. QED  BY <1>1, <1>3 DEF View

\* ... and of one that stays in its place.
LEMMA PlaceKept ==
  ASSUME pc \in [Thread -> PC], NEW t \in Thread, NEW from, NEW to, Goto(t, from, to),
         Place(t)' = Place(t)
  PROVE  View' = View
BY MoveIsSeen DEF View

LEMMA SamePlaces ==
  ASSUME UNCHANGED pc
  PROVE  View' = View
BY DEF View, Place, InSection

LEMMA SamePhases ==
  ASSUME UNCHANGED good
  PROVE  PassedPhases' = PassedPhases
BY DEF PassedPhases, Passed

LEMMA MutexStep ==
  ASSUME Served, NEW t \in Thread, Call(t) \/ Lock(t) \/ Unlock(t)
  PROVE  SC!Next \/ UNCHANGED SC!vars
<1>1. UNCHANGED <<stopped, answer>> /\ PassedPhases' = PassedPhases
  BY SamePhases DEF Call, Lock, Unlock, LockWait, LockNext, LockData, PassNext, UnlockNext,
                    UnlockData, UnlockWait, calls
<1>2. pc \in [Thread -> PC] /\ Gate /\ Answers /\ SC!Thread = Thread
  BY DEF Served, Gate, GateType, SC!Thread, Thread
<1>3. View' = View => UNCHANGED SC!vars
  BY <1>1 DEF SC!vars, View, PassedPhases
<1>4. CASE Call(t)
  <2>1. Goto(t, "start", FirstStep(t)) /\ FirstStep(t) \in {"wait", "next", "data"}
    BY <1>4 DEF Call, FirstStep
  <2>2. /\ pc[t] = "start" /\ pc'[t] = FirstStep(t)
        /\ View' = [View EXCEPT ![t] = Place(t)']
    BY <1>2, <2>1, MoveIsSeen
  <2>3. Place(t) = "out" /\ Place(t)' = "waiting"
    BY <2>1, <2>2 DEF Place, InSection
  <2>4. View[t] = "out" /\ View' = [View EXCEPT ![t] = "waiting"]
    BY <2>2, <2>3 DEF View
  <2>5. SC!Call(t)
    BY <1>1, <2>4 DEF SC!Call, SC!Move, View, PassedPhases
  <2>. QED  BY <1>2, <2>5 DEF SC!Next
<1>5. CASE LockWait(t) \/ LockNext(t)
  <2>1. PICK from, to \in {"wait", "next", "data"} : Goto(t, from, to)
    BY <1>5 DEF LockWait, LockNext
  <2>2. pc[t] = from /\ pc'[t] = to
    BY <1>2, <2>1, MoveIsSeen
  <2>3. Place(t)' = Place(t)
    BY <2>2 DEF Place, InSection
  <2>. QED  BY <1>2, <1>3, <2>1, <2>3, PlaceKept
<1>6. CASE LockData(t)
  <2>1. PICK to \in {"critical", "entered"} : Goto(t, "data", to)
    BY <1>6 DEF LockData
  <2>2. /\ pc[t] = "data" /\ pc'[t] = to
        /\ View' = [View EXCEPT ![t] = Place(t)']
    BY <1>2, <2>1, MoveIsSeen
  <2>3. Place(t) = "waiting" /\ Place(t)' = "inside"
    BY <2>2 DEF Place, InSection
  <2>4. View[t] = "waiting" /\ View' = [View EXCEPT ![t] = "inside"]
    BY <2>2, <2>3 DEF View
  <2>5. \A s \in Thread : View[s] # "inside"
    <3>1. owner["data"] = Nobody
      BY <1>6 DEF LockData, Take
    <3>2. \A s \in Thread : ~InSection(s)
      BY <1>2, <3>1, ThreadAssumption DEF Gate
    <3>. QED  BY <3>2 DEF View, Place
  <2>6. SC!Enter(t)
    BY <1>1, <1>2, <2>4, <2>5 DEF SC!Enter, SC!Move, View, PassedPhases
  <2>. QED  BY <1>2, <2>6 DEF SC!Next
<1>7. CASE PassNext(t) \/ UnlockNext(t)
  <2>1. PICK from, to \in {"entered", "critical", "unlock", "unlock_data"} : Goto(t, from, to)
    BY <1>7 DEF PassNext, UnlockNext
  <2>2. pc[t] = from /\ pc'[t] = to
    BY <1>2, <2>1, MoveIsSeen
  <2>3. Place(t)' = Place(t)
    BY <2>2 DEF Place, InSection
  <2>. QED  BY <1>2, <1>3, <2>1, <2>3, PlaceKept
<1>8. CASE UnlockData(t)
  <2>1. PICK to \in {"closing", "unlock_wait", "done"} : Goto(t, "unlock_data", to)
    BY <1>8 DEF UnlockData
  <2>2. /\ pc[t] = "unlock_data" /\ pc'[t] = to
        /\ View' = [View EXCEPT ![t] = Place(t)']
    BY <1>2, <2>1, MoveIsSeen
  <2>3. Place(t) = "inside" /\ Place(t)' = "returned"
    BY <2>2 DEF Place, InSection
  <2>4. View[t] = "inside" /\ View' = [View EXCEPT ![t] = "returned"]
    BY <2>2, <2>3 DEF View
  <2>5. IF t = Stopper THEN stopped ELSE answer[t] # "none"
    BY <1>2, <2>2 DEF Answers, Thread, Returning
  <2>6. SC!Leave(t)
    BY <1>1, <2>4, <2>5 DEF SC!Leave, SC!Move, View, PassedPhases
  <2>. QED  BY <1>2, <2>6 DEF SC!Next
<1>9. CASE UnlockWait(t)
  <2>1. Goto(t, "unlock_wait", "done")
    BY <1>9 DEF UnlockWait
  <2>2. pc[t] = "unlock_wait" /\ pc'[t] = "done"
    BY <1>2, <2>1, MoveIsSeen
  <2>3. Place(t)' = Place(t)
    BY <2>2 DEF Place, InSection
  <2>. QED  BY <1>2, <1>3, <2>1, <2>3, PlaceKept
<1>. QED  BY <1>4, <1>5, <1>6, <1>7, <1>8, <1>9 DEF Lock, Unlock


LEMMA OrganizeStep ==
  ASSUME Served, NEW c \in Caller, Organize(c)
  PROVE  SC!Next \/ UNCHANGED SC!vars
<1>1. /\ pc \in [Thread -> PC] /\ c \in Thread /\ Types /\ Account(c) /\ Answers
      /\ PassedPhases' = PassedPhases /\ stopped' = stopped
  BY SamePhases DEF Served, Gate, GateType, Accounts, Thread, Organize, Enter, EnterStopped,
                    Resume, calls
<1>2. CASE Enter(c) \/ Resume(c)
  <2>1. PICK from, to \in {"critical", "awaiting", "unlock"} : Goto(c, from, to)
    BY <1>2 DEF Enter, Resume
  <2>2. pc[c] = from /\ pc'[c] = to
    BY <1>1, <2>1, MoveIsSeen
  <2>3. Place(c)' = Place(c)
    BY <2>2 DEF Place, InSection
  <2>4. View' = View /\ answer' = answer
    BY <1>1, <1>2, <2>1, <2>3, PlaceKept DEF Enter, Resume, calls
  <2>. QED  BY <1>1, <2>4 DEF SC!vars, View, PassedPhases
<1>3. CASE EnterStopped(c)
  <2>1. Goto(c, "critical", "unlock") /\ stopped /\ answer' = [answer EXCEPT ![c] = "stopped"]
    BY <1>3 DEF EnterStopped
  <2>2. pc[c] = "critical" /\ pc'[c] = "unlock"
    BY <1>1, <2>1, MoveIsSeen
  <2>3. Place(c) = "inside" /\ Place(c)' = "inside"
    BY <2>2 DEF Place, InSection
  <2>4. View' = View /\ View[c] = "inside"
    BY <1>1, <2>1, <2>3, PlaceKept DEF View
  <2>5. ~InCall(c)
    BY <2>2 DEF InCall, Returning
  <2>6. answer[c] = "none"
    <3>1. signals[c] = 0
      BY <1>1, <2>5 DEF Account, Outcome, Fulfilled
    <3>. QED  BY <1>1, <2>2, <3>1 DEF Answers, Returning
  <2>7. PassedPhases[c] = {}
    <3>1. \A p \in 1..LastPhase(c) : good[c][p] = 0 /\ Clearance(c, p) # 0
      BY <1>1, <2>5, AccountNumbers DEF Account, Ledger, Reached
    <3>. QED  BY <3>1 DEF PassedPhases, Passed, Clearance
  <2>8. SC!Refuse(c)
    BY <1>1, <2>1, <2>4, <2>6, <2>7 DEF SC!Refuse, View, PassedPhases
  <2>. QED  BY <2>8 DEF SC!Next
<1>. QED  BY <1>2, <1>3 DEF Organize

LEMMA CloseStep ==
  ASSUME Served, Close
  PROVE  SC!Next \/ UNCHANGED SC!vars
<1>1. /\ pc \in [Thread -> PC] /\ Stopper \in Thread /\ Answers
      /\ PassedPhases' = PassedPhases /\ answer' = answer
  BY SamePhases DEF Served, Gate, GateType, Thread, Close, StopOrganizers, AbortPool,
                    CloseDatabase, calls
<1>2. PICK from, to \in PC : /\ Goto(Stopper, from, to)
                             /\ <<from, to>> \in {<<"critical", "aborting">>,
                                                  <<"aborting", "unlock">>, <<"closing", "done">>}
  BY DEF Close, StopOrganizers, AbortPool, CloseDatabase, PC
<1>3. pc[Stopper] = from /\ pc'[Stopper] = to
  BY <1>1, <1>2, MoveIsSeen
<1>4. /\ Place(Stopper)' = Place(Stopper)
      /\ from # "closing" => Place(Stopper) = "inside"
  BY <1>2, <1>3 DEF Place, InSection
<1>5. View' = View
  BY <1>1, <1>2, <1>4, PlaceKept
<1>6. CASE StopOrganizers
  <2>1. pc[Stopper] = "critical" /\ stopped' = TRUE
    BY <1>6 DEF StopOrganizers, Goto
  <2>2. ~stopped /\ View[Stopper] = "inside"
    BY <1>1, <1>3, <1>4, <2>1 DEF Answers, Returning, View
  <2>3. SC!Stop
    BY <1>1, <1>5, <2>1, <2>2 DEF SC!Stop, View, PassedPhases
  <2>. QED  BY <2>3 DEF SC!Next
<1>7. CASE AbortPool \/ CloseDatabase
  <2>1. stopped' = stopped
    BY <1>7 DEF AbortPool, CloseDatabase
  <2>. QED  BY <1>1, <1>5, <2>1 DEF SC!vars, View, PassedPhases
<1>. QED  BY <1>6, <1>7 DEF Close

\* A job that is ignored, or not the last one, passes no phase.
LEMMA PhasesKept ==
  ASSUME Types, NEW w \in Worker, NEW c \in Caller, NEW p \in 1..LastPhase(c),
         NEW ok \in BOOLEAN, JobIgnored(w, c, p, ok) \/ JobCounted(w, c, p, ok), Account(c)
  PROVE  PassedPhases' = PassedPhases
<1>1. Report(w, c, p, ok)
  BY DEF JobIgnored, JobCounted
<1>2. /\ Ledger(c, p) /\ Clearance(c, p) \in Nat /\ Outstanding(c, p) \in Nat
      /\ count[c][p] \in Nat /\ good[c][p] \in Nat
  BY AccountNumbers DEF Account
<1>3. /\ good'[c][p] = good[c][p] + (IF ok THEN 1 ELSE 0)
      /\ \A o \in 1..LastPhase(c) : o # p => good'[c][o] = good[c][o]
      /\ Outstanding(c, p) >= 1
      /\ good[c][p] # Clearance(c, p)
  BY <1>1, ReportEffect
<1>4. good'[c][p] # Clearance(c, p)
  <2>1. CASE ~ok
    BY <1>2, <1>3, <2>1
  <2>2. CASE ok /\ JobIgnored(w, c, p, ok)
    <3>1. IsCleared(c, p)
      BY <2>2 DEF JobIgnored
    <3>2. Outstanding(c, p) + good[c][p] < Clearance(c, p)
      BY <1>2, <1>3, <3>1 DEF Ledger
    <3>. QED  BY <1>2, <1>3, <2>2, <3>2
  <2>3. CASE ok /\ JobCounted(w, c, p, ok)
    <3>1. ~IsCleared(c, p) /\ count[c][p] + 1 # Clearance(c, p)
      BY <2>3 DEF JobCounted, NextCount
    <3>. QED  BY <1>2, <1>3, <2>3, <3>1 DEF Ledger
  <2>. QED  BY <2>1, <2>2, <2>3
<1>5. Passed(c)' = Passed(c)
  BY <1>3, <1>4 DEF Passed, Clearance
<1>6. \A d \in Caller \ {c} : good'[d] = good[d]
  <2>1. good' = IF ok THEN [good EXCEPT ![c][p] = @ + 1] ELSE good
    BY <1>1 DEF Report
  <2>. QED  BY <2>1 DEF Types
<1>7. \A d \in Caller \ {c} : Passed(d)' = Passed(d)
  BY <1>6 DEF Passed
<1>. QED  BY <1>5, <1>7 DEF PassedPhases

\* The last job of a phase that ends without error passes it, after those before.
LEMMA PhaseIsPassed ==
  ASSUME Types, NEW w \in Worker, NEW c \in Caller, NEW p \in 1..LastPhase(c),
         NEW ok \in BOOLEAN, ok, JobClears(w, c, p, ok), Account(c)
  PROVE  /\ PassedPhases[c] = 1..p - 1
         /\ PassedPhases' = [PassedPhases EXCEPT ![c] = 1..p]
<1>1. /\ Reached(c, p)
      /\ \A o \in 1..LastPhase(c) : o # p => good'[c][o] = good[c][o]
      /\ good'[c][p] = Clearance(c, p)
      /\ good[c][p] # Clearance(c, p)
  BY ClearsEffect
<1>2. ASSUME NEW o \in 1..LastPhase(c), o > p PROVE good[c][o] # Clearance(c, o)
  <2>1. p \in 1..o - 1
    BY <1>2, PhaseFacts
  <2>2. ~Reached(c, o)
    BY <1>1, <2>1 DEF Reached
  <2>. QED  BY <2>2, AccountNumbers DEF Account, Ledger
<1>3. \A o \in 1..p - 1 : o \in 1..LastPhase(c) /\ good[c][o] = Clearance(c, o)
  BY <1>1, PhaseFacts DEF Reached
<1>4. Passed(c) = 1..p - 1
  <2>1. \A o \in 1..LastPhase(c) : o \in 1..p - 1 \/ o = p \/ o > p
    BY PhaseFacts
  <2>. QED  BY <1>1, <1>2, <1>3, <2>1 DEF Passed, Clearance
<1>5. Passed(c)' = 1..p
  <2>1. \A o \in 1..LastPhase(c) : good'[c][o] = Clearance(c, o) <=> o \in 1..p
    <3>1. \A o \in 1..LastPhase(c) : o \in 1..p - 1 \/ o = p \/ o > p
      BY PhaseFacts
    <3>2. \A o \in 1..LastPhase(c) : o \in 1..p <=> ~(o > p)
      BY PhaseFacts
    <3>. QED  BY <1>1, <1>2, <1>3, <3>1, <3>2
  <2>2. \A o \in 1..p : o \in 1..LastPhase(c)
    BY PhaseFacts
  <2>. QED  BY <2>1, <2>2 DEF Passed, Clearance
<1>6. \A d \in Caller \ {c} : good'[d] = good[d]
  <2>1. good' = IF ok THEN [good EXCEPT ![c][p] = @ + 1] ELSE good
    BY DEF JobClears, Report
  <2>. QED  BY <2>1 DEF Types
<1>7. \A d \in Caller \ {c} : Passed(d)' = Passed(d)
  BY <1>6 DEF Passed
<1>. QED  BY <1>4, <1>5, <1>7 DEF PassedPhases

\* A synchronizer is cleared only for a call that waits, before any stop.
LEMMA ClearedAtWork ==
  ASSUME Served, NEW w \in Worker, NEW c \in Caller, NEW p \in 1..LastPhase(c),
         NEW ok \in BOOLEAN, JobClears(w, c, p, ok)
  PROVE  SC!IsAtWork(c)
<1>1. Types /\ Account(c) /\ Gate /\ Answers
  BY DEF Served, Accounts
<1>2. InCall(c) /\ signals[c] = 0
  BY <1>1, ClearsEffect
<1>3. pc[c] = "awaiting"
  BY <1>1, <1>2 DEF Account, Outcome, Waiting
<1>4. ~stopped /\ answer[c] = "none"
  BY <1>1, <1>2, <1>3 DEF Gate, Answers, Returning
<1>5. View[c] = "inside"
  BY <1>3 DEF View, Place, InSection, Thread
<1>. QED  BY <1>4, <1>5 DEF SC!IsAtWork, View

LEMMA JobStep ==
  ASSUME Served, NEW w \in Worker, Job(w)
  PROVE  SC!Next \/ UNCHANGED SC!vars
<1>1. /\ Types /\ (\A c \in Caller : Account(c))
      /\ stopped' = stopped /\ View' = View
  BY JobKeeps, SamePlaces DEF Served, Accounts
<1>2. PassedPhases' = PassedPhases /\ answer' = answer => UNCHANGED SC!vars
  BY <1>1 DEF SC!vars, View, PassedPhases
<1>3. CASE StartJob(w) \/ EndPrune(w)
  BY <1>2, <1>3, SamePhases DEF StartJob, EndPrune, calls
<1>4. ASSUME NEW c \in Caller, NEW p \in 1..LastPhase(c), NEW ok \in BOOLEAN,
             JobIgnored(w, c, p, ok) \/ JobCounted(w, c, p, ok)
      PROVE  UNCHANGED SC!vars
  <2>1. PassedPhases' = PassedPhases
    BY <1>1, <1>4, PhasesKept
  <2>. QED  BY <1>2, <1>4, <2>1 DEF JobIgnored, JobCounted
<1>5. ASSUME NEW c \in Caller, NEW p \in 1..LastPhase(c), JobContinues(w, c, p)
      PROVE  SC!Next
  <2>1. PICK ok \in BOOLEAN : ok /\ JobClears(w, c, p, ok)
    BY <1>5 DEF JobContinues
  <2>2. p < LastPhase(c) /\ answer' = answer
    BY <1>5 DEF JobContinues
  <2>3. SC!IsAtWork(c)
    BY <2>1, ClearedAtWork
  <2>4. /\ PassedPhases[c] = 1..p - 1
        /\ PassedPhases' = [PassedPhases EXCEPT ![c] = 1..p]
    <3>1. Types /\ Account(c) /\ JobClears(w, c, p, ok) /\ ok
      BY <1>1, <2>1
    <3>. QED  BY <3>1, PhaseIsPassed, Zenon
  <2>5. SC!Pass(c, p)
    BY <1>1, <2>2, <2>3, <2>4 DEF SC!Pass, SC!PassPhase, View, PassedPhases
  <2>. QED  BY <2>5 DEF SC!Next
<1>6. ASSUME NEW c \in Caller, NEW p \in 1..LastPhase(c), NEW ok \in BOOLEAN,
             NEW stale \in BOOLEAN, JobCompletes(w, c, p, ok, stale)
      PROVE  SC!Next
  <2>1. /\ JobClears(w, c, p, ok) /\ (ok => p = LastPhase(c))
        /\ answer' = [answer EXCEPT ![c] = IF ok THEN "success" ELSE "error"]
    BY <1>6 DEF JobCompletes
  <2>2. SC!IsAtWork(c)
    BY <2>1, ClearedAtWork
  <2>3. CASE ok
    <3>1. /\ PassedPhases[c] = 1..p - 1
          /\ PassedPhases' = [PassedPhases EXCEPT ![c] = 1..p]
      BY <1>1, <2>1, <2>3, PhaseIsPassed
    <3>2. SC!Succeed(c)
      BY <1>1, <2>1, <2>2, <2>3, <3>1 DEF SC!Succeed, SC!PassPhase, View, PassedPhases
    <3>. QED  BY <3>2 DEF SC!Next
  <2>4. CASE ~ok
    <3>1. PassedPhases' = PassedPhases
      BY <2>1, <2>4, SamePhases DEF JobClears, Report
    <3>2. SC!Fail(c)
      BY <1>1, <2>1, <2>2, <2>4, <3>1 DEF SC!Fail, View, PassedPhases
    <3>. QED  BY <3>2 DEF SC!Next
  <2>. QED  BY <2>3, <2>4
<1>. QED  BY <1>3, <1>4, <1>5, <1>6 DEF Job

LEMMA GateStep == Served /\ [Next]_vars => [SC!Next]_(SC!vars)
<1>. SUFFICES ASSUME Served, [Next]_vars PROVE SC!Next \/ UNCHANGED SC!vars
  OBVIOUS
<1>1. CASE UNCHANGED vars
  <2>1. View' = View /\ PassedPhases' = PassedPhases
    BY <1>1, SamePlaces, SamePhases DEF vars
  <2>. QED  BY <1>1, <2>1 DEF vars, SC!vars, View, PassedPhases
<1>. QED  BY <1>1, MutexStep, OrganizeStep, CloseStep, JobStep DEF Next

LEMMA GateStart == Init => SC!Init
<1>. SUFFICES ASSUME Init PROVE SC!Init
  OBVIOUS
<1>1. \A t \in Thread : Place(t) = "out"
  BY DEF Init, Place, InSection
<1>2. ASSUME NEW c \in Caller PROVE Passed(c) = {}
  <2>1. \A p \in 1..LastPhase(c) : good[c][p] = 0 /\ Phases(c)[p] # 0
    BY PhaseFacts DEF Init
  <2>. QED  BY <2>1 DEF Passed
<1>. QED  BY <1>1, <1>2 DEF Init, SC!Init, SC!Thread, Thread

-----------------------------------------------------------------------------
(* The push of a branch, block by block. *)

\* Nothing is out for a push job whose call is not waited for.
LEMMA NoPushIsOut ==
  ASSUME Accounts, NEW c \in BlockCaller, pc[c] # "awaiting", NEW p \in PushPhases
  PROVE  /\ c \in Caller /\ p \in 1..LastPhase(c) /\ Clearance(c, p) = 1
         /\ Outstanding(c, p) = 0
<1>1. c \in Caller /\ Account(c) /\ Types
  BY DEF Accounts, Caller
<1>2. p \in 1..LastPhase(c) /\ Clearance(c, p) = 1
  <2>1. Phases(c) = BlockPhases /\ LastPhase(c) = Len(BlockPhases)
    BY DEF Phases, LastPhase
  <2>2. Len(BlockPhases) \in Nat
    BY PhasesAssumption
  <2>. QED  BY <2>1, <2>2, PoolAssumption DEF PushPhases, Clearance
<1>3. /\ Ledger(c, p) /\ good[c][p] \in Nat /\ Outstanding(c, p) \in Nat
  BY <1>1, <1>2, AccountNumbers DEF Account
<1>4. SUFFICES ASSUME Outstanding(c, p) >= 1 PROVE FALSE
  BY <1>1, <1>2, <1>3
<1>5. Reached(c, p)
  BY <1>3, <1>4 DEF Ledger
<1>6. signals[c] = 1
  BY <1>1, <1>5 DEF Account, Outcome, Waiting, Reached
<1>7. IsCleared(c, p)
  BY <1>1, <1>2, <1>5, <1>6 DEF Account, Outcome, Fulfilled
<1>8. Outstanding(c, p) + good[c][p] <= 1
  BY <1>2, <1>3 DEF Ledger
<1>9. good[c][p] # Clearance(c, p)
  BY <1>2, <1>3, <1>4, <1>8
<1>10. Outstanding(c, p) + good[c][p] < 1
  BY <1>2, <1>3, <1>7, <1>9 DEF Ledger
<1>. QED  BY <1>3, <1>4, <1>10

\* Once a block of a branch is pushed, the next one is too when the call returns,
\* unless a push has failed.
LEMMA PushGoesOn ==
  ASSUME Served, NEW c \in BlockCaller, pc[c] # "awaiting", NEW p \in PushPhases,
         p - 1 \in Passed(c)
  PROVE  p \in Passed(c) \/ answer[c] = "error"
<1>1. /\ c \in Caller /\ Accounts /\ Account(c) /\ Types /\ Answers
      /\ p \in 1..LastPhase(c) /\ p - 1 \in 1..LastPhase(c)
  BY NoPushIsOut DEF Served, Accounts, Passed
<1>2. Reached(c, p)
  <2>1. good[c][p - 1] = Clearance(c, p - 1) /\ Clearance(c, p - 1) \in Nat \ {0}
    BY <1>1, AccountNumbers DEF Passed, Clearance
  <2>2. Reached(c, p - 1)
    BY <1>1, <2>1 DEF Account, Ledger
  <2>3. \A o \in 1..p - 1 : o = p - 1 \/ o \in 1..(p - 1) - 1
    BY <1>1, PhaseFacts
  <2>. QED  BY <2>1, <2>2, <2>3 DEF Reached
<1>3. pc[c] \in Returning /\ answer[c] # "stopped" /\ answer[c] # "none"
  BY <1>1, <1>2 DEF Reached, InCall, Answers
<1>4. answer[c] \in {"success", "error"}
  BY <1>1, <1>3 DEF Types, TypeOK
<1>5. CASE answer[c] = "success"
  <2>1. \A o \in 1..LastPhase(c) : good[c][o] = Phases(c)[o]
    BY <1>1, <1>5, SuccessHasAll DEF SuccessIsEarned
  <2>. QED  BY <1>1, <2>1 DEF Passed
<1>. QED  BY <1>4, <1>5

\* Stop falls between no two blocks of a branch (block_chain.cpp:408), although each
\* block is a job of its own (data_base.cpp:303) and the next one is posted only
\* when it ends: for any number of blocks, workers and callers.
THEOREM PushEndsBeforeStop == Spec => []StopCutsNoBranch
<1>1. Init => Served
  BY InitGate, InitAccounts, InitTypes, InitAnswers DEF Served, Accounts
<1>2. Served /\ PoolOutlivesCalls => StopCutsNoBranch
  <2>. SUFFICES ASSUME Served, PoolOutlivesCalls, aborted,
                       NEW c \in BlockCaller, NEW p \in PushPhases
       PROVE  /\ \A w \in Worker : running[w] # Task(c, p)
              /\ \A i \in 1..Len(queue) : queue[i] # Task(c, p)
              /\ p - 1 \in Passed(c) => p \in Passed(c) \/ answer[c] = "error"
    BY DEF StopCutsNoBranch
  <2>1. Accounts /\ Types /\ pc[c] # "awaiting"
    BY DEF Served, Accounts, PoolOutlivesCalls, Caller
  <2>2. Outstanding(c, p) = 0
    BY <2>1, NoPushIsOut
  <2>3. /\ IsFiniteSet(Hands(running, Task(c, p))) /\ IsFiniteSet(Positions(queue, Task(c, p)))
        /\ Cardinality(Hands(running, Task(c, p))) \in Nat
        /\ Cardinality(Positions(queue, Task(c, p))) \in Nat
    BY <2>1, HandsFinite, PositionsFinite DEF Types, TypeOK
  <2>4. /\ Cardinality(Hands(running, Task(c, p))) = 0
        /\ Cardinality(Positions(queue, Task(c, p))) = 0
    BY <2>2, <2>3 DEF Outstanding
  <2>5. Hands(running, Task(c, p)) = {} /\ Positions(queue, Task(c, p)) = {}
    BY <2>3, <2>4, FS_EmptySet
  <2>6. p - 1 \in Passed(c) => p \in Passed(c) \/ answer[c] = "error"
    BY <2>1, PushGoesOn
  <2>. QED  BY <2>5, <2>6 DEF Hands, Positions
<1>. QED  BY <1>1, <1>2, NextServed, PoolIsAbortedLast, PTL DEF Spec

-----------------------------------------------------------------------------
\* Callers of organize and stop see SerialCalls and nothing else.
THEOREM GateImplementsSerialCalls == Spec => ImplementsSerialCalls
<1>1. Init => Served
  BY InitGate, InitAccounts, InitTypes, InitAnswers DEF Served, Accounts
<1>. QED  BY <1>1, NextServed, GateStep, GateStart, PTL DEF Spec, ImplementsSerialCalls, SC!Spec

==========================================================================
