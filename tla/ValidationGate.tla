-------------------------- MODULE ValidationGate --------------------------
(***************************************************************************)
(* The critical section of kth::blockchain::block_chain: the prioritized   *)
(* mutex that serializes the organizers with stop, the thread pool that    *)
(* does their work, the synchronizer that joins it, and the promise the    *)
(* calling thread waits on.                                                *)
(*                                                                         *)
(* A call goes through phases.  A phase is a number of jobs posted to the  *)
(* priority pool and joined by a synchronizer in mode on_error; the job    *)
(* that clears the synchronizer posts the next phase or fulfils the        *)
(* promise.  The last phases of a block are the push of its branch: a job  *)
(* for each block, which posts the job for the next one.  After them a job *)
(* that prunes the reorganization pool is posted and not waited for.       *)
(***************************************************************************)
EXTENDS Integers, Sequences, FiniteSets

CONSTANTS
  BlockCaller,    \* threads in block_organizer::organize
  TxCaller,       \* threads in transaction_organizer::organize
  Stopper,        \* the thread in block_chain::close
  Worker,         \* threads of the priority pool
  BlockPhases,    \* jobs in each phase of a block
  TxPhases,       \* jobs in each phase of a transaction
  PushFrom,       \* phase of a block that pushes the first block of its branch
  Prioritize,     \* prioritized_mutex::prioritize_
  Nobody          \* no thread

Caller == BlockCaller \cup TxCaller
Thread == Caller \cup {Stopper}

ASSUME ThreadAssumption ==
  /\ BlockCaller \cap TxCaller = {}
  /\ Stopper \notin Caller
  /\ Nobody \notin Thread
  /\ Prioritize \in BOOLEAN

ASSUME PhasesAssumption ==
  /\ BlockPhases \in Seq(Nat \ {0}) /\ BlockPhases # <<>>
  /\ TxPhases \in Seq(Nat \ {0}) /\ TxPhases # <<>>

\* data_base::push_next: one job at a time pushes one block of the branch.
PushPhases == PushFrom..Len(BlockPhases)

\* A branch that is validated is pushed; the pool has only so many threads.
ASSUME PoolAssumption ==
  /\ PushFrom \in 2..Len(BlockPhases)
  /\ \A p \in PushPhases : BlockPhases[p] = 1
  /\ IsFiniteSet(Worker)

Phases(c) == IF c \in BlockCaller THEN BlockPhases ELSE TxPhases
LastPhase(c) == Len(Phases(c))

\* A job of a call, and the job that prunes.
Task(c, p) == [call |-> c, phase |-> p]
PruneTask == [call |-> Nobody, phase |-> 0]
Tasks == {Task(c, p) : c \in Caller, p \in 1..Len(BlockPhases) + Len(TxPhases)}
IdleTask == [call |-> Nobody, phase |-> -1]

VARIABLES
  pc,         \* where each thread is
  owner,      \* owner of wait_mutex_, next_mutex_ and data_mutex_
  stopped,    \* the organizers' stopped_
  aborted,    \* the pool's io_service was stopped
  open,       \* the database is open
  queue,      \* jobs posted and not started
  running,    \* the job of each worker
  count,      \* counter of the synchronizer of each call and phase
  good,       \* jobs of each call and phase that ended without an error
  answer,     \* what the promise was fulfilled with, for each call
  signals     \* how often it was fulfilled

locks == <<pc, owner>>
pool == <<queue, running>>
calls == <<count, good, answer, signals>>
vars == <<pc, owner, stopped, aborted, open, queue, running, count, good, answer, signals>>

TypeOK ==
  /\ pc \in [Thread -> {"start", "wait", "next", "data", "entered", "critical",
                        "awaiting", "unlock", "unlock_data", "unlock_wait",
                        "aborting", "closing", "done"}]
  /\ owner \in [{"wait", "next", "data"} -> Thread \cup {Nobody}]
  /\ stopped \in BOOLEAN /\ aborted \in BOOLEAN /\ open \in BOOLEAN
  /\ queue \in Seq(Tasks \cup {PruneTask})
  /\ running \in [Worker -> Tasks \cup {PruneTask, IdleTask}]
  /\ \A c \in Caller : /\ count[c] \in [1..LastPhase(c) -> Nat]
                       /\ good[c] \in [1..LastPhase(c) -> Nat]
  /\ answer \in [Caller -> {"none", "success", "error", "stopped"}]
  /\ signals \in [Caller -> Nat]

IsLow(t) == t \in TxCaller

Goto(t, from, to) == pc[t] = from /\ pc' = [pc EXCEPT ![t] = to]
Take(t, mutex) == owner[mutex] = Nobody /\ owner' = [owner EXCEPT ![mutex] = t]
Release(t, mutex) == owner' = [owner EXCEPT ![mutex] = Nobody]

-----------------------------------------------------------------------------
(* prioritized_mutex *)

\* Mutant: stop goes ahead without lock_high_priority.
FirstStepUnlocked(t) ==
  CASE t = Stopper -> "critical"
    [] t # Stopper /\ ~Prioritize -> "data"
    [] t # Stopper /\ Prioritize -> IF IsLow(t) THEN "wait" ELSE "next"

\* lock_low_priority starts with wait_mutex_, lock_high_priority with next_mutex_.
FirstStep(t) ==
  IF ~Prioritize THEN "data" ELSE IF IsLow(t) THEN "wait" ELSE "next"

Call(t) ==
  /\ Goto(t, "start", FirstStep(t))
  /\ UNCHANGED <<owner, stopped, aborted, open, pool, calls>>

LockWait(t) ==
  /\ Goto(t, "wait", "next")
  /\ Take(t, "wait")
  /\ UNCHANGED <<stopped, aborted, open, pool, calls>>

LockNext(t) ==
  /\ Goto(t, "next", "data")
  /\ Take(t, "next")
  /\ UNCHANGED <<stopped, aborted, open, pool, calls>>

\* Mutant: the data mutex is taken over from whoever has it.
LockDataByForce(t) ==
  /\ Goto(t, "data", IF IsLow(t) \/ ~Prioritize THEN "critical" ELSE "entered")
  /\ owner' = [owner EXCEPT !["data"] = t]
  /\ UNCHANGED <<stopped, aborted, open, pool, calls>>

LockData(t) ==
  /\ Goto(t, "data", IF IsLow(t) \/ ~Prioritize THEN "critical" ELSE "entered")
  /\ Take(t, "data")
  /\ UNCHANGED <<stopped, aborted, open, pool, calls>>

\* lock_high_priority gives next_mutex_ back as soon as it has the data.
PassNext(t) ==
  /\ Goto(t, "entered", "critical")
  /\ Release(t, "next")
  /\ UNCHANGED <<stopped, aborted, open, pool, calls>>

\* unlock_low_priority: next, data, wait.  unlock_high_priority: data.
UnlockNext(t) ==
  /\ Goto(t, "unlock", "unlock_data")
  /\ IF IsLow(t) /\ Prioritize THEN Release(t, "next") ELSE UNCHANGED owner
  /\ UNCHANGED <<stopped, aborted, open, pool, calls>>

UnlockData(t) ==
  /\ Goto(t, "unlock_data", CASE t = Stopper -> "closing"
                              [] IsLow(t) /\ Prioritize -> "unlock_wait"
                              [] OTHER -> "done")
  /\ Release(t, "data")
  /\ UNCHANGED <<stopped, aborted, open, pool, calls>>

UnlockWait(t) ==
  /\ Goto(t, "unlock_wait", "done")
  /\ Release(t, "wait")
  /\ UNCHANGED <<stopped, aborted, open, pool, calls>>

-----------------------------------------------------------------------------
(* organize *)

Posted(c, p) == [i \in 1..Phases(c)[p] |-> Task(c, p)]

\* Mutant: stopped() is not asked.
EnterUnchecked(c) ==
  /\ Goto(c, "critical", "awaiting")
  /\ queue' = queue \o Posted(c, 1)
  /\ UNCHANGED <<owner, stopped, aborted, open, running, calls>>

\* The promise is reset and the first phase is posted.
Enter(c) ==
  /\ ~stopped
  /\ Goto(c, "critical", "awaiting")
  /\ queue' = queue \o Posted(c, 1)
  /\ UNCHANGED <<owner, stopped, aborted, open, running, calls>>

EnterStopped(c) ==
  /\ stopped
  /\ Goto(c, "critical", "unlock")
  /\ answer' = [answer EXCEPT ![c] = "stopped"]
  /\ UNCHANGED <<owner, stopped, aborted, open, pool, count, good, signals>>

\* resume_.get_future().get()
Resume(c) ==
  /\ signals[c] > 0
  /\ Goto(c, "awaiting", "unlock")
  /\ UNCHANGED <<owner, stopped, aborted, open, pool, calls>>

-----------------------------------------------------------------------------
(* stop and close *)

StopOrganizers ==
  /\ Goto(Stopper, "critical", "aborting")
  /\ stopped' = TRUE
  /\ UNCHANGED <<owner, aborted, open, pool, calls>>

\* threadpool::shutdown: io_service::stop, so the queue is abandoned.
AbortPool ==
  /\ Goto(Stopper, "aborting", "unlock")
  /\ aborted' = TRUE
  /\ UNCHANGED <<owner, stopped, open, pool, calls>>

\* threadpool::join detaches the workers; then the database is closed.
CloseDatabase ==
  /\ Goto(Stopper, "closing", "done")
  /\ open' = FALSE
  /\ UNCHANGED <<owner, stopped, aborted, pool, calls>>

-----------------------------------------------------------------------------
(* The priority pool and the synchronizers. *)

StartJob(w) ==
  /\ ~aborted
  /\ queue # <<>>
  /\ running[w] = IdleTask
  /\ running' = [running EXCEPT ![w] = Head(queue)]
  /\ queue' = Tail(queue)
  /\ UNCHANGED <<locks, stopped, aborted, open, calls>>

EndPrune(w) ==
  /\ running[w] = PruneTask
  /\ running' = [running EXCEPT ![w] = IdleTask]
  /\ UNCHANGED <<locks, stopped, aborted, open, queue, calls>>

Clearance(c, p) == Phases(c)[p]

\* Mutant: a cleared synchronizer takes part again.
IsClearedNever(c, p) == FALSE

IsCleared(c, p) == count[c][p] = Clearance(c, p)

\* Mutant: complete() terminates on any code.
NextCountAtOnce(c, p, ok) == Clearance(c, p)

NextCount(c, p, ok) == IF ok THEN count[c][p] + 1 ELSE Clearance(c, p)

\* A job of phase p of call c reports to its synchronizer.
Report(w, c, p, ok) ==
  /\ running[w] = Task(c, p)
  /\ running' = [running EXCEPT ![w] = IdleTask]
  /\ good' = IF ok THEN [good EXCEPT ![c][p] = @ + 1] ELSE good
  /\ UNCHANGED <<locks, stopped, aborted, open>>

\* The synchronizer was cleared by another job.
JobIgnored(w, c, p, ok) ==
  /\ Report(w, c, p, ok)
  /\ IsCleared(c, p)
  /\ UNCHANGED <<queue, count, answer, signals>>

JobCounted(w, c, p, ok) ==
  /\ Report(w, c, p, ok)
  /\ ~IsCleared(c, p)
  /\ NextCount(c, p, ok) # Clearance(c, p)
  /\ count' = [count EXCEPT ![c][p] = NextCount(c, p, ok)]
  /\ UNCHANGED <<queue, answer, signals>>

JobClears(w, c, p, ok) ==
  /\ Report(w, c, p, ok)
  /\ ~IsCleared(c, p)
  /\ NextCount(c, p, ok) = Clearance(c, p)
  /\ count' = [count EXCEPT ![c][p] = Clearance(c, p)]

JobContinues(w, c, p) ==
  /\ p < LastPhase(c)
  /\ JobClears(w, c, p, TRUE)
  /\ queue' = queue \o Posted(c, p + 1)
  /\ UNCHANGED <<answer, signals>>

\* signal_completion; a pushed branch is followed by prune_reorg_async, unless
\* the chain is stale.
JobCompletes(w, c, p, ok, stale) ==
  /\ ok => p = LastPhase(c)
  /\ JobClears(w, c, p, ok)
  /\ queue' = IF ok /\ c \in BlockCaller /\ ~stale
              THEN Append(queue, PruneTask) ELSE queue
  /\ answer' = [answer EXCEPT ![c] = IF ok THEN "success" ELSE "error"]
  /\ signals' = [signals EXCEPT ![c] = @ + 1]

-----------------------------------------------------------------------------
Init ==
  /\ pc = [t \in Thread |-> "start"]
  /\ owner = [m \in {"wait", "next", "data"} |-> Nobody]
  /\ stopped = FALSE /\ aborted = FALSE /\ open = TRUE
  /\ queue = <<>>
  /\ running = [w \in Worker |-> IdleTask]
  /\ count = [c \in Caller |-> [p \in 1..LastPhase(c) |-> 0]]
  /\ good = [c \in Caller |-> [p \in 1..LastPhase(c) |-> 0]]
  /\ answer = [c \in Caller |-> "none"]
  /\ signals = [c \in Caller |-> 0]

Lock(t) == LockWait(t) \/ LockNext(t) \/ LockData(t) \/ PassNext(t)
Unlock(t) == UnlockNext(t) \/ UnlockData(t) \/ UnlockWait(t)
Organize(c) == Enter(c) \/ EnterStopped(c) \/ Resume(c)
Close == StopOrganizers \/ AbortPool \/ CloseDatabase

Job(w) ==
  \/ StartJob(w)
  \/ EndPrune(w)
  \/ \E c \in Caller : \E p \in 1..LastPhase(c) :
       \/ JobContinues(w, c, p)
       \/ \E ok \in BOOLEAN :
            \/ JobIgnored(w, c, p, ok)
            \/ JobCounted(w, c, p, ok)
            \/ \E stale \in BOOLEAN : JobCompletes(w, c, p, ok, stale)

Next ==
  \/ \E t \in Thread : Call(t) \/ Lock(t) \/ Unlock(t)
  \/ \E c \in Caller : Organize(c)
  \/ Close
  \/ \E w \in Worker : Job(w)

Spec == Init /\ [][Next]_vars

\* A thread that has called goes on when it can, a mutex that stays free is taken
\* and a worker serves the pool.
Fairness ==
  /\ \A t \in Thread : WF_vars(Lock(t)) /\ WF_vars(Unlock(t))
  /\ \A c \in Caller : WF_vars(Organize(c))
  /\ WF_vars(Close)
  /\ \A w \in Worker : WF_vars(Job(w))

FairSpec == Spec /\ Fairness

-----------------------------------------------------------------------------
InSection(t) == pc[t] \in {"entered", "critical", "awaiting", "aborting", "unlock", "unlock_data"}

\* organize and stop are in the section one at a time, whatever their priority:
\* prioritized_mutex is one mutex, although three are locked in two orders.
MutualExclusion ==
  \A s, t \in Thread : InSection(s) /\ InSection(t) => s = t

\* The reusable promise is fulfilled at most once for a call, and only while its
\* caller waits for it: jobs left over from a call that failed fulfil nothing.
CompletesOnce ==
  \A c \in Caller :
    /\ signals[c] <= 1
    /\ pc[c] \in {"start", "wait", "next", "data", "entered", "critical"} => signals[c] = 0

\* A call succeeds only when every job of every phase has ended without error.
SuccessIsEarned ==
  \A c \in Caller : answer[c] = "success" =>
    \A p \in 1..LastPhase(c) : good[c][p] = Phases(c)[p]

\* block_chain.cpp:413: the pool is not aborted while a call waits for its jobs.
PoolOutlivesCalls ==
  aborted => \A c \in Caller : pc[c] # "awaiting"

\* The phases all of whose jobs have ended without error.
Passed(c) == {p \in 1..LastPhase(c) : good[c][p] = Phases(c)[p]}

\* block_chain.cpp:408: once the pool is aborted no block is being pushed or waits
\* to be, and a branch whose push was begun is pushed to its end, unless the push
\* of one of its blocks failed: stop falls between no two blocks.
StopCutsNoBranch ==
  aborted => \A c \in BlockCaller : \A p \in PushPhases :
    /\ \A w \in Worker : running[w] # Task(c, p)
    /\ \A i \in 1..Len(queue) : queue[i] # Task(c, p)
    /\ p - 1 \in Passed(c) => p \in Passed(c) \/ answer[c] = "error"

\* Where a thread is for somebody who sees no mutex.
Place(t) ==
  CASE pc[t] = "start" -> "out"
    [] pc[t] \in {"wait", "next", "data"} -> "waiting"
    [] InSection(t) -> "inside"
    [] OTHER -> "returned"

SC == INSTANCE SerialCalls WITH
        at <- [t \in Thread |-> Place(t)],
        passed <- [c \in Caller |-> Passed(c)]

\* Whatever the mutexes, the pool and the synchronizers go through, callers see
\* calls that run one at a time, pass their phases in order and are answered once.
ImplementsSerialCalls == SC!Spec

\* Every call returns, and close returns, whichever comes first.
CallsReturn == \A t \in Thread : pc[t] # "start" ~> pc[t] = "done"

\* threadpool.hpp:75: join waits "for all threads in the pool to terminate", so
\* that the database is closed when nothing uses it.
StoreClosedLast ==
  ~open => \A w \in Worker : running[w] # PruneTask
==========================================================================
