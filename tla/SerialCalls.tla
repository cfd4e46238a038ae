--------------------------- MODULE SerialCalls ---------------------------
(***************************************************************************)
(* What the callers of kth::blockchain::block_chain are promised, without  *)
(* mutexes, threads of a pool, jobs or synchronizers: organize and stop    *)
(* run one at a time, a call goes through its phases one by one and in     *)
(* order, it is answered once and not before its work is done, nobody      *)
(* works for it before it runs or after its answer, and nothing is done    *)
(* once stop has run.  ValidationGate implements it (ValidationGateProofs).*)
(***************************************************************************)
EXTENDS Integers

CONSTANTS
  Caller,        \* calls of organize
  Stopper,       \* the call of stop
  LastPhase(_)   \* how many phases a call has

VARIABLES
  at,        \* where each call is
  passed,    \* the phases that each call has passed
  answer,    \* what organize returns, for each call
  stopped    \* stop has run

vars == <<at, passed, answer, stopped>>

Thread == Caller \cup {Stopper}

Move(t, from, to) == at[t] = from /\ at' = [at EXCEPT ![t] = to]

Call(t) ==
  /\ Move(t, "out", "waiting")
  /\ UNCHANGED <<passed, answer, stopped>>

\* One call at a time.
Enter(t) ==
  /\ \A s \in Thread : at[s] # "inside"
  /\ Move(t, "waiting", "inside")
  /\ UNCHANGED <<passed, answer, stopped>>

IsAtWork(c) == at[c] = "inside" /\ answer[c] = "none" /\ ~stopped

\* The phases of a call follow each other.
PassPhase(c, p) ==
  /\ IsAtWork(c)
  /\ passed[c] = 1..p - 1
  /\ passed' = [passed EXCEPT ![c] = 1..p]

Pass(c, p) ==
  /\ p < LastPhase(c)
  /\ PassPhase(c, p)
  /\ UNCHANGED <<at, answer, stopped>>

\* The last phase is the success of the call.
Succeed(c) ==
  /\ PassPhase(c, LastPhase(c))
  /\ answer' = [answer EXCEPT ![c] = "success"]
  /\ UNCHANGED <<at, stopped>>

Fail(c) ==
  /\ IsAtWork(c)
  /\ answer' = [answer EXCEPT ![c] = "error"]
  /\ UNCHANGED <<at, passed, stopped>>

\* A call that comes after stop is refused, and nothing is done for it.
Refuse(c) ==
  /\ stopped
  /\ at[c] = "inside"
  /\ passed[c] = {} /\ answer[c] = "none"
  /\ answer' = [answer EXCEPT ![c] = "stopped"]
  /\ UNCHANGED <<at, passed, stopped>>

Stop ==
  /\ at[Stopper] = "inside"
  /\ ~stopped
  /\ stopped' = TRUE
  /\ UNCHANGED <<at, passed, answer>>

\* Nobody leaves with the work undone.
Leave(t) ==
  /\ IF t = Stopper THEN stopped ELSE answer[t] # "none"
  /\ Move(t, "inside", "returned")
  /\ UNCHANGED <<passed, answer, stopped>>

Init ==
  /\ at = [t \in Thread |-> "out"]
  /\ passed = [c \in Caller |-> {}]
  /\ answer = [c \in Caller |-> "none"]
  /\ stopped = FALSE

Next ==
  \/ \E t \in Thread : Call(t) \/ Enter(t) \/ Leave(t)
  \/ \E c \in Caller :
       \/ \E p \in 1..LastPhase(c) : Pass(c, p)
       \/ Succeed(c) \/ Fail(c) \/ Refuse(c)
  \/ Stop

Spec == Init /\ [][Next]_vars
==========================================================================
