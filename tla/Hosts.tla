------------------------------- MODULE Hosts -------------------------------
(***************************************************************************)
(* The addresses a node knows: network::hosts, the file it is loaded from  *)
(* and saved to, and who calls it: the start sequence of p2p with the      *)
(* seeds it contacts when no address is known, the peers that tell         *)
(* addresses, and p2p::stop, which may overtake any of them.               *)
(*                                                                         *)
(* The handlers of a start sequence run on a pool that p2p::stop aborts.   *)
(* What is queued then runs when p2p is started again.  The process may    *)
(* die, of a crash or of the exception that hosts::start throws on a line  *)
(* with a port; the disk may refuse a read or a write.                     *)
(***************************************************************************)
EXTENDS Naturals, FiniteSets, Sequences, SequencesExt, FiniteSetsExt

CONSTANTS
  Address,    \* addresses, told apart by ip and port
  Portless,   \* those whose port is zero
  Invalid,    \* the address of which every field is zero
  Capacity,   \* host_pool_capacity, which is not zero
  Seed,       \* the seeds of the settings
  Messages,   \* lists of addresses that a peer may send
  MaxStarts   \* bound: calls of p2p::start in the life of a process

ASSUME HostsAssumption ==
  /\ Portless \subseteq Address /\ Invalid \notin Address
  /\ Capacity \in Nat \ {0} /\ MaxStarts \in Nat
  /\ Messages \subseteq Seq(Address \cup {Invalid})

VARIABLES
  file,           \* the lines of hosts_file
  buffer,         \* buffer_, oldest first
  hosts_stopped,  \* hosts::stopped_
  stopped,        \* p2p::stopped_
  working,        \* the pool has threads that take handlers
  refusing,       \* pending_handshake_ and pending_close_ were stopped
  stopping,       \* how far p2p::stop is
  start,          \* the start sequences, one for each call of p2p::start
  run,            \* how many there were
  unsaved,        \* history: what the last save was to write and did not
  uncaught        \* history: an exception ended the last process

disk == <<file, unsaved, uncaught>>
hosts == <<buffer, hosts_stopped>>
service == <<stopped, working, refusing, stopping, run>>
vars == <<disk, hosts, service, start>>

Codes == {"success", "service_stopped", "operation_failed", "peer_throttling"}
StartRecord ==
  [step: {"none", "posted", "load", "loaded", "seed", "seeding", "finish", "answered"},
   code: Codes, quit: BOOLEAN,
   seeds: [Seed -> {"connecting", "germinating", "stopped", "done"}]]

TypeOK ==
  /\ file \in Seq(Address) /\ buffer \in Seq(Address)
  /\ Len(file) <= Capacity /\ Len(buffer) <= Capacity
  /\ hosts_stopped \in BOOLEAN /\ stopped \in BOOLEAN
  /\ working \in BOOLEAN /\ refusing \in BOOLEAN
  /\ stopping \in {"no", "hosts", "flag", "sessions", "channels"}
  /\ start \in [1..MaxStarts -> StartRecord]
  /\ run \in 0..MaxStarts
  /\ unsaved \subseteq Address /\ uncaught \in BOOLEAN

HasPort(h) == h \notin Portless

-----------------------------------------------------------------------------
(* The buffer *)

\* Mutant: a full buffer grows.
push_back_growing(b, h) == Append(b, h)

\* boost::circular_buffer: when it is full the oldest entry goes.
push_back(b, h) == Append(IF Len(b) < Capacity THEN b ELSE Tail(b), h)

Accept(b, h) == IF h = Invalid \/ h \in ToSet(b) THEN b ELSE push_back(b, h)

Usable(m) == Min({Len(m), Capacity})

\* Mutant: the step is rounded up.
StepUp(b, m, random) ==
  LET accept == Max({Capacity - Len(b), random})
  IN Max({(Usable(m) + accept - 1) \div accept, 1})

\* Between one and all of the addresses, and at least the amount we are short.
Step(b, m, random) ==
  LET gap    == Capacity - Len(b)
      accept == Max({gap, random})
  IN Max({Usable(m) \div accept, 1})

\* Every step-th address is looked at, the first one first.
Taken(i, step) == (i - 1) % step = 0

Stored(b, m, random) ==
  LET step == Step(b, m, random)
      filled[i \in 0..Usable(m)] ==
        IF i = 0 THEN b
        ELSE IF Taken(i, step) THEN Accept(filled[i - 1], m[i])
        ELSE filled[i - 1]
  IN filled[Usable(m)]

\* authority(line) throws when it has parsed a port; a line without one has port zero.
Throws(lines) == \E h \in ToSet(lines) : HasPort(h)

\* hosts::store of a list.
store(m) ==
  IF hosts_stopped \/ m = <<>>
  THEN UNCHANGED hosts
  ELSE /\ \E random \in 1..Usable(m) : buffer' = Stored(buffer, m, random)
       /\ UNCHANGED hosts_stopped

-----------------------------------------------------------------------------
(* The start sequence *)

Unseeded == [s \in Seed |-> "done"]
NotStarted == [step |-> "none", code |-> "success", quit |-> FALSE, seeds |-> Unseeded]

At(i, step) == start[i].step = step
Go(i, step, code) == start' = [start EXCEPT ![i].step = step, ![i].code = code]

\* threadpool::join and spawn: what was queued before runs again.
Start ==
  /\ stopped /\ stopping = "no" /\ run < MaxStarts
  /\ stopped' = FALSE /\ working' = TRUE /\ run' = run + 1
  /\ start' = [start EXCEPT ![run + 1].step = "posted"]
  /\ uncaught' = FALSE
  /\ UNCHANGED <<file, unsaved, hosts, refusing, stopping>>

\* p2p::handle_manual_started
ManualStarted(i) ==
  /\ working /\ At(i, "posted")
  /\ IF stopped THEN Go(i, "answered", "service_stopped") ELSE Go(i, "load", "success")
  /\ UNCHANGED <<disk, hosts, service>>

\* hosts::start, when it returns: no line has a port and all are skipped, or the file
\* does not open, which does not set the bit that bad() tests.
LoadHosts(i) ==
  /\ At(i, "load")
  /\ IF hosts_stopped
     THEN hosts_stopped' = FALSE /\ Go(i, "loaded", "success")
     ELSE UNCHANGED hosts_stopped /\ Go(i, "loaded", "operation_failed")
  /\ UNCHANGED <<disk, buffer, service>>

\* The process is gone, and may be run again.
ProcessEnds ==
  /\ unsaved' = {}
  /\ buffer' = <<>> /\ hosts_stopped' = TRUE
  /\ stopped' = TRUE /\ working' = FALSE /\ refusing' = FALSE /\ stopping' = "no"
  /\ run' = 0 /\ start' = [i \in 1..MaxStarts |-> NotStarted]

\* hosts::start, when a line has a port: nothing on the thread of the pool catches.
LoadThrows(i) ==
  /\ At(i, "load") /\ hosts_stopped /\ Throws(file)
  /\ ProcessEnds
  /\ uncaught' = TRUE
  /\ UNCHANGED file

\* p2p::handle_hosts_loaded attaches the seed session.
HostsLoaded(i) ==
  /\ At(i, "loaded")
  /\ IF stopped
     THEN Go(i, "answered", "service_stopped")
     ELSE Go(i, IF start[i].code = "success" THEN "seed" ELSE "answered", start[i].code)
  /\ UNCHANGED <<disk, hosts, service>>

\* session_seed::handle_started: seeding is for a node that knows no address.
SeedStarted(i) ==
  /\ working /\ At(i, "seed")
  /\ CASE buffer # <<>>                -> Go(i, "finish", "success")
       [] buffer = <<>> /\ Seed = {}   -> Go(i, "finish", "operation_failed")
       [] buffer = <<>> /\ Seed # {}   ->
            start' = [start EXCEPT ![i].step = "seeding", ![i].seeds =
                        IF start[i].quit THEN Unseeded ELSE [s \in Seed |-> "connecting"]]
  /\ UNCHANGED <<disk, hosts, service>>

Seeding(i, s, stages) == At(i, "seeding") /\ start[i].seeds[s] \in stages
Becomes(i, s, stage) == start' = [start EXCEPT ![i].seeds[s] = stage]

\* The seed is connected, its handshake is complete and its protocol attached.
Contact(i, s) ==
  /\ working /\ ~start[i].quit /\ ~refusing
  /\ Seeding(i, s, {"connecting"})
  /\ Becomes(i, s, "germinating")
  /\ UNCHANGED <<disk, hosts, service>>

\* The answer of a seed.  A refused one sets no event, which leaves the timer.
SeedAnswers(i, s, m) ==
  /\ working /\ Seeding(i, s, {"germinating"})
  /\ store(m)
  /\ Becomes(i, s, IF hosts_stopped /\ m # <<>> THEN "stopped" ELSE "done")
  /\ UNCHANGED <<disk, service>>

\* Mutant: a seed that does not answer is waited for.
SeedFailsConnecting(i, s) ==
  /\ working /\ Seeding(i, s, {"connecting", "stopped"})
  /\ Becomes(i, s, "done")
  /\ UNCHANGED <<disk, hosts, service>>

\* It is not reached, is blocked, fails the handshake, is stopped or times out.
SeedFails(i, s) ==
  /\ working /\ Seeding(i, s, {"connecting", "germinating", "stopped"})
  /\ Becomes(i, s, "done")
  /\ UNCHANGED <<disk, hosts, service>>

\* Mutant: the errors of the seeds are suppressed and the count is not read.
SeededAlways == "success"

Seeded == IF buffer # <<>> THEN "success" ELSE "peer_throttling"

\* session_seed::handle_complete, once every seed has called the synchronizer.
Complete(i) ==
  /\ At(i, "seeding") /\ \A s \in Seed : start[i].seeds[s] = "done"
  /\ Go(i, "finish", Seeded)
  /\ UNCHANGED <<disk, hosts, service>>

\* p2p::handle_started
Finish(i) ==
  /\ At(i, "finish")
  /\ Go(i, "answered", IF stopped THEN "service_stopped" ELSE start[i].code)
  /\ UNCHANGED <<disk, hosts, service>>

-----------------------------------------------------------------------------
(* Peers, stop, and a crash *)

\* protocol_address_31402 on a channel of the running node.
Hear(m) ==
  /\ working /\ stopping # "channels"
  /\ run > 0 /\ At(run, "answered") /\ start[run].code = "success"
  /\ store(m)
  /\ UNCHANGED <<disk, service, start>>

Save(lines) ==
  /\ hosts_stopped' = TRUE
  /\ file' = lines
  /\ unsaved' = ToSet(buffer) \ (ToSet(lines) \cup Portless)
  /\ buffer' = <<>>
  /\ UNCHANGED uncaught

\* hosts::stop.  A file that cannot be opened stays what it is, a full disk cuts
\* it off; neither sets the bit that bad() tests right after the construction.
StopHosts ==
  /\ stopping = "no"
  /\ stopping' = "hosts"
  /\ IF hosts_stopped
     THEN UNCHANGED <<disk, hosts>>
     ELSE Save(file) \/ \E lines \in Prefixes(buffer) : Save(lines)
  /\ UNCHANGED <<stopped, working, refusing, run, start>>

StopFlag ==
  /\ stopping = "hosts"
  /\ stopping' = "flag" /\ stopped' = TRUE
  /\ UNCHANGED <<disk, hosts, working, refusing, run, start>>

\* The stop subscriber tells the sessions that have subscribed.
HasSession(i) == start[i].step \in {"seed", "seeding", "finish"}
StopSessions ==
  /\ stopping = "flag"
  /\ stopping' = "sessions"
  /\ start' = [i \in 1..MaxStarts |->
                [start[i] EXCEPT !.quit = @ \/ HasSession(i)]]
  /\ UNCHANGED <<disk, hosts, stopped, working, refusing, run>>

StopChannels ==
  /\ stopping = "sessions"
  /\ stopping' = "channels" /\ refusing' = TRUE
  /\ start' = [i \in 1..MaxStarts |->
                [start[i] EXCEPT !.seeds =
                   [s \in Seed |-> IF @[s] = "germinating" THEN "stopped" ELSE @[s]]]]
  /\ UNCHANGED <<disk, hosts, stopped, working, run>>

\* threadpool::shutdown
Shutdown ==
  /\ stopping = "channels"
  /\ stopping' = "no" /\ working' = FALSE
  /\ UNCHANGED <<disk, hosts, stopped, refusing, run, start>>

\* The process dies, maybe while it writes the file, and is run again.
Crash ==
  /\ \/ UNCHANGED file
     \/ stopping = "no" /\ ~hosts_stopped /\ file' \in Prefixes(buffer)
  /\ ProcessEnds
  /\ uncaught' = FALSE

-----------------------------------------------------------------------------
Init ==
  /\ file = <<>> /\ unsaved = {} /\ uncaught = FALSE
  /\ buffer = <<>> /\ hosts_stopped = TRUE
  /\ stopped = TRUE /\ working = FALSE /\ refusing = FALSE /\ stopping = "no"
  /\ run = 0 /\ start = [i \in 1..MaxStarts |-> NotStarted]

StartNext(i) ==
  \/ ManualStarted(i) \/ LoadHosts(i) \/ HostsLoaded(i) \/ SeedStarted(i)
  \/ Complete(i) \/ Finish(i)
StopNext == StopHosts \/ StopFlag \/ StopSessions \/ StopChannels \/ Shutdown

Next ==
  \/ Start
  \/ \E i \in 1..MaxStarts :
       \/ StartNext(i) \/ LoadThrows(i)
       \/ \E s \in Seed :
            \/ Contact(i, s) \/ SeedFails(i, s)
            \/ \E m \in Messages : SeedAnswers(i, s, m)
  \/ \E m \in Messages : Hear(m)
  \/ StopNext
  \/ Crash

Spec == Init /\ [][Next]_vars

\* The pool runs its handlers while it works, a thread ends the one it runs, and a
\* seed is given up by the timers of its connect, handshake and germination.
Fairness ==
  \A i \in 1..MaxStarts :
    /\ WF_vars(StartNext(i))
    /\ \A s \in Seed : WF_vars(SeedFails(i, s))
FairSpec == Spec /\ Fairness

-----------------------------------------------------------------------------
(* Safety *)

\* A list of new addresses fills the buffer as far as it goes: the step leaves
\* none out while there is room (hosts.cpp:293).
IsNew(b, m) ==
  /\ ToSet(m) \subseteq Address \ ToSet(b)
  /\ IsInjective(m)
FillsTheGap ==
  \A m \in Messages : IsNew(buffer, m) =>
    \A random \in 1..Usable(m) :
      Len(Stored(buffer, m, random)) >= Min({Capacity, Len(buffer) + Len(m)})

\* p2p::start succeeds only if the node then knows an address to connect to, unless
\* a stop has begun: the seeds may all have failed, have told nothing, or nothing new.
SuccessHasHosts ==
  [][\A i \in 1..MaxStarts :
       i = run /\ ~At(i, "answered") /\ At(i, "answered")' /\ start'[i].code = "success"
         => buffer' # <<>> \/ stopping # "no"]_vars

(* Liveness *)

\* Every call of p2p::start is answered, unless the pool is aborted or the process
\* dies first, of a crash or of a saved line: no seed is waited for without end.
StartIsAnswered ==
  \A i \in 1..MaxStarts : At(i, "posted") ~> (start[i].step \in {"answered", "none"} \/ ~working)

(* What the comments say and the code does not do *)

\* hosts.cpp:293 "But always accept at least the amount we are short if available."
Available(b, m) == (ToSet(SubSeq(m, 1, Usable(m))) \ ToSet(b)) \ {Invalid}
AcceptsWhatIsShort ==
  \A m \in Messages : m # <<>> =>
    \A random \in 1..Usable(m) :
      Len(Stored(buffer, m, random)) >= Min({Capacity, Len(buffer) + Cardinality(Available(buffer, m))})

\* test/config/authority.cpp:86 "authority const host(address.str());", followed by the
\* port it has: hosts::start reads the lines hosts::stop wrote and throws nothing.
SavedHostsAreRead == ~uncaught

\* p2p.hpp:96 "Returns the result of file save operation.": p2p::stop returns true
\* whatever hosts::stop could write.
StopReportsSave == unsaved = {}

\* p2p.hpp:95 "start may be reinvoked after.": a start fails for no other reason
\* than a stop or the seeds.
StartMayBeReinvoked ==
  \A i \in 1..MaxStarts : At(i, "answered") /\ Seed # {} => start[i].code # "operation_failed"
=============================================================================
