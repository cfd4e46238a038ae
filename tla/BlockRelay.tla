---------------------------- MODULE BlockRelay ----------------------------
(***************************************************************************)
(* How a node catches up with a peer: protocol_block_in of our node on one *)
(* channel, protocol_block_out of the peer at its other end, and our store *)
(* and pool, which other channels write as well.                           *)
(*                                                                         *)
(* A node reads a channel message by message.  A block is organized by the *)
(* thread that reads; every other message is posted to the strand of its   *)
(* type, so messages of one type keep their order and messages of two      *)
(* types do not.  An organization holds the validation mutex, and writes   *)
(* the headers of the store block by block while others read them; only    *)
(* when it is done does it move full_node's top_block.                     *)
(*                                                                         *)
(* The peer is honest and its own reorganizations are one step.  What it   *)
(* does not answer, or answers late, is the subject of the properties.     *)
(***************************************************************************)
EXTENDS BlockTree, Sequences

CONSTANTS
  StartTops,      \* tops of the store when the node starts
  Fresh,          \* blocks recent enough for a chain that ends there not to be stale
  MaxHeaders,     \* max_get_headers
  HighBandwidth,  \* node_settings().compact_blocks_high_bandwidth
  MaxBacklog,     \* bound: hashes a channel of compact blocks piles up before the timer
  Negotiated,     \* what the versions of the two ends may settle on
  MaxEvents,      \* bound: broken connections, late answers, moves of the peer, and
                  \* blocks from other channels
  None

ASSUME RelayAssumption ==
  /\ StartTops \subseteq Block /\ Fresh \subseteq Block
  /\ MaxHeaders \in Nat \ {0}
  /\ HighBandwidth \in BOOLEAN
  /\ Negotiated \subseteq {"headers", "compact"}
  /\ {MaxBacklog, MaxEvents} \subseteq Nat
  /\ None \notin Block

VARIABLES
  link,         \* "down", or what was negotiated: "headers" or "compact"
  stored,       \* our store: the last header
  top_block,    \* full_node::top_block(), and last_block_ of block_chain
  kept,         \* our block pool
  writer,       \* who holds the validation mutex to reorganize, and to which block
  backlog,      \* protocol_block_in::backlog_
  timer,        \* its timer is running
  high,         \* compact_blocks_high_bandwidth_set_
  awaiting,     \* compact_blocks_map_, the blocks that wait for transactions
  sending,      \* get_data that is in the backlog but not yet sent, by strand
  posted,       \* messages read and not handled, by type
  held,         \* what a thread has called organize with, and what came of it
  wire,         \* messages from the peer that are not read
  requests,     \* messages to the peer that are not handled, by type
  theirs,       \* the peer's top block
  threshold,    \* protocol_block_out::last_locator_top_
  announce_by,  \* headers_to_peer_, compact_to_peer_ and compact_high_bandwidth_
  jobs,         \* send_next_data: what is left of each get_data
  events        \* of those that MaxEvents bounds, how many happened

chain_vars == <<stored, top_block, kept, writer>>
out_vars == <<theirs, threshold, announce_by, jobs>>
relay_vars == <<link, chain_vars, backlog, timer, high, awaiting, sending, posted,
                held, wire, requests, out_vars, events>>

Up == link # "down"
Strand == {"headers", "inventory", "compact"}
Thread == {"block", "compact", "block_transactions"}
Posted == {"headers", "inventory", "compact", "block_transactions", "not_found"}

Nothing == [kind |-> "none", blocks |-> <<>>]
NotHeld == [block |-> None, cleared |-> FALSE, code |-> "none"]
NoWriter == [by |-> "none", goal |-> None]
NoRequests ==
  [send_headers |-> FALSE, send_compact |-> <<>>, get_headers |-> <<>>,
   get_data |-> <<>>, get_block_transactions |-> <<>>]
Quietly == [headers |-> FALSE, compact |-> "unset"]

Data == [kind : {"none", "block", "compact_block"}, blocks : Seq(Block)]
Messages == [kind : Posted \cup {"block", "compact_not_found"}, blocks : Seq(Block)]
Holdings ==
  [block : Block \cup {None}, cleared : BOOLEAN,
   code : {"none", "success", "duplicate_block", "orphan_block", "insufficient_work"}]
Requests ==
  [send_headers : BOOLEAN, send_compact : Seq(BOOLEAN),
   get_headers : Seq([from : Block, stop : Block \cup {None}]),
   get_data : Seq(Data), get_block_transactions : Seq(Block)]

RelayTypeOK ==
  /\ link \in {"down", "headers", "compact"}
  /\ {stored, top_block, theirs} \subseteq Block
  /\ kept \subseteq Block
  /\ writer \in [by : Thread \cup {"other", "none"}, goal : Block \cup {None}]
  /\ backlog \in Seq(Block)
  /\ {timer, high} \subseteq BOOLEAN
  /\ awaiting \subseteq Block
  /\ sending \in [Strand -> Data]
  /\ posted \in [Posted -> Seq(Seq(Block))]
  /\ held \in [Thread -> Holdings]
  /\ wire \in Seq(Messages)
  /\ requests \in Requests
  /\ threshold \in Block \cup {None}
  /\ announce_by \in [headers : BOOLEAN, compact : {"unset", "low", "high"}]
  /\ jobs \in Seq(Data)
  /\ events \in 0..MaxEvents

-----------------------------------------------------------------------------
(* Chains. *)

\* The block of a chain at a height.
At(tip, height) == CHOOSE a \in Lineage(tip) : Height[a] = height

\* The blocks of a chain from one height to another.
Slice(tip, from, to) ==
  [i \in 1..(IF to >= from THEN to - from + 1 ELSE 0) |-> At(tip, from + i - 1)]

\* The highest block two chains have in common.
Meeting(a, b) ==
  CHOOSE c \in Lineage(a) \cap Lineage(b) :
    \A d \in Lineage(a) \cap Lineage(b) : Height[d] <= Height[c]

LowerOf(a, b) == IF a < b THEN a ELSE b
HigherOf(a, b) == IF a > b THEN a ELSE b

\* block_chain::is_stale
IsStale == top_block \notin Fresh

\* filter_blocks: first the pool, then the headers of the store.
IsKnown(b) == b \in kept \cup Lineage(stored)
Unknown(blocks) ==
  LET left[i \in 0..Len(blocks)] ==
        IF i = 0 THEN <<>>
        ELSE IF IsKnown(blocks[i]) THEN left[i - 1] ELSE Append(left[i - 1], blocks[i])
  IN left[Len(blocks)]

(***************************************************************************)
(* fetch_block_locator for the heights of top_block.  A height the store   *)
(* does not have answers not_found, which stops the channel: this is what  *)
(* a reader finds while another channel's reorganization is popping.       *)
(***************************************************************************)
CanLocate == Height[top_block] <= Height[stored]
Locator(stop) == [from |-> At(stored, Height[top_block]), stop |-> stop]

-----------------------------------------------------------------------------
(* The channel. *)

\* Everything either end keeps for the channel, as a new channel finds it.
Cleared ==
  /\ backlog' = <<>> /\ timer' = FALSE /\ high' = FALSE /\ awaiting' = {}
  /\ sending' = [s \in Strand |-> Nothing]
  /\ posted' = [k \in Posted |-> <<>>]
  /\ wire' = <<>>
  /\ requests' = NoRequests
  /\ threshold' = None /\ announce_by' = Quietly /\ jobs' = <<>>

\* The channel stops at both ends.  A reorganization one of its threads has
\* begun goes on; what it would do afterwards finds the protocol stopped.
Stopped ==
  /\ link' = "down"
  /\ Cleared
  /\ held' = [t \in Thread |-> NotHeld]
  /\ writer' = IF writer.by \in Thread THEN [writer EXCEPT !.by = "other"] ELSE writer
  /\ UNCHANGED <<stored, top_block, kept, theirs>>

Happens == events < MaxEvents /\ events' = events + 1

\* protocol_block_in::start on a new channel.
Connect(negotiated) ==
  /\ ~Up
  /\ CanLocate
  /\ link' = negotiated
  /\ timer' = TRUE
  /\ high' = (negotiated = "compact" /\ HighBandwidth /\ ~IsStale)
  /\ requests' = [NoRequests EXCEPT
       !.send_headers = TRUE,
       !.send_compact = IF negotiated = "compact" THEN <<high'>> ELSE <<>>,
       !.get_headers = <<Locator(None)>>]
  /\ UNCHANGED <<chain_vars, backlog, awaiting, sending, posted, held, wire, out_vars, events>>

\* The network breaks the connection.
Disconnect ==
  /\ Up
  /\ Happens
  /\ Stopped

\* The read cycle, for the messages that are not blocks.
Read ==
  /\ wire # <<>>
  /\ held["block"] = NotHeld
  /\ Head(wire).kind \in Posted
  /\ wire' = Tail(wire)
  /\ posted' = [posted EXCEPT ![Head(wire).kind] = Append(@, Head(wire).blocks)]
  /\ UNCHANGED <<link, chain_vars, backlog, timer, high, awaiting, sending, held,
                 requests, out_vars, events>>

\* to_hashes(block): a compact block the peer did not find is nobody's concern.
ReadNothing ==
  /\ wire # <<>>
  /\ held["block"] = NotHeld
  /\ Head(wire).kind = "compact_not_found"
  /\ wire' = Tail(wire)
  /\ UNCHANGED <<link, chain_vars, backlog, timer, high, awaiting, sending, posted, held,
                 requests, out_vars, events>>

-----------------------------------------------------------------------------
(* Announcements and answers: headers and inventory. *)

\* Compact blocks never leave the backlog.  Where a channel goes on asking, the
\* bound stands for the minute the timer gives it.
PiledUp == link = "compact" /\ Len(backlog) >= MaxBacklog

\* send_get_data, up to its SEND.  A strand's message asks for what is unknown.
Ask(s, blocks, kind) ==
  /\ backlog' = backlog \o blocks
  /\ timer' = (timer \/ backlog = <<>>)
  /\ sending' = [sending EXCEPT ![s] = [kind |-> kind, blocks |-> blocks]]
  /\ IF link = "compact" /\ HighBandwidth /\ ~high /\ ~IsStale
     THEN /\ high' = TRUE
          /\ requests' = [requests EXCEPT !.send_compact = Append(@, TRUE)]
     ELSE UNCHANGED <<high, requests>>

\* handle_receive_headers and handle_receive_inventory.
ReceiveHashes(s) ==
  /\ s \in {"headers", "inventory"}
  /\ posted[s] # <<>>
  /\ sending[s] = Nothing
  /\ ~PiledUp
  /\ posted' = [posted EXCEPT ![s] = Tail(@)]
  /\ LET unknown == Unknown(Head(posted[s]))
     IN IF unknown = <<>> THEN UNCHANGED <<backlog, timer, high, sending, requests>>
        ELSE Ask(s, unknown, IF link = "compact" THEN "compact_block" ELSE "block")
  /\ UNCHANGED <<link, chain_vars, awaiting, held, wire, out_vars, events>>

\* The SEND: another strand may have sent in between.
SendGetData(s) ==
  /\ sending[s] # Nothing
  /\ sending' = [sending EXCEPT ![s] = Nothing]
  /\ requests' = [requests EXCEPT !.get_data = Append(@, sending[s])]
  /\ UNCHANGED <<link, chain_vars, backlog, timer, high, awaiting, posted, held, wire,
                 out_vars, events>>

\* MUTANT of ReceiveNotFound: the channel goes on without the block.
ReceiveNotFoundGoesOn ==
  /\ posted["not_found"] # <<>>
  /\ posted' = [posted EXCEPT !["not_found"] = Tail(@)]
  /\ UNCHANGED <<link, chain_vars, backlog, timer, high, awaiting, sending, held, wire,
                 requests, out_vars, events>>

\* handle_receive_not_found
ReceiveNotFound == posted["not_found"] # <<>> /\ Stopped /\ UNCHANGED events
-----------------------------------------------------------------------------
(* Blocks, whole, compact, and completed. *)

\* A thread calls organize: it waits for the validation mutex.
Hold(t, b, cleared) == held' = [held EXCEPT ![t] = [block |-> b, cleared |-> cleared, code |-> "none"]]

\* handle_receive_block, up to organize.
ReadBlock ==
  /\ wire # <<>>
  /\ held["block"] = NotHeld
  /\ Head(wire).kind = "block"
  /\ LET b == Head(wire).blocks[1]
     IN IF backlog # <<>> /\ Head(backlog) = b
        THEN /\ wire' = Tail(wire)
             /\ backlog' = Tail(backlog)
             /\ Hold("block", b, backlog' = <<>>)
             /\ UNCHANGED <<link, chain_vars, timer, high, awaiting, sending, posted,
                            requests, out_vars, events>>
        ELSE Stopped /\ UNCHANGED events

(***************************************************************************)
(* handle_receive_compact_block.  The pool of transactions may hold all of *)
(* the block's, all but some, or two with one short id; then the block is  *)
(* asked for whole, behind the backlog.  A block whose parent is not       *)
(* stored is dropped.                                                      *)
(***************************************************************************)
ReceiveCompact(found) ==
  /\ posted["compact"] # <<>>
  /\ sending["compact"] = Nothing
  /\ held["compact"] = NotHeld
  /\ LET b == Head(posted["compact"])[1]
         stored_parent == Parent[b] \in Lineage(stored)
         locate == b \notin awaiting /\ ~stored_parent /\ ~IsStale
         use == b \notin awaiting /\ stored_parent
     IN IF locate /\ ~CanLocate THEN Stopped /\ UNCHANGED events
        ELSE /\ posted' = [posted EXCEPT !["compact"] = Tail(@)]
             /\ CASE use /\ found = "collision" ->
                       Ask("compact", <<b>>, "block") /\ UNCHANGED <<held, awaiting>>
                  [] use /\ found = "all" ->
                       /\ Hold("compact", b, FALSE)
                       /\ UNCHANGED <<awaiting, requests, backlog, timer, high, sending>>
                  [] use /\ found = "some" ->
                       /\ awaiting' = awaiting \cup {b}
                       /\ requests' = [requests EXCEPT !.get_block_transactions = Append(@, b)]
                       /\ UNCHANGED <<held, backlog, timer, high, sending>>
                  [] OTHER ->
                       /\ requests' = IF locate
                            THEN [requests EXCEPT !.get_headers = Append(@, Locator(None))]
                            ELSE requests
                       /\ UNCHANGED <<held, awaiting, backlog, timer, high, sending>>
             /\ UNCHANGED <<link, chain_vars, wire, out_vars, events>>

\* handle_receive_block_transactions, up to organize.
ReceiveBlockTransactions ==
  /\ posted["block_transactions"] # <<>>
  /\ held["block_transactions"] = NotHeld
  /\ LET b == Head(posted["block_transactions"])[1]
     IN IF b \in awaiting
        THEN /\ posted' = [posted EXCEPT !["block_transactions"] = Tail(@)]
             /\ Hold("block_transactions", b, FALSE)
             /\ UNCHANGED <<link, chain_vars, backlog, timer, high, awaiting, sending,
                            wire, requests, out_vars, events>>
        ELSE Stopped /\ UNCHANGED events

-----------------------------------------------------------------------------
(* Organization: block_organizer, by one thread at a time. *)

ChannelUntouched ==
  UNCHANGED <<link, backlog, timer, high, awaiting, sending, posted, wire, requests,
              out_vars>>

Idle == writer = NoWriter

\* What organize answers, or "reorganize" when it goes on to write the store.
Verdict(b) ==
  CASE IsKnown(b) -> "duplicate_block"
    [] ~IsKnown(b) /\ ~IsKnown(Parent[b]) -> "orphan_block"
    [] ~IsKnown(b) /\ IsKnown(Parent[b]) /\ TotalWork[b] <= TotalWork[stored] ->
         "insufficient_work"
    [] OTHER -> "reorganize"

Keeps(b, verdict) == kept' = IF verdict = "insufficient_work" THEN kept \cup {b} ELSE kept

\* MUTANT of Organize: a branch that does not extend the top is answered at once.
OrganizeExtending(t) ==
  /\ Idle
  /\ held[t].block # None
  /\ held[t].code = "none"
  /\ LET b == held[t].block
         verdict == Verdict(b)
     IN /\ Keeps(b, verdict)
        /\ IF verdict = "reorganize" /\ Parent[b] = stored
           THEN writer' = [by |-> t, goal |-> b] /\ UNCHANGED held
           ELSE held' = [held EXCEPT ![t].code = verdict] /\ UNCHANGED writer
  /\ UNCHANGED <<stored, top_block, events>>
  /\ ChannelUntouched

\* MUTANT of Organize: nobody waits for the validation mutex.
OrganizeUnlocked(t) ==
  /\ held[t].block # None
  /\ held[t].code = "none"
  /\ LET b == held[t].block
         verdict == Verdict(b)
     IN /\ Keeps(b, verdict)
        /\ IF verdict = "reorganize"
           THEN writer' = [by |-> t, goal |-> b] /\ UNCHANGED held
           ELSE held' = [held EXCEPT ![t].code = verdict] /\ UNCHANGED writer
  /\ UNCHANGED <<stored, top_block, events>>
  /\ ChannelUntouched

\* A thread of the channel has the mutex.
Organize(t) ==
  /\ Idle
  /\ held[t].block # None
  /\ held[t].code = "none"
  /\ LET b == held[t].block
         verdict == Verdict(b)
     IN /\ Keeps(b, verdict)
        /\ IF verdict = "reorganize"
           THEN writer' = [by |-> t, goal |-> b] /\ UNCHANGED held
           ELSE held' = [held EXCEPT ![t].code = verdict] /\ UNCHANGED writer
  /\ UNCHANGED <<stored, top_block, events>>
  /\ ChannelUntouched

\* Another channel brings a block.
Elsewhere(b) ==
  /\ Idle
  /\ Happens
  /\ Verdict(b) \in {"insufficient_work", "reorganize"}
  /\ Keeps(b, Verdict(b))
  /\ writer' = IF Verdict(b) = "reorganize" THEN [by |-> "other", goal |-> b] ELSE writer
  /\ UNCHANGED <<stored, top_block, held>>
  /\ ChannelUntouched

\* reorganize pops the blocks above the fork, then pushes the branch.
Write ==
  /\ ~Idle
  /\ stored # writer.goal
  /\ stored' = IF stored \in Lineage(writer.goal) THEN At(writer.goal, Height[stored] + 1)
               ELSE Parent[stored]
  /\ UNCHANGED <<top_block, kept, writer, held, events>>
  /\ ChannelUntouched

\* The pool trades the branch for what was popped, and the subscribers hear.
Commit ==
  /\ ~Idle
  /\ stored = writer.goal
  /\ top_block' = stored
  /\ kept' = (kept \cup Lineage(top_block)) \ Lineage(stored)
  /\ writer' = NoWriter
  /\ held' = IF writer.by \in Thread THEN [held EXCEPT ![writer.by].code = "success"] ELSE held
  /\ UNCHANGED <<stored, events>>
  /\ ChannelUntouched

\* MUTANT of Finish: only a block that extends the chain calls for more.
FinishUnlessWeak(t) ==
  /\ held[t].code # "none"
  /\ LET b == held[t].block
         missing == IF held[t].code = "orphan_block" THEN <<b>> ELSE <<>>
         more == IF t = "block" /\ held[t].cleared /\ held[t].code = "success" THEN <<None>> ELSE <<>>
         stops == missing \o more
     IN IF stops # <<>> /\ ~CanLocate THEN Stopped /\ UNCHANGED events
        ELSE /\ requests' = [requests EXCEPT !.get_headers =
                               @ \o [i \in 1..Len(stops) |-> Locator(stops[i])]]
             /\ timer' = (timer \/ t = "block")
             /\ awaiting' = IF t = "block_transactions" THEN awaiting \ {b} ELSE awaiting
             /\ held' = [held EXCEPT ![t] = NotHeld]
             /\ UNCHANGED <<link, chain_vars, backlog, high, sending, posted, wire,
                            out_vars, events>>

(***************************************************************************)
(* organize returns: handle_store_block asks for what an orphan lacks, the *)
(* handler of blocks restarts the timer and asks for more when it popped   *)
(* the last of the backlog, the handler of transactions forgets the block. *)
(***************************************************************************)
Finish(t) ==
  /\ held[t].code # "none"
  /\ LET b == held[t].block
         missing == IF held[t].code = "orphan_block" THEN <<b>> ELSE <<>>
         more == IF t = "block" /\ held[t].cleared THEN <<None>> ELSE <<>>
         stops == missing \o more
     IN IF stops # <<>> /\ ~CanLocate THEN Stopped /\ UNCHANGED events
        ELSE /\ requests' = [requests EXCEPT !.get_headers =
                               @ \o [i \in 1..Len(stops) |-> Locator(stops[i])]]
             /\ timer' = (timer \/ t = "block")
             /\ awaiting' = IF t = "block_transactions" THEN awaiting \ {b} ELSE awaiting
             /\ held' = [held EXCEPT ![t] = NotHeld]
             /\ UNCHANGED <<link, chain_vars, backlog, high, sending, posted, wire,
                            out_vars, events>>

-----------------------------------------------------------------------------
(* The timer. *)

\* Nothing is on its way and nobody is at work on the channel or the store.
Quiet ==
  /\ wire = <<>> /\ jobs = <<>> /\ Idle
  /\ posted = [k \in Posted |-> <<>>]
  /\ sending = [s \in Strand |-> Nothing]
  /\ held = [t \in Thread |-> NotHeld]
  /\ requests = NoRequests

\* MUTANT of Timeout: a stale chain is no reason to try another peer.
TimeoutOfBacklog ==
  /\ Up
  /\ timer
  /\ IF Quiet \/ PiledUp THEN UNCHANGED events ELSE Happens
  /\ IF backlog # <<>> THEN Stopped
     ELSE /\ timer' = FALSE
          /\ UNCHANGED <<link, chain_vars, backlog, high, awaiting, sending, posted, held,
                         wire, requests, out_vars>>

\* handle_timeout.  Either nothing more will come, or a minute was too short.
Timeout ==
  /\ Up
  /\ timer
  /\ IF Quiet \/ PiledUp THEN UNCHANGED events ELSE Happens
  /\ IF backlog # <<>> \/ IsStale THEN Stopped
     ELSE /\ timer' = FALSE
          /\ UNCHANGED <<link, chain_vars, backlog, high, awaiting, sending, posted, held,
                         wire, requests, out_vars>>

-----------------------------------------------------------------------------
(* The peer: protocol_block_out. *)

InUntouched == UNCHANGED <<link, chain_vars, backlog, timer, high, awaiting, sending,
                           posted, held>>

Send(kind, blocks) == wire' = Append(wire, [kind |-> kind, blocks |-> blocks])

TakeSendHeaders ==
  /\ requests.send_headers
  /\ requests' = [requests EXCEPT !.send_headers = FALSE]
  /\ announce_by' = [announce_by EXCEPT !.headers = TRUE]
  /\ UNCHANGED <<wire, theirs, threshold, jobs>>
  /\ InUntouched /\ UNCHANGED events

\* The handler does not subscribe again: only the first message counts.
TakeSendCompact ==
  /\ requests.send_compact # <<>>
  /\ requests' = [requests EXCEPT !.send_compact = Tail(@)]
  /\ announce_by' = IF announce_by.compact # "unset" THEN announce_by
                    ELSE [announce_by EXCEPT !.compact =
                            IF Head(requests.send_compact) THEN "high" ELSE "low"]
  /\ UNCHANGED <<wire, theirs, threshold, jobs>>
  /\ InUntouched /\ UNCHANGED events

\* locator_limit: a locator of ours that is longer than the peer's chain allows.
Refused(from) == Height[from] + 1 > Height[theirs] + 2

\* fetch_locator_block_headers
HeadersFor(request) ==
  LET start == Height[Meeting(request.from, theirs)]
      begin == IF threshold \in Lineage(theirs) THEN HigherOf(start + 1, Height[threshold])
               ELSE start + 1
      end == IF request.stop \in Lineage(theirs)
             THEN LowerOf(start + 1 + MaxHeaders, Height[request.stop])
             ELSE start + 1 + MaxHeaders
  IN Slice(theirs, begin, LowerOf(end - 1, Height[theirs]))

\* handle_receive_get_headers and handle_fetch_locator_headers
TakeGetHeaders ==
  /\ requests.get_headers # <<>>
  /\ requests' = [requests EXCEPT !.get_headers = Tail(@)]
  /\ LET request == Head(requests.get_headers)
         reply == HeadersFor(request)
     IN IF Refused(request.from) THEN UNCHANGED <<wire, threshold>>
        ELSE /\ Send("headers", reply)
             /\ threshold' = IF reply = <<>> THEN threshold ELSE Head(reply)
  /\ UNCHANGED <<theirs, announce_by, jobs>>
  /\ InUntouched /\ UNCHANGED events

\* handle_receive_get_data starts a chain of sends of its own.
TakeGetData ==
  /\ requests.get_data # <<>>
  /\ requests' = [requests EXCEPT !.get_data = Tail(@)]
  /\ jobs' = Append(jobs, Head(requests.get_data))
  /\ UNCHANGED <<wire, theirs, threshold, announce_by>>
  /\ InUntouched /\ UNCHANGED events

\* send_next_data, send_block or send_compact_block, handle_send_next.
SendNext(i) ==
  /\ i \in DOMAIN jobs
  /\ LET job == jobs[i]
         b == Head(job.blocks)
     IN /\ jobs' = IF Len(job.blocks) > 1
                   THEN [jobs EXCEPT ![i].blocks = Tail(@)]
                   ELSE SubSeq(jobs, 1, i - 1) \o SubSeq(jobs, i + 1, Len(jobs))
        /\ IF job.kind = "block"
           THEN Send(IF b \in Lineage(theirs) THEN "block" ELSE "not_found", <<b>>)
           ELSE Send(IF b \in Lineage(theirs) THEN "compact" ELSE "compact_not_found", <<b>>)
  /\ UNCHANGED <<requests, theirs, threshold, announce_by>>
  /\ InUntouched /\ UNCHANGED events

\* A block that is not found any more is not answered.
TakeGetBlockTransactions ==
  /\ requests.get_block_transactions # <<>>
  /\ requests' = [requests EXCEPT !.get_block_transactions = Tail(@)]
  /\ LET b == Head(requests.get_block_transactions)
     IN IF b \in Lineage(theirs) THEN Send("block_transactions", <<b>>) ELSE UNCHANGED wire
  /\ UNCHANGED <<out_vars>>
  /\ InUntouched /\ UNCHANGED events

\* The peer reorganizes to a heavier block, and handle_reorganized announces.
PeerMoves(b) ==
  /\ TotalWork[b] > TotalWork[theirs]
  /\ Happens
  /\ theirs' = b
  /\ LET incoming == Slice(b, Height[Meeting(theirs, b)] + 1, Height[b])
     IN IF ~Up \/ b \notin Fresh THEN UNCHANGED wire
        ELSE Send(IF announce_by.compact = "high" /\ Len(incoming) = 1 THEN "compact"
                  ELSE IF announce_by.headers THEN "headers" ELSE "inventory", incoming)
  /\ UNCHANGED <<requests, threshold, announce_by, jobs>>
  /\ InUntouched

-----------------------------------------------------------------------------
RelayInit ==
  /\ link = "down"
  /\ theirs \in Block
  /\ top_block \in StartTops
  /\ stored = top_block
  /\ kept = {} /\ writer = NoWriter
  /\ backlog = <<>> /\ timer = FALSE /\ high = FALSE /\ awaiting = {}
  /\ sending = [s \in Strand |-> Nothing]
  /\ posted = [k \in Posted |-> <<>>]
  /\ held = [t \in Thread |-> NotHeld]
  /\ wire = <<>> /\ requests = NoRequests
  /\ threshold = None /\ announce_by = Quietly /\ jobs = <<>>
  /\ events = 0

Receive ==
  \/ Read \/ ReadNothing \/ ReadBlock
  \/ \E s \in Strand : ReceiveHashes(s) \/ SendGetData(s)
  \/ ReceiveNotFound
  \/ \E found \in {"all", "some", "collision"} : ReceiveCompact(found)
  \/ ReceiveBlockTransactions
  \/ \E t \in Thread : Organize(t) \/ Finish(t)
  \/ Write \/ Commit

PeerAnswers ==
  \/ TakeSendHeaders \/ TakeSendCompact \/ TakeGetHeaders \/ TakeGetData
  \/ \E i \in DOMAIN jobs : SendNext(i)
  \/ TakeGetBlockTransactions

Link == \E negotiated \in Negotiated : Connect(negotiated)

World == Disconnect \/ (\E b \in Block : Elsewhere(b) \/ PeerMoves(b))

RelayNext == Receive \/ PeerAnswers \/ Link \/ Timeout \/ World

RelaySpec == RelayInit /\ [][RelayNext]_relay_vars
(***************************************************************************)
(* Fairness: the node and the peer do not both stand still while one of    *)
(* them, the connecting session or the timer has something to do.  Which   *)
(* goes first is not promised, and the world owes nothing.                 *)
(***************************************************************************)
Fairness == WF_relay_vars(PeerAnswers \/ Receive \/ Link \/ Timeout)

FairRelaySpec == RelaySpec /\ Fairness

-----------------------------------------------------------------------------
(* Properties. *)

\* The backlog is what the peer owes: when nothing more is on its way there is
\* no hash left, or handle_timeout drops a peer that answered everything
\* ("exceeded configured block latency").  It holds of channels that ask for
\* whole blocks, however announcements, replies and organizations interleave.
BacklogIsOwed == Quiet /\ link = "headers" => backlog = <<>>

\* Once the timer has run out and the channel is kept, nothing but an
\* announcement moves it ("At this point we are caught up with an honest peer"),
\* so it has to be true: our top is no lighter than that of a peer that is not
\* stale itself.  The last get_headers may not be lost, nor asked from a chain
\* that was about to change.
QuietIsSynced ==
  Quiet /\ Up /\ ~timer /\ theirs \in Fresh => TotalWork[top_block] >= TotalWork[theirs]

\* What subscribers and the other channels are told of the chain is BestChain: a
\* heavier branch wins at once and whole, and what leaves the chain is kept,
\* although the store is written block by block while blocks keep coming.
Best == INSTANCE BestChain WITH
          tip <- top_block, failed <- FALSE, Starts <- StartTops,
          Valid <- Block, MaximumDepth <- 0

MovesAsBestChain == Best!Spec

\* With whole blocks we catch up for good with a peer that is not stale, by
\* announcements, by asking again, or by dropping the channel and starting over.
CatchesUp ==
  \/ <>[](theirs \in Fresh => TotalWork[top_block] >= TotalWork[theirs])
  \/ []<>(link = "compact")

-----------------------------------------------------------------------------
(* What a comment of the code says, and it does not do. *)

\* "if we haven't the parent block already, send a get_header message and
\* return": a compact block is given up for its headers only when its parent is
\* neither stored nor in the block pool.  The code looks in the store alone.
DropsOnlyOrphans ==
  [][/\ Up'
     /\ posted["compact"] # <<>>
     /\ posted'["compact"] = Tail(posted["compact"])
     /\ requests'.get_headers # requests.get_headers
     => ~IsKnown(Parent[Head(posted["compact"])[1]])]_relay_vars

\* protocol_block_in.cpp:75 "Use timer to drop slow peers.": a peer that has sent
\* all it was asked for is not slow, so the deadline finds no hash in the backlog.
DropsOnlySlowPeers == Quiet /\ Up => backlog = <<>>
============================================================================
