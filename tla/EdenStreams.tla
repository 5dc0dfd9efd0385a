----------------------------- MODULE EdenStreams -----------------------------
(***************************************************************************)
(* The game streams between nodes (src/core/mainUE.go): opening them, the  *)
(* writer and the read loop of each end, the tables of workers and routes, *)
(* the two ways an outgoing packet takes, the loss statistics, and the     *)
(* stop of a node.                                                         *)
(*                                                                         *)
(* A frame is its sequence number and destination address; its payload is  *)
(* handed on unread.  A stream carries frames in order, each way, until    *)
(* either end closes it or the connection breaks.                          *)
(***************************************************************************)
EXTENDS Integers, Sequences, FiniteSets, Bags

CONSTANTS
    Nodes,
    Addresses,     \* the destinations packets have, absent nodes included
    AddressOf,     \* the virtual address hashed from a node's ID
    Broadcasts,    \* the addresses that end in .255; a node's may be one of them
    Streams,       \* bound: streams ever opened, in the order 1, 2, ...
    Dialers,       \* nodes that connect to others
    Senders,       \* nodes whose adapter reads packets
    Stoppers,      \* nodes that may be stopped
    Breaking,      \* TRUE: connections may break
    MaxPackets,    \* bound: packets a node sends
    QueueSize,     \* frames a worker queues (4096 in the code)
    EgressSize,    \* frames the egress queue holds (32768)
    None

ASSUME StreamParameters ==
    /\ AddressOf \in [Nodes -> Addresses] /\ Broadcasts \subseteq Addresses
    /\ Streams \subseteq Nat /\ IsFiniteSet(Streams)
    /\ Dialers \subseteq Nodes /\ Senders \subseteq Nodes /\ Stoppers \subseteq Nodes
    /\ Breaking \in BOOLEAN
    /\ {MaxPackets, QueueSize, EgressSize} \subseteq Nat
    /\ None \notin Nodes /\ None \notin Streams /\ None \notin Nodes \X Nodes

Frame == [seq : Nat, dest : Addresses]

\* A frame that is to be queued with the worker of a stream.
Job == [stream : Streams, frame : Frame]

\* An end of a stream: not known to the node yet, with a worker made for it,
\* registered with its read loop running, or cleaned up.
Stage == {"unknown", "made", "reading", "done"}

\* A writerLoop: not started, running, its context cancelled, left.
Writer == {"none", "running", "cancelled", "ended"}

VARIABLES
    ends,       \* per stream: the dialling and the listening node, or None
    open,       \* per stream: neither end closed it and it did not break
    stage,      \* per stream and node: the node's end
    writer,     \* per stream and node: the worker's writerLoop
    queue,      \* per stream and node: the worker's queue
    wire,       \* per stream and node: frames on their way to the node
    active,     \* activeStreams: per node and peer a stream, or None
    route,      \* routingTable: per node and address a stream, or None
    egress,     \* vpnEgressQueue of each node
    held,       \* per node: the frame HandleOutboundPacket has yet to put there
    sending,    \* per node: its jobs, of the workers there were when it began
    forwarding, \* per node: the jobs of the egress worker, for one frame
    sent,       \* netStats.LocalSeq
    lost,       \* netStats.PacketsLost
    lastSeq,    \* netStats.LastRemoteSeq, None before the first frame
    injected,   \* per node: bag of senders and frames handed to the adapter
    running     \* per node: not stopped

streamVars == <<ends, open, stage, writer>>
tables == <<active, route>>
jobs == <<held, sending, forwarding>>
frames == <<queue, wire, egress, jobs>>
stats == <<sent, lost, lastSeq, injected>>
vars == <<streamVars, tables, frames, stats, running>>

-----------------------------------------------------------------------------
(* Opening a stream.                                                       *)

Other(s, n) == IF ends[s][1] = n THEN ends[s][2] ELSE ends[s][1]

\* The context of workers of a node is cancelled.
Cancel(n, workers) ==
    [s \in Streams |->
       [writer[s] EXCEPT ![n] =
          IF s \in workers /\ @ = "running" THEN "cancelled" ELSE @]]

\* A worker is made for one end of a stream: the table is read without the
\* lock, an old worker for the peer is cancelled and its stream closed.
MakeWorker(n, s, p) ==
    /\ stage' = [stage EXCEPT ![s][n] = "made"]
    /\ writer' = [Cancel(n, {active[n][p]}) EXCEPT ![s][n] = "running"]
    /\ open' = [r \in Streams |-> IF r = s THEN open[s] \/ ends[s] = None
                                           ELSE open[r] /\ r # active[n][p]]

\* NewStream of AutoConnectToPeers and ConnectToPeer.
Dial(n, p) ==
    \E s \in Streams :
        /\ n \in Dialers /\ p # n
        /\ running[n] /\ running[p]
        /\ ends[s] = None /\ \A r \in Streams : r < s => ends[r] # None
        /\ ends' = [ends EXCEPT ![s] = <<n, p>>]
        /\ MakeWorker(n, s, p)
        /\ UNCHANGED <<tables, frames, stats, running>>

\* The listening node's stream handler.
Answer(n, s) ==
    /\ ends[s] # None /\ ends[s][2] = n
    /\ stage[s][n] = "unknown" /\ running[n]
    /\ MakeWorker(n, s, ends[s][1])
    /\ UNCHANGED <<ends, tables, frames, stats, running>>

\* The locked insertion; then the read loop is started.
Register(n, s) ==
    /\ stage[s][n] = "made"
    /\ active' = [active EXCEPT ![n][Other(s, n)] = s]
    /\ route' = [route EXCEPT ![n][AddressOf[Other(s, n)]] = s]
    /\ stage' = [stage EXCEPT ![s][n] = "reading"]
    /\ UNCHANGED <<ends, open, writer, frames, stats, running>>

\* The connection under a stream breaks.
Break(s) ==
    /\ Breaking /\ ends[s] # None /\ open[s]
    /\ open' = [open EXCEPT ![s] = FALSE]
    /\ UNCHANGED <<ends, stage, writer, tables, frames, stats, running>>

\* Mutant of Removed: only what the peer's other streams left is removed.
RemovedOther(n, p, s) == {active[n][p]} \ {s, None}

\* The worker a clean-up removes: whichever is registered for the peer.
Removed(n, p, s) == {active[n][p]} \ {None}

\* The deferred clean-up of readStreamLoop, after a read failed. Frames on
\* the way when the stream was closed may have been read before.
CleanUp(n, s) ==
    LET p == Other(s, n)
    IN  /\ stage[s][n] = "reading" /\ ~ open[s]
        /\ stage' = [stage EXCEPT ![s][n] = "done"]
        /\ active' = [active EXCEPT ![n][p] =
                         IF @ \in Removed(n, p, s) THEN None ELSE @]
        /\ writer' = Cancel(n, Removed(n, p, s))
        /\ route' = [route EXCEPT ![n][AddressOf[p]] = None]
        /\ UNCHANGED <<ends, open, frames, stats, running>>

\* Mutant of Severed: streams that are not registered yet are forgotten.
SeveredRegistered(n) == {active[n][p] : p \in Nodes} \ {None}

\* The streams that end when the host of a node is closed.
Severed(n) == {s \in Streams : ends[s] # None /\ n \in {ends[s][1], ends[s][2]}}

\* StopEdenNode: the workers are closed and their table replaced, the context
\* of all workers is cancelled, and the host closed with its streams.  The
\* routing table is left alone.
Stop(n) ==
    /\ n \in Stoppers /\ running[n]
    /\ running' = [running EXCEPT ![n] = FALSE]
    /\ active' = [active EXCEPT ![n] = [p \in Nodes |-> None]]
    /\ writer' = Cancel(n, Streams)
    /\ open' = [s \in Streams |-> open[s] /\ s \notin Severed(n)]
    /\ UNCHANGED <<ends, stage, route, frames, stats>>

-----------------------------------------------------------------------------
(* Packets.                                                                *)

Workers(n) == {active[n][p] : p \in Nodes} \ {None}

Jobs(workers, f) == {[stream |-> s, frame |-> f] : s \in workers}

\* HandleOutboundPacket takes the workers of the table as it finds it, and
\* numbers the frame. The adapter's one thread calls it again when it is done.
Send(n, dest) ==
    LET f == [seq |-> sent[n] + 1, dest |-> dest]
    IN  /\ n \in Senders /\ Workers(n) # {} /\ sent[n] < MaxPackets
        /\ held[n] = << >> /\ sending[n] = {}
        /\ sent' = [sent EXCEPT ![n] = @ + 1]
        /\ held' = [held EXCEPT ![n] = <<f>>]
        /\ sending' = [sending EXCEPT ![n] = Jobs(Workers(n), f)]
        /\ UNCHANGED <<streamVars, tables, queue, wire, egress, forwarding,
                       lost, lastSeq, injected, running>>

\* Then the frame goes into the egress queue, if there is room;
PushEgress(n) ==
    LET fits == Len(egress[n]) < EgressSize
    IN  /\ held[n] # << >>
        /\ held' = [held EXCEPT ![n] = << >>]
        /\ egress' = [egress EXCEPT ![n] = IF fits THEN Append(@, Head(held[n])) ELSE @]
        /\ lost' = [lost EXCEPT ![n] = @ + IF fits THEN 0 ELSE 1]
        /\ UNCHANGED <<streamVars, tables, queue, wire, sending, forwarding,
                       sent, lastSeq, injected, running>>

\* Enqueue: a worker whose queue is full drops the frame and counts it.
Enqueue(n, j) ==
    LET room == Len(queue[j.stream][n]) < QueueSize
    IN  /\ queue' = IF room THEN [queue EXCEPT ![j.stream][n] = Append(@, j.frame)]
                            ELSE queue
        /\ lost' = [lost EXCEPT ![n] = @ + IF room THEN 0 ELSE 1]

\* and last to each of those workers, whatever the table holds by now.
SendToWorker(n) ==
    /\ held[n] = << >>
    /\ \E j \in sending[n] :
          Enqueue(n, j) /\ sending' = [sending EXCEPT ![n] = @ \ {j}]
    /\ UNCHANGED <<streamVars, tables, wire, egress, held, forwarding,
                   sent, lastSeq, injected, running>>

\* Mutant of Targets: a frame without a route goes to everybody.
TargetsFlooded(n, dest) ==
    IF route[n][dest] # None THEN {route[n][dest]} ELSE Workers(n)

\* Where the egress worker sends a frame: to the one there is a route to, to
\* everybody if the address ends in .255, a node's own that has lost its route
\* included, or nowhere.
Targets(n, dest) ==
    IF route[n][dest] = None /\ dest \in Broadcasts THEN Workers(n)
    ELSE {route[n][dest]} \ {None}

\* StartVPNEgressWorker, one frame: the look at the tables. A frame it has
\* taken and not looked up counts as still queued.
Egress(n) ==
    LET f == Head(egress[n])
    IN  /\ egress[n] # << >> /\ forwarding[n] = {}
        /\ egress' = [egress EXCEPT ![n] = Tail(@)]
        /\ forwarding' = [forwarding EXCEPT ![n] = Jobs(Targets(n, f.dest), f)]
        /\ UNCHANGED <<streamVars, tables, queue, wire, held, sending, stats, running>>

\* Then each of the workers found gets it, the lock no longer held.
Forward(n) ==
    /\ \E j \in forwarding[n] :
          Enqueue(n, j) /\ forwarding' = [forwarding EXCEPT ![n] = @ \ {j}]
    /\ UNCHANGED <<streamVars, tables, wire, egress, held, sending,
                   sent, lastSeq, injected, running>>

\* writerLoop: a queued frame is written; on a closed stream the write fails
\* and the loop ends. A cancelled loop may still pick frames before it sees
\* that it is.
Write(n, s) ==
    /\ writer[s][n] \in {"running", "cancelled"} /\ queue[s][n] # << >>
    /\ queue' = [queue EXCEPT ![s][n] = Tail(@)]
    /\ \/ /\ open[s]
          /\ wire' = [wire EXCEPT ![s][Other(s, n)] = Append(@, Head(queue[s][n]))]
          /\ UNCHANGED writer
       \/ /\ ~ open[s]
          /\ writer' = [writer EXCEPT ![s][n] = "ended"]
          /\ UNCHANGED wire
    /\ UNCHANGED <<ends, open, stage, tables, egress, jobs, stats, running>>

LeaveLoop(n, s) ==
    /\ writer[s][n] = "cancelled"
    /\ writer' = [writer EXCEPT ![s][n] = "ended"]
    /\ UNCHANGED <<ends, open, stage, tables, frames, stats, running>>

\* Mutant of Gap: a frame that comes again counts negatively.
GapSigned(last, seq) == IF last # None THEN seq - last - 1 ELSE 0

\* updateNetworkStats: frames missing before this one, by the last sequence
\* number any peer sent.
Gap(last, seq) == IF last # None /\ seq > last + 1 THEN seq - last - 1 ELSE 0

\* readStreamLoop, one frame.
Read(n, s) ==
    LET f == Head(wire[s][n])
    IN  /\ stage[s][n] = "reading" /\ wire[s][n] # << >>
        /\ wire' = [wire EXCEPT ![s][n] = Tail(@)]
        /\ lost' = [lost EXCEPT ![n] = @ + Gap(lastSeq[n], f.seq)]
        /\ lastSeq' = [lastSeq EXCEPT ![n] = f.seq]
        /\ injected' = [injected EXCEPT ![n] =
              @ (+) SetToBag({[from |-> Other(s, n), frame |-> f]})]
        /\ UNCHANGED <<streamVars, tables, queue, egress, jobs, sent, running>>

-----------------------------------------------------------------------------

Init ==
    /\ ends = [s \in Streams |-> None]
    /\ open = [s \in Streams |-> FALSE]
    /\ stage = [s \in Streams |-> [n \in Nodes |-> "unknown"]]
    /\ writer = [s \in Streams |-> [n \in Nodes |-> "none"]]
    /\ queue = [s \in Streams |-> [n \in Nodes |-> << >>]]
    /\ wire = [s \in Streams |-> [n \in Nodes |-> << >>]]
    /\ active = [n \in Nodes |-> [p \in Nodes |-> None]]
    /\ route = [n \in Nodes |-> [a \in Addresses |-> None]]
    /\ egress = [n \in Nodes |-> << >>]
    /\ held = [n \in Nodes |-> << >>]
    /\ sending = [n \in Nodes |-> {}]
    /\ forwarding = [n \in Nodes |-> {}]
    /\ sent = [n \in Nodes |-> 0]
    /\ lost = [n \in Nodes |-> 0]
    /\ lastSeq = [n \in Nodes |-> None]
    /\ injected = [n \in Nodes |-> EmptyBag]
    /\ running = [n \in Nodes |-> TRUE]

Next ==
    \/ \E n \in Nodes :
         \/ \E p \in Nodes : Dial(n, p)
         \/ Stop(n)
         \/ PushEgress(n) \/ SendToWorker(n) \/ Egress(n) \/ Forward(n)
         \/ \E dest \in Addresses \ {AddressOf[n]} : Send(n, dest)
    \/ \E s \in Streams :
         \/ Break(s)
         \/ \E n \in Nodes :
              \/ Answer(n, s) \/ Register(n, s) \/ CleanUp(n, s)
              \/ Write(n, s) \/ LeaveLoop(n, s) \/ Read(n, s)

Spec == Init /\ [][Next]_vars

\* Goroutines that were started get to run: an opened stream is registered
\* and a read loop whose stream has ended leaves.
FairSpec ==
    /\ Spec
    /\ \A n \in Nodes, s \in Streams : WF_vars(Register(n, s) \/ CleanUp(n, s))

-----------------------------------------------------------------------------
(* Properties.                                                             *)

TypeOK ==
    /\ ends \in [Streams -> (Nodes \X Nodes) \cup {None}]
    /\ open \in [Streams -> BOOLEAN]
    /\ stage \in [Streams -> [Nodes -> Stage]]
    /\ writer \in [Streams -> [Nodes -> Writer]]
    /\ queue \in [Streams -> [Nodes -> Seq(Frame)]]
    /\ wire \in [Streams -> [Nodes -> Seq(Frame)]]
    /\ active \in [Nodes -> [Nodes -> Streams \cup {None}]]
    /\ route \in [Nodes -> [Addresses -> Streams \cup {None}]]
    /\ egress \in [Nodes -> Seq(Frame)]
    /\ held \in [Nodes -> Seq(Frame)]
    /\ sending \in [Nodes -> SUBSET Job] /\ forwarding \in [Nodes -> SUBSET Job]
    /\ sent \in [Nodes -> Nat]
    /\ lost \in [Nodes -> Nat]
    /\ lastSeq \in [Nodes -> Nat \cup {None}]
    /\ running \in [Nodes -> BOOLEAN]

\* Every entry of the two tables belongs to a stream whose read loop runs and
\* will remove it, whatever the order in which connections from both sides
\* are registered, replaced and cleaned up.
EntriesHaveReaders ==
    \A n \in Nodes :
        /\ \A p \in Nodes : active[n][p] # None =>
              /\ stage[active[n][p]][n] = "reading"
              /\ Other(active[n][p], n) = p
        /\ \A a \in Addresses : route[n][a] # None =>
              /\ stage[route[n][a]][n] = "reading"
              /\ AddressOf[Other(route[n][a], n)] = a

\* A packet reaches a game at most twice, and at most once when its address is
\* neither the receiver's nor one that is flooded for want of a route: the two
\* ways it is sent do not add up beyond that when streams and routes are
\* replaced, cleaned up and added while it is handed to one worker after the
\* other.
CopiesBounded ==
    \A n \in Nodes : \A x \in DOMAIN injected[n] :
        injected[n][x] <=
            IF x.frame.dest \in {AddressOf[n]} \cup Broadcasts THEN 2 ELSE 1

\* A stopped node is rid of every worker and route in the end, also of those
\* that a handler registers after StopEdenNode emptied the table.
StoppedIsClean ==
    \A n \in Stoppers :
        ~ running[n] ~> [](/\ Workers(n) = {}
                           /\ \A a \in Addresses : route[n][a] = None)

\* README.md:18 has the tunnel wrap game traffic so that LAN games work: a
\* worker is taken from the table only when its own stream has ended.
WorkerOutlivesOldStream ==
    [][\A n, p \in Nodes :
         active[n][p] # None /\ active'[n][p] = None => ~ open'[active[n][p]]]_vars
=============================================================================
