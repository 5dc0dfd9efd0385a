------------------------- MODULE EdenStreams_proofs -------------------------
(***************************************************************************)
(* The tables of EdenStreams and the copies of its packets, for every set  *)
(* of nodes, streams and packets.                                          *)
(*                                                                         *)
(* The bound on the copies a game is handed is of all the places a copy of *)
(* a packet can be in at once: UnderWay counts those in the queues and on  *)
(* the wires of all streams from the sender to the receiver, Due those     *)
(* that a goroutine of the sender is about to queue with a worker, Given   *)
(* those the receiver's adapter has, Waiting the one that is not looked up *)
(* yet.  PairInv bounds their sum, one sender, receiver and packet at a    *)
(* time.                                                                   *)
(***************************************************************************)
EXTENDS EdenStreams, EdenFolds, FiniteSetTheorems, TLAPS

(* A node knows of a stream only once it has ends.  EntriesHaveReaders     *)
(* needs it: a stream that is dialled anew is in no table yet, so giving   *)
(* it ends disturbs no entry.                                              *)
KnownHaveEnds ==
    \A s \in Streams, n \in Nodes : stage[s][n] # "unknown" => ends[s] # None

IInv == TypeOK /\ KnownHaveEnds /\ EntriesHaveReaders

-----------------------------------------------------------------------------
(* Typing of the operators the actions are built from.                     *)

\* Cancelling contexts keeps the writers typed.
LEMMA CancelTyped ==
  ASSUME TypeOK, NEW n \in Nodes, NEW workers
  PROVE  Cancel(n, workers) \in [Streams -> [Nodes -> Writer]]
<1>1. ASSUME NEW s \in Streams
      PROVE  [writer[s] EXCEPT ![n] =
                IF s \in workers /\ @ = "running" THEN "cancelled" ELSE @]
                \in [Nodes -> Writer]
  BY DEF TypeOK, Writer
<1> QED BY <1>1 DEF Cancel

\* The workers of a node, and those a frame is routed to, are streams.
LEMMA WorkersAreStreams ==
  ASSUME TypeOK, NEW n \in Nodes
  PROVE  /\ Workers(n) \subseteq Streams
         /\ \A dest \in Addresses : Targets(n, dest) \subseteq Streams
<1>1. Workers(n) \subseteq Streams
  BY DEF TypeOK, Workers
<1>2. ASSUME NEW dest \in Addresses
      PROVE  Targets(n, dest) \subseteq Streams
  BY <1>1 DEF TypeOK, Targets
<1> QED BY <1>1, <1>2

\* The jobs of a set of streams, for one frame.
LEMMA JobsTyped ==
  ASSUME NEW workers \in SUBSET Streams, NEW f \in Frame
  PROVE  Jobs(workers, f) \in SUBSET Job
BY DEF Jobs, Job

\* Queueing a frame keeps the queues and the counter typed.
LEMMA EnqueueTyped ==
  ASSUME TypeOK, NEW n \in Nodes, NEW j \in Job, Enqueue(n, j)
  PROVE  /\ queue' \in [Streams -> [Nodes -> Seq(Frame)]]
         /\ lost' \in [Nodes -> Nat]
<1> DEFINE s == j.stream
           room == Len(queue[s][n]) < QueueSize
<1>1. s \in Streams /\ j.frame \in Frame
  BY DEF Job
<1>2. /\ queue' = IF room THEN [queue EXCEPT ![s][n] = Append(@, j.frame)] ELSE queue
      /\ lost' = [lost EXCEPT ![n] = @ + IF room THEN 0 ELSE 1]
  BY DEF Enqueue
<1> HIDE DEF s, room
<1>3. queue[s][n] \in Seq(Frame) /\ Append(queue[s][n], j.frame) \in Seq(Frame)
  BY <1>1 DEF TypeOK
<1>4. queue' \in [Streams -> [Nodes -> Seq(Frame)]]
  BY <1>1, <1>2, <1>3 DEF TypeOK
<1>5. lost' \in [Nodes -> Nat]
  BY <1>2 DEF TypeOK
<1> QED BY <1>4, <1>5

\* A gap is a natural number.
LEMMA GapTyped ==
  ASSUME NEW last \in Nat \cup {None}, NEW seq \in Nat
  PROVE  Gap(last, seq) \in Nat
BY DEF Gap

\* The other end of a stream that has ends is a node.
LEMMA OtherTyped ==
  ASSUME TypeOK, NEW s \in Streams, NEW n \in Nodes, ends[s] # None
  PROVE  Other(s, n) \in Nodes
<1>1. ends[s] \in Nodes \X Nodes
  BY DEF TypeOK
<1> QED BY <1>1 DEF Other

-----------------------------------------------------------------------------
(* Frames.                                                                 *)

\* The table invariants speak of ends, stages and tables only.
LEMMA TableFrame ==
  ASSUME KnownHaveEnds, EntriesHaveReaders, UNCHANGED <<ends, stage, active, route>>
  PROVE  KnownHaveEnds' /\ EntriesHaveReaders'
BY DEF KnownHaveEnds, EntriesHaveReaders, Other

\* A worker made for an end the node did not know: no entry is of it.
LEMMA MakeWorkerInv ==
  ASSUME IInv, NEW n \in Nodes, NEW s \in Streams, NEW p \in Nodes,
         stage[s][n] = "unknown", MakeWorker(n, s, p), UNCHANGED <<tables, frames, stats, running>>,
         ends' \in [Streams -> (Nodes \X Nodes) \cup {None}],
         ends'[s] # None,
         \A r \in Streams : ends[r] # None => ends'[r] = ends[r]
  PROVE  IInv'
<1> USE DEF IInv, tables, frames, jobs, stats
<1>1. stage' = [stage EXCEPT ![s][n] = "made"]
  BY DEF MakeWorker
<1>2. stage' \in [Streams -> [Nodes -> Stage]]
  BY <1>1 DEF TypeOK, Stage
<1>3. writer' \in [Streams -> [Nodes -> Writer]]
  <2> DEFINE c == Cancel(n, {active[n][p]})
  <2>1. c \in [Streams -> [Nodes -> Writer]]
    BY CancelTyped
  <2>2. writer' = [c EXCEPT ![s][n] = "running"]
    BY DEF MakeWorker
  <2> HIDE DEF c
  <2> QED BY <2>1, <2>2 DEF Writer
<1>4. open' \in [Streams -> BOOLEAN]
  BY DEF MakeWorker, TypeOK
<1>5. TypeOK'
  BY <1>2, <1>3, <1>4 DEF TypeOK
<1>6. \A r \in Streams, m \in Nodes :
         stage'[r][m] = IF r = s /\ m = n THEN "made" ELSE stage[r][m]
  BY <1>1 DEF TypeOK
<1>7. KnownHaveEnds'
  BY <1>6, StreamParameters DEF KnownHaveEnds
<1>8. \A m \in Nodes, r \in Streams : stage[r][m] = "reading" =>
         stage'[r][m] = "reading" /\ Other(r, m)' = Other(r, m)
  BY <1>6 DEF KnownHaveEnds, Other
<1>9. ASSUME NEW m \in Nodes, NEW q \in Nodes, active[m][q] # None
      PROVE  /\ stage'[active[m][q]][m] = "reading"
             /\ Other(active[m][q], m)' = q
  <2>1. /\ active[m][q] \in Streams
        /\ stage[active[m][q]][m] = "reading" /\ Other(active[m][q], m) = q
    <3>1. active[m][q] \in Streams
      BY <1>9 DEF TypeOK
    <3> QED BY <1>9, <3>1 DEF EntriesHaveReaders
  <2>2. Other(active[m][q], m)' = (IF ends'[active[m][q]][1] = m
               THEN ends'[active[m][q]][2] ELSE ends'[active[m][q]][1])
    BY DEF Other
  <2>3. ends'[active[m][q]] = ends[active[m][q]]
    BY <2>1 DEF KnownHaveEnds
  <2> QED BY <1>8, <2>1, <2>2, <2>3 DEF Other
<1>10. ASSUME NEW m \in Nodes, NEW a \in Addresses, route[m][a] # None
       PROVE  /\ stage'[route[m][a]][m] = "reading"
              /\ AddressOf[Other(route[m][a], m)'] = a
  <2>1. /\ route[m][a] \in Streams
        /\ stage[route[m][a]][m] = "reading"
        /\ AddressOf[Other(route[m][a], m)] = a
    <3>1. route[m][a] \in Streams
      BY <1>10 DEF TypeOK
    <3> QED BY <1>10, <3>1 DEF EntriesHaveReaders
  <2>2. Other(route[m][a], m)' = (IF ends'[route[m][a]][1] = m
               THEN ends'[route[m][a]][2] ELSE ends'[route[m][a]][1])
    BY DEF Other
  <2>3. ends'[route[m][a]] = ends[route[m][a]]
    BY <2>1 DEF KnownHaveEnds
  <2> QED BY <1>8, <2>1, <2>2, <2>3 DEF Other
<1>11. EntriesHaveReaders'
  BY <1>9, <1>10 DEF EntriesHaveReaders
<1> QED BY <1>5, <1>7, <1>11

-----------------------------------------------------------------------------
(* One lemma per action that touches the tables.                           *)

LEMMA DialInv ==
  ASSUME IInv, NEW n \in Nodes, NEW p \in Nodes, Dial(n, p)
  PROVE  IInv'
<1> USE DEF IInv
<1>1. PICK s \in Streams :
         /\ ends[s] = None
         /\ ends' = [ends EXCEPT ![s] = <<n, p>>]
         /\ MakeWorker(n, s, p)
         /\ UNCHANGED <<tables, frames, stats, running>>
  BY DEF Dial
<1>2. stage[s][n] = "unknown"
  BY <1>1 DEF KnownHaveEnds
<1>3. ends'[s] = <<n, p>> /\ <<n, p>> # None
  BY <1>1, StreamParameters DEF TypeOK
<1>4. \A r \in Streams : ends[r] # None => ends'[r] = ends[r]
  BY <1>1 DEF TypeOK
<1>5. ends' \in [Streams -> (Nodes \X Nodes) \cup {None}]
  BY <1>1 DEF TypeOK
<1> QED BY <1>1, <1>2, <1>3, <1>4, <1>5, MakeWorkerInv

LEMMA AnswerInv ==
  ASSUME IInv, NEW n \in Nodes, NEW s \in Streams, Answer(n, s)
  PROVE  IInv'
<1> USE DEF IInv
<1>1. /\ stage[s][n] = "unknown" /\ MakeWorker(n, s, ends[s][1])
      /\ UNCHANGED <<tables, frames, stats, running>>
      /\ ends' = ends /\ ends[s] # None
  BY DEF Answer
<1>2. ends[s] \in Nodes \X Nodes
  BY <1>1 DEF TypeOK
<1>3. ends[s][1] \in Nodes
  BY <1>2
<1>4. ends' \in [Streams -> (Nodes \X Nodes) \cup {None}]
  BY <1>1 DEF TypeOK
<1> QED BY <1>1, <1>3, <1>4, MakeWorkerInv

\* The entries that are replaced and made are of a stream that is now read.
LEMMA RegisterInv ==
  ASSUME IInv, NEW n \in Nodes, NEW s \in Streams, Register(n, s)
  PROVE  IInv'
<1> USE DEF IInv
<1> DEFINE p == Other(s, n)
<1>1. /\ active' = [active EXCEPT ![n][p] = s]
      /\ route' = [route EXCEPT ![n][AddressOf[p]] = s]
      /\ stage' = [stage EXCEPT ![s][n] = "reading"]
      /\ UNCHANGED <<ends, open, writer, queue, wire, egress, held, sending,
                     forwarding, sent, lost, lastSeq, injected, running>>
      /\ stage[s][n] = "made"
  BY DEF Register, frames, jobs, stats
<1>2. ends[s] # None
  BY <1>1 DEF KnownHaveEnds
<1>3. p \in Nodes /\ AddressOf[p] \in Addresses
  BY <1>2, OtherTyped, StreamParameters
<1>4. Other(s, n)' = p
  BY <1>1 DEF Other
<1> HIDE DEF p
<1>5. TypeOK'
  BY <1>1, <1>3 DEF TypeOK, Stage
<1>6. \A r \in Streams, m \in Nodes :
         stage'[r][m] = IF r = s /\ m = n THEN "reading" ELSE stage[r][m]
  BY <1>1 DEF TypeOK
<1>7. KnownHaveEnds'
  BY <1>1, <1>2, <1>6 DEF KnownHaveEnds
<1>8. \A m, q \in Nodes : active'[m][q] =
         IF m = n /\ q = p THEN s ELSE active[m][q]
  BY <1>1, <1>3 DEF TypeOK
<1>9. \A m \in Nodes, a \in Addresses : route'[m][a] =
         IF m = n /\ a = AddressOf[p] THEN s ELSE route[m][a]
  BY <1>1, <1>3 DEF TypeOK
<1>10. \A m \in Nodes, r \in Streams : Other(r, m)' = Other(r, m)
  BY <1>1 DEF Other
<1>11. ASSUME NEW m \in Nodes, NEW q \in Nodes, active'[m][q] # None
       PROVE  /\ stage'[active'[m][q]][m] = "reading"
              /\ Other(active[m][q], m)' = q
  <2>1. CASE m = n /\ q = p
    BY <1>4, <1>6, <1>8, <2>1
  <2>2. CASE ~ (m = n /\ q = p)
    <3>1. active'[m][q] = active[m][q] /\ active[m][q] \in Streams
      <4>1. active[m][q] \in Streams \cup {None}
        BY DEF TypeOK
      <4> QED BY <1>8, <1>11, <2>2, <4>1
    <3>2. stage[active[m][q]][m] = "reading" /\ Other(active[m][q], m) = q
      BY <1>11, <3>1 DEF EntriesHaveReaders
    <3>3. Other(active[m][q], m)' = Other(active[m][q], m)
      BY <1>1, <3>1 DEF Other
    <3> QED BY <1>6, <3>1, <3>2, <3>3
  <2> QED BY <2>1, <2>2
<1>12. ASSUME NEW m \in Nodes, NEW a \in Addresses, route'[m][a] # None
       PROVE  /\ stage'[route'[m][a]][m] = "reading"
              /\ AddressOf[Other(route[m][a], m)'] = a
  <2>1. CASE m = n /\ a = AddressOf[p]
    BY <1>4, <1>6, <1>9, <2>1
  <2>2. CASE ~ (m = n /\ a = AddressOf[p])
    <3>1. route'[m][a] = route[m][a] /\ route[m][a] \in Streams
      BY <1>9, <1>12, <2>2 DEF TypeOK
    <3>2. /\ stage[route[m][a]][m] = "reading"
          /\ AddressOf[Other(route[m][a], m)] = a
      BY <1>12, <3>1 DEF EntriesHaveReaders
    <3>3. Other(route[m][a], m)' = Other(route[m][a], m)
      BY <1>1, <3>1 DEF Other
    <3> QED BY <1>6, <3>1, <3>2, <3>3
  <2> QED BY <2>1, <2>2
<1>13. EntriesHaveReaders'
  BY <1>11, <1>12 DEF EntriesHaveReaders
<1> QED BY <1>5, <1>7, <1>13

\* The cleaned-up end leaves both tables, which hold it at one place at most.
LEMMA CleanUpInv ==
  ASSUME IInv, NEW n \in Nodes, NEW s \in Streams, CleanUp(n, s)
  PROVE  IInv'
<1> USE DEF IInv
<1> DEFINE p == Other(s, n)
<1>1. /\ active' = [active EXCEPT ![n][p] =
                       IF @ \in Removed(n, p, s) THEN None ELSE @]
      /\ route' = [route EXCEPT ![n][AddressOf[p]] = None]
      /\ stage' = [stage EXCEPT ![s][n] = "done"]
      /\ writer' = Cancel(n, Removed(n, p, s))
      /\ UNCHANGED <<ends, open, queue, wire, egress, held, sending,
                     forwarding, sent, lost, lastSeq, injected, running>>
      /\ stage[s][n] = "reading"
  BY DEF CleanUp, frames, jobs, stats
<1>2. p \in Nodes /\ AddressOf[p] \in Addresses
  BY <1>1, OtherTyped, StreamParameters DEF KnownHaveEnds
<1>3. writer' \in [Streams -> [Nodes -> Writer]]
  BY <1>1, CancelTyped
<1> HIDE DEF p
<1>4. \A m, q \in Nodes : active'[m][q] =
         IF m = n /\ q = p THEN None ELSE active[m][q]
  BY <1>1, <1>2 DEF TypeOK, Removed
<1>5. \A m \in Nodes, a \in Addresses : route'[m][a] =
         IF m = n /\ a = AddressOf[p] THEN None ELSE route[m][a]
  BY <1>1, <1>2 DEF TypeOK
<1>6. active' \in [Nodes -> [Nodes -> Streams \cup {None}]]
  BY <1>1, <1>2 DEF TypeOK
<1>7. TypeOK'
  BY <1>1, <1>2, <1>3, <1>6 DEF TypeOK, Stage
<1>8. \A r \in Streams, m \in Nodes :
         stage'[r][m] = IF r = s /\ m = n THEN "done" ELSE stage[r][m]
  BY <1>1 DEF TypeOK
<1>9. KnownHaveEnds'
  BY <1>1, <1>8 DEF KnownHaveEnds
<1>10. ASSUME NEW m \in Nodes, NEW q \in Nodes, active'[m][q] # None
       PROVE  /\ stage'[active'[m][q]][m] = "reading"
              /\ Other(active[m][q], m)' = q
  <2>1. active'[m][q] = active[m][q] /\ active[m][q] \in Streams
        /\ ~ (m = n /\ q = p)
    <3>1. active[m][q] \in Streams \cup {None}
      BY DEF TypeOK
    <3> QED BY <1>4, <1>10, <3>1
  <2>2. stage[active[m][q]][m] = "reading" /\ Other(active[m][q], m) = q
    BY <1>10, <2>1 DEF EntriesHaveReaders
  <2>3. Other(active[m][q], m)' = Other(active[m][q], m)
    BY <1>1, <2>1 DEF Other
  <2>4. ~ (active[m][q] = s /\ m = n)
    BY <2>1, <2>2 DEF p
  <2> QED BY <1>8, <2>1, <2>2, <2>3, <2>4
<1>11. ASSUME NEW m \in Nodes, NEW a \in Addresses, route'[m][a] # None
       PROVE  /\ stage'[route'[m][a]][m] = "reading"
              /\ AddressOf[Other(route[m][a], m)'] = a
  <2>1. route'[m][a] = route[m][a] /\ route[m][a] \in Streams
        /\ ~ (m = n /\ a = AddressOf[p])
    BY <1>5, <1>11 DEF TypeOK
  <2>2. /\ stage[route[m][a]][m] = "reading"
        /\ AddressOf[Other(route[m][a], m)] = a
    BY <1>11, <2>1 DEF EntriesHaveReaders
  <2>3. Other(route[m][a], m)' = Other(route[m][a], m)
    BY <1>1, <2>1 DEF Other
  <2>4. ~ (route[m][a] = s /\ m = n)
    BY <2>1, <2>2 DEF p
  <2> QED BY <1>8, <2>1, <2>2, <2>3, <2>4
<1>12. EntriesHaveReaders'
  BY <1>10, <1>11, <1>4, <1>5 DEF EntriesHaveReaders
<1> QED BY <1>7, <1>9, <1>12

\* The table of workers is emptied; the routes stay with their readers.
LEMMA StopInv ==
  ASSUME IInv, NEW n \in Nodes, Stop(n)
  PROVE  IInv'
<1> USE DEF IInv
<1>1. /\ running' = [running EXCEPT ![n] = FALSE]
      /\ active' = [active EXCEPT ![n] = [p \in Nodes |-> None]]
      /\ writer' = Cancel(n, Streams)
      /\ open' = [s \in Streams |-> open[s] /\ s \notin Severed(n)]
      /\ UNCHANGED <<ends, stage, route, queue, wire, egress, held, sending,
                     forwarding, sent, lost, lastSeq, injected>>
  BY DEF Stop, frames, jobs, stats
<1>2. writer' \in [Streams -> [Nodes -> Writer]]
  BY <1>1, CancelTyped
<1>3. open' \in [Streams -> BOOLEAN]
  BY <1>1 DEF TypeOK
<1>4. TypeOK'
  BY <1>1, <1>2, <1>3 DEF TypeOK
<1>5. KnownHaveEnds'
  BY <1>1 DEF KnownHaveEnds
<1>6. \A m, q \in Nodes : active'[m][q] = IF m = n THEN None ELSE active[m][q]
  BY <1>1 DEF TypeOK
<1>7. EntriesHaveReaders'
  BY <1>1, <1>6 DEF EntriesHaveReaders, Other
<1> QED BY <1>4, <1>5, <1>7

-----------------------------------------------------------------------------
(* The actions that leave the tables alone.                                *)

LEMMA SendInv ==
  ASSUME IInv, NEW n \in Nodes, NEW dest \in Addresses, Send(n, dest)
  PROVE  IInv'
<1> USE DEF IInv
<1> DEFINE f == [seq |-> sent[n] + 1, dest |-> dest]
<1>1. sent[n] \in Nat /\ f \in Frame
  BY DEF TypeOK, Frame
<1>2. /\ sent' = [sent EXCEPT ![n] = @ + 1]
      /\ held' = [held EXCEPT ![n] = <<f>>]
      /\ sending' = [sending EXCEPT ![n] = Jobs(Workers(n), f)]
      /\ UNCHANGED <<ends, open, stage, writer, active, route, queue, wire, egress,
                     forwarding, lost, lastSeq, injected, running>>
  BY DEF Send, streamVars, tables
<1> HIDE DEF f
<1>3. sent' \in [Nodes -> Nat]
  BY <1>2 DEF TypeOK
<1>4. held' \in [Nodes -> Seq(Frame)]
  <2>1. <<f>> \in Seq(Frame)
    BY <1>1
  <2> QED BY <1>2, <2>1 DEF TypeOK
<1>5. sending' \in [Nodes -> SUBSET Job]
  <2>1. Jobs(Workers(n), f) \in SUBSET Job
    BY <1>1, WorkersAreStreams, JobsTyped
  <2> QED BY <1>2, <2>1 DEF TypeOK
<1>6. TypeOK'
  BY <1>2, <1>3, <1>4, <1>5 DEF TypeOK
<1> QED BY <1>2, <1>6, TableFrame

LEMMA PushEgressInv ==
  ASSUME IInv, NEW n \in Nodes, PushEgress(n)
  PROVE  IInv'
<1> USE DEF IInv
<1> DEFINE f == Head(held[n])
           fits == Len(egress[n]) < EgressSize
<1>1. held[n] \in Seq(Frame) /\ held[n] # << >> /\ egress[n] \in Seq(Frame)
  BY DEF PushEgress, TypeOK
<1>2. f \in Frame
  BY <1>1
<1>3. /\ held' = [held EXCEPT ![n] = << >>]
      /\ egress' = [egress EXCEPT ![n] = IF fits THEN Append(@, f) ELSE @]
      /\ lost' = [lost EXCEPT ![n] = @ + IF fits THEN 0 ELSE 1]
      /\ UNCHANGED <<ends, open, stage, writer, active, route, queue, wire, sending,
                     forwarding, sent, lastSeq, injected, running>>
  BY DEF PushEgress, streamVars, tables
<1> HIDE DEF f, fits
<1>4. held' \in [Nodes -> Seq(Frame)]
  <2>1. << >> \in Seq(Frame)
    OBVIOUS
  <2> QED BY <1>3, <2>1 DEF TypeOK
<1>5. egress' \in [Nodes -> Seq(Frame)]
  <2>1. Append(egress[n], f) \in Seq(Frame)
    BY <1>1, <1>2
  <2> QED BY <1>3, <2>1 DEF TypeOK
<1>6. lost' \in [Nodes -> Nat]
  BY <1>3 DEF TypeOK
<1>7. TypeOK'
  BY <1>3, <1>4, <1>5, <1>6 DEF TypeOK
<1> QED BY <1>3, <1>7, TableFrame

LEMMA EgressInv ==
  ASSUME IInv, NEW n \in Nodes, Egress(n)
  PROVE  IInv'
<1> USE DEF IInv
<1> DEFINE f == Head(egress[n])
<1>1. egress[n] \in Seq(Frame) /\ egress[n] # << >>
  BY DEF Egress, TypeOK
<1>2. f \in Frame /\ Tail(egress[n]) \in Seq(Frame)
  BY <1>1
<1>3. f.dest \in Addresses
  BY <1>2 DEF Frame
<1>4. /\ egress' = [egress EXCEPT ![n] = Tail(@)]
      /\ forwarding' = [forwarding EXCEPT ![n] = Jobs(Targets(n, f.dest), f)]
      /\ UNCHANGED <<ends, open, stage, writer, active, route, queue, wire, held,
                     sending, sent, lost, lastSeq, injected, running>>
  BY DEF Egress, streamVars, tables, stats
<1> HIDE DEF f
<1>5. forwarding' \in [Nodes -> SUBSET Job]
  <2>1. Jobs(Targets(n, f.dest), f) \in SUBSET Job
    BY <1>2, <1>3, WorkersAreStreams, JobsTyped
  <2> QED BY <1>4, <2>1 DEF TypeOK
<1>6. egress' \in [Nodes -> Seq(Frame)]
  BY <1>2, <1>4 DEF TypeOK
<1>7. TypeOK'
  BY <1>4, <1>5, <1>6 DEF TypeOK
<1> QED BY <1>4, <1>7, TableFrame

\* A job of either goroutine is done.
LEMMA JobDoneInv ==
  ASSUME IInv, NEW n \in Nodes, SendToWorker(n) \/ Forward(n)
  PROVE  IInv'
<1> USE DEF IInv
<1>1. UNCHANGED <<ends, open, stage, writer, active, route, wire, egress, held,
                  sent, lastSeq, injected, running>>
  BY DEF SendToWorker, Forward, streamVars, tables
<1>2. PICK j \in sending[n] \cup forwarding[n] : Enqueue(n, j)
  BY DEF SendToWorker, Forward
<1>3. j \in Job
  BY <1>2 DEF TypeOK
<1>4. queue' \in [Streams -> [Nodes -> Seq(Frame)]] /\ lost' \in [Nodes -> Nat]
  BY <1>2, <1>3, EnqueueTyped
<1>5. sending' \in [Nodes -> SUBSET Job] /\ forwarding' \in [Nodes -> SUBSET Job]
  <2>1. CASE SendToWorker(n)
    BY <2>1 DEF SendToWorker, TypeOK
  <2>2. CASE Forward(n)
    BY <2>2 DEF Forward, TypeOK
  <2> QED BY <2>1, <2>2
<1>6. TypeOK'
  BY <1>1, <1>4, <1>5 DEF TypeOK
<1> QED BY <1>1, <1>6, TableFrame

LEMMA WriteInv ==
  ASSUME IInv, NEW n \in Nodes, NEW s \in Streams, Write(n, s)
  PROVE  IInv'
<1> USE DEF IInv
<1> DEFINE f == Head(queue[s][n])
           p == Other(s, n)
<1>1. queue[s][n] \in Seq(Frame) /\ queue[s][n] # << >>
  BY DEF Write, TypeOK
<1>2. f \in Frame /\ Tail(queue[s][n]) \in Seq(Frame)
  BY <1>1
<1>3. queue' = [queue EXCEPT ![s][n] = Tail(@)]
      /\ UNCHANGED <<ends, open, stage, active, route, egress, held, sending,
                     forwarding, sent, lost, lastSeq, injected, running>>
  BY DEF Write, tables, jobs, stats
<1>4. queue' \in [Streams -> [Nodes -> Seq(Frame)]]
  BY <1>2, <1>3 DEF TypeOK
<1>5. CASE /\ wire' = [wire EXCEPT ![s][p] = Append(@, f)]
           /\ UNCHANGED writer
  <2> HIDE DEF f, p
  <2>1. wire' \in [Streams -> [Nodes -> Seq(Frame)]]
    <3>1. CASE p \in Nodes
      <4>1. Append(wire[s][p], f) \in Seq(Frame)
        BY <1>2, <3>1 DEF TypeOK
      <4> QED BY <1>5, <3>1, <4>1 DEF TypeOK
    <3>2. CASE p \notin Nodes
      <4>1. wire' = wire
        BY <1>5, <3>2 DEF TypeOK
      <4> QED BY <4>1 DEF TypeOK
    <3> QED BY <3>1, <3>2
  <2>2. TypeOK'
    BY <1>3, <1>4, <1>5, <2>1 DEF TypeOK
  <2> QED BY <1>3, <1>5, <2>2, TableFrame
<1>6. CASE /\ writer' = [writer EXCEPT ![s][n] = "ended"]
           /\ UNCHANGED wire
  <2>1. TypeOK'
    BY <1>3, <1>4, <1>6 DEF TypeOK, Writer
  <2> QED BY <1>3, <2>1, TableFrame
<1> QED BY <1>5, <1>6 DEF Write

LEMMA ReadInv ==
  ASSUME IInv, NEW n \in Nodes, NEW s \in Streams, Read(n, s)
  PROVE  IInv'
<1> USE DEF IInv
<1> DEFINE f == Head(wire[s][n])
<1>1. wire[s][n] \in Seq(Frame) /\ wire[s][n] # << >>
  BY DEF Read, TypeOK
<1>2. f \in Frame /\ Tail(wire[s][n]) \in Seq(Frame)
  BY <1>1
<1>3. f.seq \in Nat
  BY <1>2 DEF Frame
<1>4. /\ wire' = [wire EXCEPT ![s][n] = Tail(@)]
      /\ lost' = [lost EXCEPT ![n] = @ + Gap(lastSeq[n], f.seq)]
      /\ lastSeq' = [lastSeq EXCEPT ![n] = f.seq]
      /\ UNCHANGED <<ends, open, stage, writer, active, route, queue, egress,
                     held, sending, forwarding, sent, running>>
  BY DEF Read, streamVars, tables, jobs
<1> HIDE DEF f
<1>5. Gap(lastSeq[n], f.seq) \in Nat
  BY <1>3, GapTyped DEF TypeOK
<1>6. lost' \in [Nodes -> Nat] /\ lastSeq' \in [Nodes -> Nat \cup {None}]
  BY <1>3, <1>4, <1>5 DEF TypeOK
<1>7. wire' \in [Streams -> [Nodes -> Seq(Frame)]]
  BY <1>2, <1>4 DEF TypeOK
<1>8. TypeOK'
  BY <1>4, <1>6, <1>7 DEF TypeOK
<1> QED BY <1>4, <1>8, TableFrame

\* A connection that breaks and a writer that leaves.
LEMMA BreakAndLeaveInv ==
  ASSUME IInv, NEW s \in Streams,
         Break(s) \/ \E n \in Nodes : LeaveLoop(n, s)
  PROVE  IInv'
<1> USE DEF IInv, tables, frames, jobs, stats
<1>1. UNCHANGED <<ends, stage, active, route>>
  BY DEF Break, LeaveLoop
<1>2. CASE Break(s)
  <2>1. TypeOK'
    BY <1>2 DEF Break, TypeOK
  <2> QED BY <1>1, <2>1, TableFrame
<1>3. CASE \E n \in Nodes : LeaveLoop(n, s)
  <2>1. TypeOK'
    <3>1. PICK n \in Nodes : LeaveLoop(n, s)
      BY <1>3
    <3>2. writer' = [writer EXCEPT ![s][n] = "ended"]
          /\ UNCHANGED <<ends, open, stage, active, route, queue, wire, egress, held,
                         sending, forwarding, sent, lost, lastSeq, injected, running>>
      BY <3>1 DEF LeaveLoop
    <3>3. writer' \in [Streams -> [Nodes -> Writer]]
      BY <3>2 DEF TypeOK, Writer
    <3> QED BY <3>2, <3>3 DEF TypeOK
  <2> QED BY <1>1, <2>1, TableFrame
<1> QED BY <1>2, <1>3

-----------------------------------------------------------------------------
(* The theorems.                                                           *)

LEMMA InitInv == Init => IInv
<1> SUFFICES ASSUME Init PROVE IInv
  OBVIOUS
<1> USE DEF Init
<1>1. TypeOK
  BY DEF TypeOK, Stage, Writer
<1>2. KnownHaveEnds /\ EntriesHaveReaders
  BY DEF KnownHaveEnds, EntriesHaveReaders
<1> QED BY <1>1, <1>2 DEF IInv

LEMMA NextInv == IInv /\ [Next]_vars => IInv'
<1>1. ASSUME IInv, Next PROVE IInv'
  <2>1. CASE \E n \in Nodes, p \in Nodes : Dial(n, p)
    BY <1>1, <2>1, DialInv
  <2>2. CASE \E n \in Nodes : Stop(n) \/ PushEgress(n) \/ Egress(n)
    BY <1>1, <2>2, StopInv, PushEgressInv, EgressInv
  <2>3. CASE \E n \in Nodes, dest \in Addresses : Send(n, dest)
    BY <1>1, <2>3, SendInv
  <2>4. CASE \E s \in Streams : Break(s) \/ \E n \in Nodes : LeaveLoop(n, s)
    BY <1>1, <2>4, BreakAndLeaveInv
  <2>5. CASE \E s \in Streams, n \in Nodes :
                Answer(n, s) \/ Register(n, s) \/ CleanUp(n, s)
    BY <1>1, <2>5, AnswerInv, RegisterInv, CleanUpInv
  <2>6. CASE \E s \in Streams, n \in Nodes : Write(n, s) \/ Read(n, s)
    BY <1>1, <2>6, WriteInv, ReadInv
  <2>7. CASE \E n \in Nodes : SendToWorker(n) \/ Forward(n)
    BY <1>1, <2>7, JobDoneInv
  <2> QED BY <1>1, <2>1, <2>2, <2>3, <2>4, <2>5, <2>6, <2>7, Zenon DEF Next
<1>2. ASSUME IInv, UNCHANGED vars PROVE IInv'
  <2> USE DEF IInv, vars, streamVars, tables, frames, jobs, stats
  <2>1. TypeOK'
    BY <1>2 DEF TypeOK
  <2>2. UNCHANGED <<ends, stage, active, route>>
    BY <1>2
  <2> QED BY <1>2, <2>1, <2>2, TableFrame
<1> QED BY <1>1, <1>2

LEMMA Inductive == Spec => []IInv
BY InitInv, NextInv, PTL DEF Spec

\* Every variable of the streams keeps its type, for any sizes of the queues
\* and any number of nodes and streams.
THEOREM TypeCorrect == Spec => []TypeOK
<1>1. IInv => TypeOK
  BY DEF IInv
<1> QED BY <1>1, Inductive, PTL

\* Whatever connections are dialled from both sides, replaced, broken,
\* stopped and cleaned up, and in whatever order: each entry of the worker
\* table and of the routing table is of a stream with a running read loop,
\* which removes it.
THEOREM EntriesAreRead == Spec => []EntriesHaveReaders
<1>1. IInv => EntriesHaveReaders
  BY DEF IInv
<1> QED BY <1>1, Inductive, PTL
-----------------------------------------------------------------------------
(* Copies of a frame.                                                      *)

Count(q, f) == Cardinality({i \in DOMAIN q : q[i] = f})

\* The places of a frame in a queue are finitely many.
LEMMA CountType ==
    ASSUME NEW q \in Seq(Frame), NEW f
    PROVE  /\ IsFiniteSet({i \in DOMAIN q : q[i] = f})
           /\ Count(q, f) \in Nat
<1>1. DOMAIN q = 1 .. Len(q) /\ Len(q) \in Int /\ 1 \in Int
  OBVIOUS
<1>2. IsFiniteSet(1 .. Len(q))
  BY <1>1, FS_Interval, Zenon
<1> DEFINE I == {i \in DOMAIN q : q[i] = f}
<1>3. I \in SUBSET (1 .. Len(q))
  BY <1>1
<1> HIDE DEF I
<1>4. IsFiniteSet(I) /\ Cardinality(I) \in Nat
  BY <1>2, <1>3, FS_Subset, FS_CardinalityType
<1> QED BY <1>4 DEF I, Count

LEMMA CountEmpty ==
    ASSUME NEW f PROVE Count(<< >>, f) = 0
<1>1. {i \in DOMAIN << >> : << >>[i] = f} = {}
  OBVIOUS
<1> QED BY <1>1, FS_EmptySet DEF Count

\* A queue that holds a frame is not empty, and one that does not counts none.
LEMMA CountNone ==
    ASSUME NEW q \in Seq(Frame), NEW f, \A i \in DOMAIN q : q[i] # f
    PROVE  Count(q, f) = 0
<1>1. {i \in DOMAIN q : q[i] = f} = {}
  OBVIOUS
<1> QED BY <1>1, FS_EmptySet DEF Count

LEMMA CountAppend ==
    ASSUME NEW q \in Seq(Frame), NEW g \in Frame, NEW f
    PROVE  Count(Append(q, g), f) = Count(q, f) + (IF g = f THEN 1 ELSE 0)
<1> DEFINE r == Append(q, g)
           I == {i \in DOMAIN q : q[i] = f}
           J == {i \in DOMAIN r : r[i] = f}
           k == Len(q) + 1
<1>1. /\ DOMAIN q = 1 .. Len(q) /\ DOMAIN r = 1 .. k /\ Len(q) \in Nat
      /\ r[k] = g /\ \A i \in DOMAIN q : r[i] = q[i]
  OBVIOUS
<1>2. IsFiniteSet(I) /\ Cardinality(I) \in Nat
  BY CountType DEF Count
<1>3. Count(q, f) = Cardinality(I) /\ Count(r, f) = Cardinality(J)
  BY DEF Count
<1>4. CASE g = f
  <2>1. J = I \cup {k} /\ k \notin I
    BY <1>1, <1>4
  <2> HIDE DEF I, J, k
  <2>2. Cardinality(J) = Cardinality(I) + 1
    BY <1>2, <2>1, FS_AddElement
  <2> QED BY <1>3, <1>4, <2>2
<1>5. CASE g # f
  <2>1. J = I
    BY <1>1, <1>5
  <2> HIDE DEF I, J
  <2> QED BY <1>2, <1>3, <1>5, <2>1
<1> QED BY <1>4, <1>5

LEMMA CountTail ==
    ASSUME NEW q \in Seq(Frame), q # << >>, NEW f
    PROVE  Count(q, f) = Count(Tail(q), f) + (IF Head(q) = f THEN 1 ELSE 0)
<1> DEFINE t == Tail(q)
           I == {i \in DOMAIN q : q[i] = f} \ {1}
           J == {i \in DOMAIN t : t[i] = f}
           b == [j \in J |-> j + 1]
<1>1. /\ DOMAIN q = 1 .. Len(q) /\ Len(q) \in Nat \ {0} /\ t \in Seq(Frame)
      /\ DOMAIN t = 1 .. Len(q) - 1
      /\ \A i \in DOMAIN t : t[i] = q[i + 1]
      /\ Head(q) = q[1]
  OBVIOUS
<1>2. IsFiniteSet(J) /\ Cardinality(J) = Count(t, f) /\ Count(t, f) \in Nat
  <2> HIDE DEF t
  <2> QED BY <1>1, CountType DEF Count
<1>3. ExistsBijection(J, I)
  <2>1. b \in [J -> I]
    <3>1. ASSUME NEW j \in J PROVE j + 1 \in I
      BY <1>1
    <3> QED BY <3>1
  <2>2. \A j, k \in J : j # k => b[j] # b[k]
    BY <1>1
  <2>3. \A i \in I : \E j \in J : b[j] = i
    <3>1. ASSUME NEW i \in I PROVE i - 1 \in J /\ b[i - 1] = i
      BY <1>1
    <3> QED BY <3>1
  <2> HIDE DEF b, I, J
  <2> QED BY <2>1, <2>2, <2>3 DEF ExistsBijection, Bijection, Injection, Surjection,
                                  IsInjective
<1>4. IsFiniteSet(I) /\ Cardinality(I) = Count(t, f)
  <2> HIDE DEF I, J
  <2> QED BY <1>2, <1>3, FS_Bijection
<1> DEFINE H == {i \in DOMAIN q : q[i] = f}
<1>5. Count(q, f) = Cardinality(H)
  BY DEF Count
<1>6. CASE Head(q) = f
  <2>1. H = I \cup {1} /\ 1 \notin I
    BY <1>1, <1>6
  <2> HIDE DEF H, I
  <2>2. Cardinality(H) = Cardinality(I) + 1
    BY <1>4, <2>1, FS_AddElement
  <2> QED BY <1>4, <1>5, <1>6, <2>2
<1>7. CASE Head(q) # f
  <2>1. H = I
    BY <1>1, <1>7
  <2> HIDE DEF H, I
  <2> QED BY <1>2, <1>4, <1>5, <1>7, <2>1
<1> QED BY <1>6, <1>7

\* Sums that differ at one place.
LEMMA SumsDiffer ==
    ASSUME NEW S, NEW g, NEW h, NEW x, IsFiniteSet(S),
           g \in [S -> Nat], h \in [S -> Nat], x \in S, \A y \in S : y # x => h[y] = g[y]
    PROVE  SumFunction(h) = SumFunction(g) - g[x] + h[x]
<1> DEFINE d == h[x]
           e == [g EXCEPT ![x] = d]
<1>1. h = e
  OBVIOUS
<1>2. g \in [S -> Int] /\ d \in Int
  OBVIOUS
<1> HIDE DEF d
<1>3. SumFunction(e) = SumFunction(g) - g[x] + d
  BY <1>2, SumChange
<1> QED BY <1>1, <1>3 DEF d
-----------------------------------------------------------------------------
(* The invariant on copies.                                                *)

\* Streams between two nodes, given the ends of streams.
Joins(en, s, p, n) == en[s] \in {<<p, n>>, <<n, p>>}

\* What the queues and the wires are.
Queues == [Streams -> [Nodes -> Seq(Frame)]]

\* Per stream: the copies of f from p to n it carries, queued or on the wire.
CarriedBy(en, qu, wi, p, n, f) ==
    [s \in Streams |-> IF Joins(en, s, p, n)
                       THEN Count(qu[s][p], f) + Count(wi[s][n], f) ELSE 0]

UnderWay(p, n, f) == SumFunction(CarriedBy(ends, queue, wire, p, n, f))

\* Copies the adapter of n was handed, and copies in p's egress queue.
Given(p, n, f) ==
    LET x == [from |-> p, frame |-> f]
    IN  IF x \in DOMAIN injected[n] THEN injected[n][x] ELSE 0

\* Copies p has yet to put there, or the egress worker to look up.
Waiting(p, f) == Count(held[p], f) + Count(egress[p], f)

\* Whether one of some jobs is to queue f with a stream from p to n.
Due(js, p, n, f) ==
    IF \E j \in js : j.frame = f /\ Joins(ends, j.stream, p, n) THEN 1 ELSE 0

\* Copies for n that are on their way, the jobs that p has begun included.
Coming(p, n, f) ==
    UnderWay(p, n, f) + Due(sending[p], p, n, f) + Due(forwarding[p], p, n, f)

Meant(n, f) == f.dest \in {AddressOf[n]} \cup Broadcasts

\* What holds of a frame f between p and n: before it is sent there is none,
\* and then there are never more copies than CopiesBounded allows, one that
\* the egress worker has yet to send to n included.
PairInv(p, n, f) ==
    /\ f.seq > sent[p] =>
          Coming(p, n, f) = 0 /\ Given(p, n, f) = 0 /\ Waiting(p, f) = 0
    /\ Coming(p, n, f) + Given(p, n, f)
          + (IF Meant(n, f) THEN Waiting(p, f) ELSE 0)
          <= IF Meant(n, f) THEN 2 ELSE 1

\* The jobs of a goroutine are of streams its node knows, one for each peer.
OneEach(js, n) ==
    /\ \A j \in js : stage[j.stream][n] # "unknown"
    /\ \A m \in Nodes : \A i, j \in js :
          Joins(ends, i.stream, n, m) /\ Joins(ends, j.stream, n, m) => i = j

JobsInv == \A n \in Nodes : OneEach(sending[n], n) /\ OneEach(forwarding[n], n)

\* Who knows of a stream is one of its two ends, and only such a node has
\* frames queued for it.
EndsKnown ==
    /\ \A s \in Streams : ends[s] # None => ends[s][1] # ends[s][2]
    /\ \A s \in Streams, n \in Nodes :
          /\ stage[s][n] # "unknown" => n \in {ends[s][1], ends[s][2]}
          /\ queue[s][n] # << >> => stage[s][n] # "unknown"
          /\ wire[s][n] # << >> => ends[s] # None

\* The adapters are handed frames of nodes.
Handed ==
    /\ DOMAIN injected = Nodes
    /\ \A n \in Nodes : \A x \in DOMAIN injected[n] :
          x \in [from : Nodes, frame : Frame] /\ injected[n][x] \in Nat

CopyInv ==
    /\ IInv /\ EndsKnown /\ JobsInv /\ Handed
    /\ \A p, n \in Nodes : \A f \in Frame : PairInv(p, n, f)

LEMMA CarriedTyped ==
    ASSUME NEW en, NEW qu \in Queues,
           NEW wi \in Queues,
           NEW p \in Nodes, NEW n \in Nodes, NEW f
    PROVE  /\ CarriedBy(en, qu, wi, p, n, f) \in [Streams -> Nat]
           /\ SumFunction(CarriedBy(en, qu, wi, p, n, f)) \in Nat
<1> DEFINE c == CarriedBy(en, qu, wi, p, n, f)
<1>1. ASSUME NEW s \in Streams
      PROVE  Count(qu[s][p], f) \in Nat /\ Count(wi[s][n], f) \in Nat
  BY CountType DEF Queues
<1>2. c \in [Streams -> Nat]
  BY <1>1 DEF CarriedBy
<1>3. SumFunction(c) = SumFunctionOnSet(c, Streams)
  <2>1. DOMAIN c = Streams
    BY <1>2
  <2> HIDE DEF c
  <2> QED BY <2>1 DEF SumFunction
<1>4. IsFiniteSet(Streams)
  BY StreamParameters
<1> HIDE DEF c
<1>5. SumFunctionOnSet(c, Streams) \in Nat
  <2>1. \A s \in Streams : c[s] \in Nat
    BY <1>2
  <2> QED BY <2>1, <1>4, SumOfNaturals
<1> QED BY <1>2, <1>3, <1>5 DEF c

LEMMA CarriedAt ==
    ASSUME NEW en, NEW qu, NEW wi, NEW p, NEW n, NEW f, NEW s \in Streams
    PROVE  CarriedBy(en, qu, wi, p, n, f)[s]
              = IF Joins(en, s, p, n)
                THEN Count(qu[s][p], f) + Count(wi[s][n], f) ELSE 0
BY DEF CarriedBy

LEMMA StreamSums ==
    ASSUME NEW c, NEW d, NEW s, c \in [Streams -> Nat], d \in [Streams -> Nat],
           s \in Streams, \A r \in Streams : r # s => d[r] = c[r]
    PROVE  SumFunction(d) = SumFunction(c) - c[s] + d[s]
BY StreamParameters, SumsDiffer

\* Two states of the queues that differ at one stream between p and n at most.
AgreeBut(en, qu, wi, qv, wj, p, n, s) ==
    \A r \in Streams : r # s =>
       \/ ~ Joins(en, r, p, n)
       \/ qv[r][p] = qu[r][p] /\ wj[r][n] = wi[r][n]

LEMMA CarriedDiffer ==
    ASSUME NEW en, NEW qu, NEW wi, NEW qv, NEW wj, NEW p, NEW n, NEW f, NEW s,
           qu \in Queues, wi \in Queues, qv \in Queues, wj \in Queues,
           p \in Nodes, n \in Nodes, s \in Streams,
           AgreeBut(en, qu, wi, qv, wj, p, n, s)
    PROVE  SumFunction(CarriedBy(en, qv, wj, p, n, f))
              = SumFunction(CarriedBy(en, qu, wi, p, n, f))
                - CarriedBy(en, qu, wi, p, n, f)[s] + CarriedBy(en, qv, wj, p, n, f)[s]
<1> DEFINE u == CarriedBy(en, qu, wi, p, n, f)
           v == CarriedBy(en, qv, wj, p, n, f)
<1>1. u \in [Streams -> Nat] /\ v \in [Streams -> Nat]
  BY CarriedTyped
<1>2. \A r \in Streams : r # s => v[r] = u[r]
  BY DEF CarriedBy, AgreeBut
<1> HIDE DEF u, v
<1>3. SumFunction(v) = SumFunction(u) - u[s] + v[s]
  BY <1>1, <1>2, StreamSums
<1> QED BY <1>3 DEF u, v

\* Two states of the queues that carry the same.
LEMMA CarriedSame ==
    ASSUME NEW en, NEW eo, NEW qu, NEW wi, NEW qv, NEW wj,
           NEW p, NEW n, NEW f,
           \A r \in Streams :
              (IF Joins(eo, r, p, n) THEN Count(qv[r][p], f) + Count(wj[r][n], f) ELSE 0)
                = IF Joins(en, r, p, n) THEN Count(qu[r][p], f) + Count(wi[r][n], f) ELSE 0
    PROVE  CarriedBy(eo, qv, wj, p, n, f) = CarriedBy(en, qu, wi, p, n, f)
BY DEF CarriedBy

\* The numbers of copies are naturals.
LEMMA CopiesTyped ==
    ASSUME TypeOK, Handed, NEW p \in Nodes, NEW n \in Nodes, NEW f \in Frame
    PROVE  /\ UnderWay(p, n, f) \in Nat /\ Given(p, n, f) \in Nat /\ Waiting(p, f) \in Nat
           /\ Coming(p, n, f) \in Nat
           /\ \A js : Due(js, p, n, f) \in {0, 1}
<1>1. UnderWay(p, n, f) \in Nat
  BY CarriedTyped DEF UnderWay, TypeOK, Queues
<1>2. Given(p, n, f) \in Nat
  BY DEF Given, Handed
<1>3. Waiting(p, f) \in Nat
  <2>1. held[p] \in Seq(Frame) /\ egress[p] \in Seq(Frame)
    BY DEF TypeOK
  <2>2. Count(held[p], f) \in Nat /\ Count(egress[p], f) \in Nat
    BY <2>1, CountType
  <2> QED BY <2>2 DEF Waiting
<1>4. \A js : Due(js, p, n, f) \in {0, 1}
  BY DEF Due
<1>5. Coming(p, n, f) \in Nat
  BY <1>1, <1>4 DEF Coming
<1> QED BY <1>1, <1>2, <1>3, <1>4, <1>5

LEMMA CopiesTypedNext ==
    ASSUME TypeOK', Handed', NEW p \in Nodes, NEW n \in Nodes, NEW f \in Frame
    PROVE  /\ UnderWay(p, n, f)' \in Nat /\ Given(p, n, f)' \in Nat /\ Waiting(p, f)' \in Nat
           /\ Coming(p, n, f)' \in Nat
<1>1. UnderWay(p, n, f)' \in Nat
  <2>1. SumFunction(CarriedBy(ends', queue', wire', p, n, f)) \in Nat
    BY CarriedTyped DEF TypeOK, Queues
  <2> QED BY <2>1, Zenon DEF UnderWay
<1>2. Given(p, n, f)' \in Nat
  BY DEF Given, Handed
<1>3. Waiting(p, f)' \in Nat
  <2>1. held'[p] \in Seq(Frame) /\ egress'[p] \in Seq(Frame)
    BY DEF TypeOK
  <2>2. Count(held'[p], f) \in Nat /\ Count(egress'[p], f) \in Nat
    BY <2>1, CountType
  <2> QED BY <2>2 DEF Waiting
<1>4. Due(sending[p], p, n, f)' \in {0, 1} /\ Due(forwarding[p], p, n, f)' \in {0, 1}
  BY DEF Due
<1>5. Coming(p, n, f)' \in Nat
  BY <1>1, <1>4 DEF Coming
<1> QED BY <1>1, <1>2, <1>3, <1>5

\* The other end of a stream between two nodes.
LEMMA JoinedOther ==
    ASSUME IInv, EndsKnown, NEW s \in Streams, NEW p \in Nodes, NEW n \in Nodes
    PROVE  /\ Joins(ends, s, p, n) => p # n /\ Other(s, p) = n /\ Other(s, n) = p
           /\ stage[s][n] # "unknown" /\ Other(s, n) = p => Joins(ends, s, p, n)
           /\ Joins(ends, s, p, n) => ends[s] # None /\ {ends[s][1], ends[s][2]} = {p, n}
<1>1. Joins(ends, s, p, n) => ends[s] # None
  BY StreamParameters DEF Joins
<1>2. Joins(ends, s, p, n) => /\ p # n /\ {ends[s][1], ends[s][2]} = {p, n}
                              /\ Other(s, p) = n /\ Other(s, n) = p
  BY <1>1 DEF Joins, EndsKnown, Other
<1>3. ASSUME stage[s][n] # "unknown", Other(s, n) = p PROVE Joins(ends, s, p, n)
  <2>1. ends[s] \in Nodes \X Nodes /\ ends[s][1] # ends[s][2]
        /\ n \in {ends[s][1], ends[s][2]}
    BY <1>3 DEF IInv, KnownHaveEnds, TypeOK, EndsKnown
  <2>2. ends[s] = <<ends[s][1], ends[s][2]>>
    BY <2>1
  <2> QED BY <1>3, <2>1, <2>2 DEF Joins, Other
<1> QED BY <1>1, <1>2, <1>3
-----------------------------------------------------------------------------
(* One step and the copies of one frame.                                   *)

\* While the jobs and the ends are the same, only what is under way counts.
LEMMA SameDue ==
    ASSUME UNCHANGED <<ends, sending, forwarding>>, NEW p, NEW m, NEW f,
           UnderWay(p, m, f) \in Nat, UnderWay(p, m, f)' \in Nat
    PROVE  \E d \in {0, 1, 2} : /\ Coming(p, m, f) = UnderWay(p, m, f) + d
                               /\ Coming(p, m, f)' = UnderWay(p, m, f)' + d
<1> DEFINE a == Due(sending[p], p, m, f)
           b == Due(forwarding[p], p, m, f)
<1>1. a \in {0, 1} /\ b \in {0, 1}
  BY DEF Due
<1>2. a' = a /\ b' = b
  BY DEF Due, Joins
<1>3. /\ Coming(p, m, f) = UnderWay(p, m, f) + a + b
      /\ Coming(p, m, f)' = UnderWay(p, m, f)' + a' + b'
  BY DEF Coming
<1> HIDE DEF a, b
<1>4. a + b \in {0, 1, 2}
  BY <1>1
<1>5. /\ Coming(p, m, f) = UnderWay(p, m, f) + (a + b)
      /\ Coming(p, m, f)' = UnderWay(p, m, f)' + (a + b)
  BY <1>1, <1>2, <1>3
<1> QED BY <1>4, <1>5

\* A writer moves a copy from the queue to the wire, or drops it.
LEMMA WriteCopies ==
    ASSUME IInv, EndsKnown, TypeOK', NEW n \in Nodes, NEW s \in Streams, Write(n, s),
           NEW p \in Nodes, NEW m \in Nodes, NEW f \in Frame
    PROVE  /\ Coming(p, m, f)' <= Coming(p, m, f)
           /\ Given(p, m, f)' = Given(p, m, f) /\ Waiting(p, f)' = Waiting(p, f)
<1> DEFINE u == CarriedBy(ends, queue, wire, p, m, f)
           v == CarriedBy(ends, queue', wire', p, m, f)
           g == Head(queue[s][n])
           k == IF g = f THEN 1 ELSE 0
<1>1. /\ queue \in Queues /\ wire \in Queues /\ queue' \in Queues /\ wire' \in Queues
  BY DEF IInv, TypeOK, Queues
<1>2. /\ UNCHANGED <<ends, egress, held, sending, forwarding, injected>>
      /\ queue[s][n] # << >> /\ queue' = [queue EXCEPT ![s][n] = Tail(@)]
      /\ \/ wire' = wire
         \/ wire' = [wire EXCEPT ![s][Other(s, n)] = Append(@, g)]
  BY DEF Write, jobs, stats
<1>3. AgreeBut(ends, queue, wire, queue', wire', p, m, s)
  BY <1>1, <1>2 DEF Queues, AgreeBut
<1>4. u \in [Streams -> Nat] /\ v \in [Streams -> Nat]
      /\ SumFunction(u) \in Nat /\ SumFunction(v) \in Nat
  BY <1>1, CarriedTyped
<1>5. SumFunction(v) = SumFunction(u) - u[s] + v[s]
  BY <1>1, <1>3, CarriedDiffer
<1>6. v[s] <= u[s]
  <2>1. CASE ~ Joins(ends, s, p, m)
    <3>1. u[s] = 0 /\ v[s] = 0
      BY <2>1, CarriedAt
    <3> QED BY <3>1
  <2>2. CASE Joins(ends, s, p, m) /\ n = p
    <3>1. Other(s, n) = m /\ p # m
      BY <2>2, JoinedOther
    <3> DEFINE q == queue[s][p]
               w == wire[s][m]
    <3>2. q \in Seq(Frame) /\ w \in Seq(Frame) /\ q # << >> /\ g \in Frame /\ g = Head(q)
      BY <1>1, <1>2, <2>2 DEF Queues
    <3>3. queue'[s][p] = Tail(q) /\ (wire'[s][m] = w \/ wire'[s][m] = Append(w, g))
      BY <1>1, <1>2, <2>2, <3>1 DEF Queues
    <3>4. u[s] = Count(q, f) + Count(w, f)
          /\ v[s] = Count(queue'[s][p], f) + Count(wire'[s][m], f)
      BY <2>2, CarriedAt
    <3> HIDE DEF q, w, u, v, g
    <3>5. Count(q, f) = Count(Tail(q), f) + k /\ Tail(q) \in Seq(Frame)
      BY <3>2, CountTail
    <3>6. Count(Append(w, g), f) = Count(w, f) + k
      BY <3>2, CountAppend
    <3>7. Count(q, f) \in Nat /\ Count(Tail(q), f) \in Nat /\ Count(w, f) \in Nat
      BY <3>2, <3>5, CountType
    <3>8. k \in {0, 1}
      OBVIOUS
    <3> HIDE DEF k
    <3>9. CASE wire'[s][m] = w
      BY <3>3, <3>4, <3>5, <3>7, <3>8, <3>9
    <3>10. CASE wire'[s][m] = Append(w, g)
      BY <3>3, <3>4, <3>5, <3>6, <3>7, <3>8, <3>10
    <3> QED BY <3>3, <3>9, <3>10
  <2>3. CASE Joins(ends, s, p, m) /\ n # p
    <3>1. n = m /\ Other(s, n) = p /\ p # m
      <4>1. n \in {ends[s][1], ends[s][2]}
        BY <1>2 DEF EndsKnown
      <4>2. {ends[s][1], ends[s][2]} = {p, m}
        BY <2>3, JoinedOther
      <4>3. n = m
        BY <4>1, <4>2, <2>3
      <4> QED BY <2>3, <4>3, JoinedOther
    <3>2. queue'[s][p] = queue[s][p] /\ wire'[s][m] = wire[s][m]
      BY <1>1, <1>2, <2>3, <3>1 DEF Queues
    <3>3. u[s] = v[s]
      BY <3>2, CarriedAt
    <3> QED BY <3>3, <1>4
  <2> QED BY <2>1, <2>2, <2>3
<1>7. UnderWay(p, m, f) = SumFunction(u) /\ UnderWay(p, m, f)' = SumFunction(v)
  BY <1>2 DEF UnderWay
<1>8. Given(p, m, f)' = Given(p, m, f) /\ Waiting(p, f)' = Waiting(p, f)
  BY <1>2 DEF Given, Waiting
<1>9. u[s] \in Nat /\ v[s] \in Nat
  BY <1>4
<1>10. UnderWay(p, m, f)' <= UnderWay(p, m, f)
       /\ UnderWay(p, m, f) \in Nat /\ UnderWay(p, m, f)' \in Nat
  <2> HIDE DEF u, v
  <2> QED BY <1>4, <1>5, <1>6, <1>7, <1>9
<1> HIDE DEF u, v
<1> QED BY <1>2, <1>8, <1>10, SameDue

\* A read loop hands a copy to the adapter.
LEMMA ReadCopies ==
    ASSUME IInv, EndsKnown, Handed, TypeOK', NEW n \in Nodes, NEW s \in Streams, Read(n, s),
           NEW p \in Nodes, NEW m \in Nodes, NEW f \in Frame
    PROVE  /\ Coming(p, m, f)' + Given(p, m, f)' = Coming(p, m, f) + Given(p, m, f)
           /\ Coming(p, m, f)' <= Coming(p, m, f)
           /\ Waiting(p, f)' = Waiting(p, f)
<1> DEFINE u == CarriedBy(ends, queue, wire, p, m, f)
           v == CarriedBy(ends, queue, wire', p, m, f)
           g == Head(wire[s][n])
           x == [from |-> p, frame |-> f]
           y == [from |-> Other(s, n), frame |-> g]
           k == IF Joins(ends, s, p, m) /\ n = m /\ g = f THEN 1 ELSE 0
<1>1. queue \in Queues /\ wire \in Queues /\ wire' \in Queues
  BY DEF IInv, TypeOK, Queues
<1>2. /\ UNCHANGED <<ends, egress, held, sending, forwarding, queue>>
      /\ stage[s][n] = "reading"
      /\ wire[s][n] # << >> /\ wire' = [wire EXCEPT ![s][n] = Tail(@)]
      /\ injected' = [injected EXCEPT ![n] = @ (+) SetToBag({y})]
  BY DEF Read, jobs, streamVars
<1>3. AgreeBut(ends, queue, wire, queue, wire', p, m, s)
  BY <1>1, <1>2 DEF Queues, AgreeBut
<1>4. u \in [Streams -> Nat] /\ v \in [Streams -> Nat]
      /\ SumFunction(u) \in Nat /\ SumFunction(v) \in Nat
  BY <1>1, CarriedTyped
<1>5. SumFunction(v) = SumFunction(u) - u[s] + v[s]
  BY <1>1, <1>3, CarriedDiffer
<1>6. u[s] = v[s] + k
  <2>1. CASE ~ Joins(ends, s, p, m)
    <3>1. u[s] = 0 /\ v[s] = 0
      BY <2>1, CarriedAt
    <3> QED BY <2>1, <3>1
  <2>2. CASE Joins(ends, s, p, m) /\ n = m
    <3> DEFINE q == queue[s][p]
               w == wire[s][m]
    <3>1. q \in Seq(Frame) /\ w \in Seq(Frame) /\ w # << >> /\ g = Head(w)
          /\ wire'[s][m] = Tail(w)
      BY <1>1, <1>2, <2>2 DEF Queues
    <3>2. u[s] = Count(q, f) + Count(w, f) /\ v[s] = Count(q, f) + Count(wire'[s][m], f)
      BY <2>2, CarriedAt
    <3> HIDE DEF q, w, u, v, g
    <3>3. Count(w, f) = Count(Tail(w), f) + (IF Head(w) = f THEN 1 ELSE 0)
          /\ Tail(w) \in Seq(Frame)
      BY <3>1, CountTail
    <3>4. Count(q, f) \in Nat /\ Count(Tail(w), f) \in Nat
      BY <3>1, <3>3, CountType
    <3> QED BY <2>2, <3>1, <3>2, <3>3, <3>4
  <2>3. CASE Joins(ends, s, p, m) /\ n # m
    <3>1. wire'[s][m] = wire[s][m]
      BY <1>1, <1>2, <2>3 DEF Queues
    <3>2. u[s] = v[s]
      BY <3>1, CarriedAt
    <3> QED BY <3>2, <1>4, <2>3
  <2> QED BY <2>1, <2>2, <2>3
<1>7. Given(p, m, f)' = Given(p, m, f) + k
  <2>1. DOMAIN injected = Nodes /\ Given(p, m, f) \in Nat
    BY DEF Handed, Given
  <2>2. Given(p, m, f)' = IF x \in DOMAIN injected'[m] THEN injected'[m][x] ELSE 0
    BY DEF Given
  <2>3. CASE n # m
    <3>1. injected'[m] = injected[m]
      BY <1>2, <2>1, <2>3
    <3> QED BY <2>1, <2>2, <2>3, <3>1 DEF Given
  <2>4. CASE n = m
    <3>1. injected'[m] = injected[m] (+) SetToBag({y})
      BY <1>2, <2>1, <2>4
    <3>2. x = y <=> p = Other(s, m) /\ g = f
      BY <2>4
    <3>3. Joins(ends, s, p, m) <=> p = Other(s, m)
      BY <1>2, <2>4, JoinedOther
    <3>4. k = IF x = y THEN 1 ELSE 0
      BY <2>4, <3>2, <3>3
    <3> DEFINE b == injected[m]
    <3>5. Given(p, m, f) = IF x \in DOMAIN b THEN b[x] ELSE 0
      BY DEF Given
    <3> HIDE DEF x, y, b, k
    <3>6. (IF x \in DOMAIN (b (+) SetToBag({y})) THEN (b (+) SetToBag({y}))[x] ELSE 0)
             = (IF x \in DOMAIN b THEN b[x] ELSE 0) + (IF x = y THEN 1 ELSE 0)
      BY <2>1, <3>5 DEF (+), SetToBag
    <3> QED BY <2>2, <3>1, <3>4, <3>5, <3>6 DEF b
  <2> QED BY <2>3, <2>4
<1>8. UnderWay(p, m, f) = SumFunction(u) /\ UnderWay(p, m, f)' = SumFunction(v)
  BY <1>2 DEF UnderWay
<1>9. Waiting(p, f)' = Waiting(p, f)
  BY <1>2 DEF Waiting
<1>10. u[s] \in Nat /\ v[s] \in Nat /\ k \in {0, 1} /\ Given(p, m, f) \in Nat
  <2>1. Given(p, m, f) \in Nat
    BY DEF Handed, Given
  <2> QED BY <1>4, <2>1
<1>11. /\ UnderWay(p, m, f)' + Given(p, m, f)' = UnderWay(p, m, f) + Given(p, m, f)
       /\ UnderWay(p, m, f)' <= UnderWay(p, m, f)
       /\ UnderWay(p, m, f) \in Nat /\ UnderWay(p, m, f)' \in Nat
       /\ Given(p, m, f) \in Nat /\ Given(p, m, f)' \in Nat
  <2> HIDE DEF u, v, k
  <2> QED BY <1>4, <1>5, <1>6, <1>7, <1>8, <1>10
<1> HIDE DEF u, v, k
<1> QED BY <1>2, <1>9, <1>11, SameDue
\* At most one of the streams leads from n to m.
OneWay(workers, n, m) ==
    \A r, t \in workers : Joins(ends, r, n, m) /\ Joins(ends, t, n, m) => r = t

Reaches(workers, n, m) == \E r \in workers : Joins(ends, r, n, m)

\* A node has one worker per peer, and the egress worker sends m no frame for
\* somebody else that is not flooded.
LEMMA OneWorkerPerPeer ==
    ASSUME IInv, EndsKnown, NEW n \in Nodes, NEW m \in Nodes
    PROVE  /\ OneWay(Workers(n), n, m)
           /\ \A dest \in Addresses :
                 /\ OneWay(Targets(n, dest), n, m)
                 /\ Reaches(Targets(n, dest), n, m)
                       => dest \in {AddressOf[m]} \cup Broadcasts
<1>1. ASSUME NEW r \in Workers(n), Joins(ends, r, n, m) PROVE r = active[n][m]
  <2>1. PICK q \in Nodes : r = active[n][q] /\ active[n][q] # None
    BY DEF Workers
  <2>2. Other(r, n) = q /\ r \in Streams
    BY <2>1 DEF IInv, EntriesHaveReaders, TypeOK
  <2>3. Other(r, n) = m
    BY <1>1, <2>2, JoinedOther
  <2> QED BY <2>1, <2>2, <2>3
<1>2. OneWay(Workers(n), n, m)
  BY <1>1 DEF OneWay
<1>3. ASSUME NEW dest \in Addresses
      PROVE  /\ OneWay(Targets(n, dest), n, m)
             /\ Reaches(Targets(n, dest), n, m)
                       => dest \in {AddressOf[m]} \cup Broadcasts
  <2>1. CASE route[n][dest] = None /\ dest \in Broadcasts
    <3>1. Targets(n, dest) = Workers(n)
      BY <2>1 DEF Targets
    <3> QED BY <3>1, <2>1, <1>2
  <2>2. CASE ~ (route[n][dest] = None /\ dest \in Broadcasts)
    <3>1. Targets(n, dest) = {route[n][dest]} \ {None}
      BY <2>2 DEF Targets
    <3>2. OneWay(Targets(n, dest), n, m)
      BY <3>1 DEF OneWay
    <3>3. ASSUME NEW r \in Targets(n, dest), Joins(ends, r, n, m)
          PROVE  dest = AddressOf[m]
      <4>1. r = route[n][dest] /\ route[n][dest] # None
        BY <3>1
      <4>2. AddressOf[Other(r, n)] = dest /\ r \in Streams
        BY <4>1 DEF IInv, EntriesHaveReaders, TypeOK
      <4> QED BY <4>2, <3>3, JoinedOther
    <3> QED BY <3>2, <3>3 DEF Reaches
  <2> QED BY <2>1, <2>2
<1> QED BY <1>2, <1>3

\* The jobs for streams of which one leads to each peer are one for each peer.
LEMMA JobsOneEach ==
    ASSUME NEW workers, NEW n \in Nodes, NEW f,
           \A m \in Nodes : OneWay(workers, n, m),
           \A r \in workers : stage[r][n] # "unknown"
    PROVE  OneEach(Jobs(workers, f), n)
<1>1. ASSUME NEW j \in Jobs(workers, f)
      PROVE  j = [stream |-> j.stream, frame |-> f] /\ j.stream \in workers
  BY DEF Jobs
<1> QED BY <1>1 DEF OneEach, OneWay

\* What is due of the jobs for one frame.
LEMMA JobsDue ==
    ASSUME NEW workers, NEW g, NEW p, NEW m, NEW f
    PROVE  Due(Jobs(workers, g), p, m, f)
              = IF f = g /\ Reaches(workers, p, m) THEN 1 ELSE 0
<1>1. \A j \in Jobs(workers, g) : j.frame = g /\ j.stream \in workers
  BY DEF Jobs
<1>2. \A r \in workers : \E j \in Jobs(workers, g) : j.frame = g /\ j.stream = r
  <2>1. ASSUME NEW r \in workers
        PROVE  /\ [stream |-> r, frame |-> g] \in Jobs(workers, g)
               /\ [stream |-> r, frame |-> g].frame = g /\ [stream |-> r, frame |-> g].stream = r
    BY DEF Jobs
  <2> QED BY <2>1
<1> QED BY <1>1, <1>2 DEF Due, Reaches

\* Queueing a frame adds one copy, for the node its stream leads to.
LEMMA CarriedAdds ==
    ASSUME NEW en, NEW qu, NEW wi, NEW qv, qu \in Queues, wi \in Queues, qv \in Queues,
           NEW n \in Nodes, NEW x \in Streams, NEW g \in Frame,
           qv = qu \/ qv = [qu EXCEPT ![x][n] = Append(@, g)],
           NEW p \in Nodes, NEW m \in Nodes, NEW f
    PROVE  SumFunction(CarriedBy(en, qv, wi, p, m, f))
              <= SumFunction(CarriedBy(en, qu, wi, p, m, f))
                 + (IF p = n /\ f = g /\ Joins(en, x, n, m) THEN 1 ELSE 0)
<1> DEFINE u == CarriedBy(en, qu, wi, p, m, f)
           v == CarriedBy(en, qv, wi, p, m, f)
           k == IF p = n /\ f = g /\ Joins(en, x, n, m) THEN 1 ELSE 0
<1>1. AgreeBut(en, qu, wi, qv, wi, p, m, x)
  BY DEF Queues, AgreeBut
<1>2. u \in [Streams -> Nat] /\ v \in [Streams -> Nat]
      /\ SumFunction(u) \in Nat /\ SumFunction(v) \in Nat
  BY CarriedTyped
<1>3. SumFunction(v) = SumFunction(u) - u[x] + v[x]
  <2>1. \A r \in Streams : r # x => v[r] = u[r]
    BY <1>1 DEF CarriedBy, AgreeBut
  <2> HIDE DEF u, v
  <2> QED BY <1>2, <2>1, StreamSums
<1>4. v[x] <= u[x] + k
  <2> DEFINE q == qu[x][p]
             w == wi[x][m]
  <2>1. q \in Seq(Frame) /\ w \in Seq(Frame)
    BY DEF Queues
  <2>2. k \in {0, 1} /\ u[x] \in Nat
    BY <1>2
  <2>3. CASE ~ Joins(en, x, p, m)
    <3>1. u[x] = 0 /\ v[x] = 0
      BY <2>3, CarriedAt
    <3> QED BY <2>2, <3>1
  <2>4. CASE Joins(en, x, p, m) /\ qv[x][p] = q
    <3>1. v[x] = u[x]
      BY <2>4, CarriedAt
    <3> HIDE DEF u, v, k
    <3> QED BY <2>2, <3>1
  <2>5. CASE Joins(en, x, p, m) /\ p = n /\ qv[x][p] = Append(q, g)
    <3>1. u[x] = Count(q, f) + Count(w, f) /\ v[x] = Count(Append(q, g), f) + Count(w, f)
      BY <2>5 DEF CarriedBy
    <3>2. k = IF g = f THEN 1 ELSE 0
      BY <2>5
    <3> HIDE DEF q, w, u, v, k
    <3>3. Count(Append(q, g), f) = Count(q, f) + k
      BY <2>1, <3>2, CountAppend
    <3>4. Count(q, f) \in Nat /\ Count(w, f) \in Nat
      BY <2>1, CountType
    <3> QED BY <2>2, <3>1, <3>3, <3>4
  <2>6. qv[x][p] = q \/ (p = n /\ qv[x][p] = Append(q, g))
    BY DEF Queues
  <2> QED BY <2>3, <2>4, <2>5, <2>6
<1>5. u[x] \in Nat /\ v[x] \in Nat /\ k \in {0, 1}
  BY <1>2
<1> HIDE DEF u, v, k
<1>6. SumFunction(v) <= SumFunction(u) + k
  BY <1>2, <1>3, <1>4, <1>5
<1> QED BY <1>6 DEF u, v, k

LEMMA EnqueueCopies ==
    ASSUME IInv, IInv', NEW n \in Nodes, NEW j \in Job, Enqueue(n, j),
           UNCHANGED <<ends, wire>>,
           NEW p \in Nodes, NEW m \in Nodes, NEW f \in Frame
    PROVE  UnderWay(p, m, f)' <= UnderWay(p, m, f)
              + (IF p = n /\ f = j.frame /\ Joins(ends, j.stream, n, m) THEN 1 ELSE 0)
<1> DEFINE x == j.stream
           g == j.frame
           k == IF p = n /\ f = g /\ Joins(ends, x, n, m) THEN 1 ELSE 0
           V == SumFunction(CarriedBy(ends, queue', wire, p, m, f))
<1>1. queue \in Queues /\ wire \in Queues /\ queue' \in Queues
      /\ x \in Streams /\ g \in Frame
  BY DEF IInv, TypeOK, Queues, Job
<1>2. queue' = queue \/ queue' = [queue EXCEPT ![x][n] = Append(@, g)]
  BY DEF Enqueue
<1>3. V <= SumFunction(CarriedBy(ends, queue, wire, p, m, f)) + k
  <2> HIDE DEF x, g
  <2> QED BY <1>1, <1>2, CarriedAdds
<1>4. UnderWay(p, m, f)' = V
  BY DEF UnderWay
<1> HIDE DEF V
<1> QED BY <1>3, <1>4 DEF UnderWay

\* A dropped or delivered copy, or one that only moves, changes no bound.
LEMMA CopiesKept ==
    ASSUME TypeOK, Handed, TypeOK', Handed', NEW p \in Nodes, NEW m \in Nodes, NEW f \in Frame,
           PairInv(p, m, f), sent' = sent,
           Coming(p, m, f)' <= Coming(p, m, f),
           Coming(p, m, f)' + Given(p, m, f)' <= Coming(p, m, f) + Given(p, m, f),
           Waiting(p, f)' <= Waiting(p, f)
    PROVE  PairInv(p, m, f)'
<1> DEFINE U == Coming(p, m, f)
           G == Given(p, m, f)
           W == Waiting(p, f)
           V == Coming(p, m, f)'
           H == Given(p, m, f)'
           X == Waiting(p, f)'
           unsent == f.seq > sent[p]
           meant == Meant(m, f)
<1>1. U \in Nat /\ G \in Nat /\ W \in Nat
  BY CopiesTyped
<1>2. V \in Nat /\ H \in Nat /\ X \in Nat
  BY CopiesTypedNext
<1>3. /\ unsent => U = 0 /\ G = 0 /\ W = 0
      /\ U + G + (IF meant THEN W ELSE 0) <= IF meant THEN 2 ELSE 1
  BY DEF PairInv
<1>4. V <= U /\ V + H <= U + G /\ X <= W
  OBVIOUS
<1>5. PairInv(p, m, f)' = /\ unsent => V = 0 /\ H = 0 /\ X = 0
                          /\ V + H + (IF meant THEN X ELSE 0) <= IF meant THEN 2 ELSE 1
  BY DEF PairInv, Meant
<1> HIDE DEF U, G, W, V, H, X, unsent, meant
<1>6. unsent => V = 0 /\ H = 0 /\ X = 0
  BY <1>1, <1>2, <1>3, <1>4
<1>7. V + H + (IF meant THEN X ELSE 0) <= IF meant THEN 2 ELSE 1
  BY <1>1, <1>2, <1>3, <1>4
<1> QED BY <1>5, <1>6, <1>7
-----------------------------------------------------------------------------
(* Who knows of a stream, and what adapters are handed.                    *)

\* An end that becomes known is one of its stream's two, and stays known.
LEMMA EndsFrame ==
    ASSUME EndsKnown, UNCHANGED <<ends, queue, wire>>,
           \A r \in Streams, m \in Nodes :
              /\ stage'[r][m] # "unknown" =>
                    stage[r][m] # "unknown" \/ m \in {ends[r][1], ends[r][2]}
              /\ stage[r][m] # "unknown" => stage'[r][m] # "unknown"
    PROVE  EndsKnown'
BY DEF EndsKnown

\* A dialled stream has two different ends, and none of its own before.
LEMMA DialEnds ==
    ASSUME IInv, EndsKnown, NEW n \in Nodes, NEW p \in Nodes, Dial(n, p)
    PROVE  EndsKnown'
<1>1. PICK s \in Streams :
         /\ p # n /\ ends[s] = None /\ ends' = [ends EXCEPT ![s] = <<n, p>>]
         /\ stage' = [stage EXCEPT ![s][n] = "made"]
         /\ UNCHANGED <<queue, wire>>
  BY DEF Dial, MakeWorker, frames
<1>2. <<n, p>> # None
  BY StreamParameters
<1>3. /\ ends'[s] = <<n, p>>
      /\ \A r \in Streams : r # s => ends'[r] = ends[r]
  BY <1>1 DEF IInv, TypeOK
<1>4. \A r \in Streams, m \in Nodes :
         stage'[r][m] = IF r = s /\ m = n THEN "made" ELSE stage[r][m]
  BY <1>1 DEF IInv, TypeOK
<1>5. \A m \in Nodes : stage[s][m] = "unknown" /\ wire[s][m] = << >>
  BY <1>1 DEF IInv, KnownHaveEnds, EndsKnown
<1>6. \A r \in Streams : ends'[r] # None => ends'[r][1] # ends'[r][2]
  <2>1. ASSUME NEW r \in Streams, ends'[r] # None PROVE ends'[r][1] # ends'[r][2]
    <3>1. CASE r = s
      BY <1>1, <1>3, <3>1
    <3>2. CASE r # s
      BY <1>3, <2>1, <3>2 DEF EndsKnown
    <3> QED BY <3>1, <3>2
  <2> QED BY <2>1
<1>7. ASSUME NEW r \in Streams, NEW m \in Nodes
      PROVE  /\ stage'[r][m] # "unknown" => m \in {ends'[r][1], ends'[r][2]}
             /\ queue'[r][m] # << >> => stage'[r][m] # "unknown"
             /\ wire'[r][m] # << >> => ends'[r] # None
  <2>1. CASE r = s
    BY <1>1, <1>2, <1>3, <1>4, <1>5, <2>1 DEF EndsKnown
  <2>2. CASE r # s
    BY <1>1, <1>3, <1>4, <2>2 DEF EndsKnown
  <2> QED BY <2>1, <2>2
<1> QED BY <1>6, <1>7 DEF EndsKnown

\* Dialling makes nothing unknown, and gives no stream that has ends others.
LEMMA DialKnows ==
    ASSUME IInv, NEW n \in Nodes, NEW p \in Nodes, Dial(n, p)
    PROVE  \A r \in Streams, m \in Nodes :
             /\ stage[r][m] # "unknown" => stage'[r][m] # "unknown"
             /\ ends[r] # None => ends'[r] = ends[r]
<1>1. PICK s \in Streams :
         /\ ends[s] = None /\ ends' = [ends EXCEPT ![s] = <<n, p>>]
         /\ stage' = [stage EXCEPT ![s][n] = "made"]
  BY DEF Dial, MakeWorker
<1>2. stage \in [Streams -> [Nodes -> Stage]] /\ DOMAIN ends = Streams
  BY DEF IInv, TypeOK
<1>3. \A r \in Streams, m \in Nodes : stage[r][m] # "unknown" => stage'[r][m] # "unknown"
  BY <1>1, <1>2
<1>4. \A r \in Streams : ends[r] # None => ends'[r] = ends[r]
  BY <1>1, <1>2
<1> QED BY <1>3, <1>4

\* The steps of one end, after which it is known.
LEMMA StageEnds ==
    ASSUME IInv, EndsKnown, NEW n \in Nodes, NEW s \in Streams,
           Answer(n, s) \/ Register(n, s) \/ CleanUp(n, s)
    PROVE  EndsKnown'
<1>1. UNCHANGED <<ends, queue, wire>>
  BY DEF Answer, Register, CleanUp, frames
<1>2. PICK to : stage' = [stage EXCEPT ![s][n] = to] /\ to # "unknown"
  BY DEF Answer, MakeWorker, Register, CleanUp
<1>3. stage[s][n] # "unknown" \/ n \in {ends[s][1], ends[s][2]}
  BY DEF Answer, Register, CleanUp
<1>4. \A r \in Streams, m \in Nodes :
         stage'[r][m] = IF r = s /\ m = n THEN to ELSE stage[r][m]
  BY <1>2 DEF IInv, TypeOK
<1> QED BY <1>1, <1>2, <1>3, <1>4, EndsFrame

\* A frame is queued with a stream its node knows.
LEMMA EnqueueEnds ==
    ASSUME IInv, EndsKnown, NEW n \in Nodes, NEW j, Enqueue(n, j),
           stage[j.stream][n] # "unknown", UNCHANGED <<ends, stage, wire>>
    PROVE  EndsKnown'
<1>1. ASSUME NEW r \in Streams, NEW m \in Nodes, queue'[r][m] # << >>
      PROVE  stage'[r][m] # "unknown"
  <2>1. \/ queue'[r][m] = queue[r][m]
        \/ r = j.stream /\ m = n
    BY DEF Enqueue, IInv, TypeOK
  <2> QED BY <1>1, <2>1 DEF EndsKnown
<1> QED BY <1>1 DEF EndsKnown

\* The workers of a node and the targets of a frame are being read.
LEMMA TargetsAreRead ==
    ASSUME IInv, NEW n \in Nodes
    PROVE  /\ \A r \in Workers(n) : stage[r][n] # "unknown"
           /\ \A dest \in Addresses : \A r \in Targets(n, dest) : stage[r][n] # "unknown"
<1>1. \A r \in Workers(n) : stage[r][n] # "unknown"
  BY DEF IInv, EntriesHaveReaders, Workers
<1>2. ASSUME NEW dest \in Addresses, NEW r \in Targets(n, dest)
      PROVE  stage[r][n] # "unknown"
  BY <1>1 DEF IInv, EntriesHaveReaders, Targets
<1> QED BY <1>1, <1>2

\* Jobs stay what they are while the ends they know of do.
LEMMA JobsFrame ==
    ASSUME IInv, JobsInv, UNCHANGED <<sending, forwarding>>,
           \A r \in Streams, m \in Nodes :
              /\ stage[r][m] # "unknown" => stage'[r][m] # "unknown"
              /\ ends[r] # None => ends'[r] = ends[r]
    PROVE  /\ JobsInv'
           /\ \A p, m \in Nodes : \A f :
                 /\ Due(sending[p], p, m, f)' = Due(sending[p], p, m, f)
                 /\ Due(forwarding[p], p, m, f)' = Due(forwarding[p], p, m, f)
<1>1. ASSUME NEW p \in Nodes, NEW j \in sending[p] \cup forwarding[p]
      PROVE  /\ stage'[j.stream][p] # "unknown"
             /\ ends'[j.stream] = ends[j.stream]
  <2>1. j.stream \in Streams
    BY DEF IInv, TypeOK, Job
  <2>2. stage[j.stream][p] # "unknown"
    BY DEF JobsInv, OneEach
  <2> QED BY <2>1, <2>2 DEF IInv, KnownHaveEnds
<1>2. \A p, m \in Nodes : \A j \in sending[p] \cup forwarding[p] :
         Joins(ends', j.stream, p, m) <=> Joins(ends, j.stream, p, m)
  BY <1>1 DEF Joins
<1>3. ASSUME NEW p \in Nodes
      PROVE  OneEach(sending[p], p)' /\ OneEach(forwarding[p], p)'
  BY <1>1, <1>2 DEF JobsInv, OneEach
<1>4. ASSUME NEW p \in Nodes, NEW m \in Nodes, NEW f
      PROVE  /\ Due(sending[p], p, m, f)' = Due(sending[p], p, m, f)
             /\ Due(forwarding[p], p, m, f)' = Due(forwarding[p], p, m, f)
  BY <1>2 DEF Due
<1> QED BY <1>3, <1>4 DEF JobsInv

LEMMA WriteEnds ==
    ASSUME IInv, EndsKnown, NEW n \in Nodes, NEW s \in Streams, Write(n, s)
    PROVE  EndsKnown'
<1>1. /\ UNCHANGED <<ends, stage>> /\ queue[s][n] # << >>
      /\ queue' = [queue EXCEPT ![s][n] = Tail(@)]
      /\ wire' = wire \/ \E g : wire' = [wire EXCEPT ![s][Other(s, n)] = Append(@, g)]
  BY DEF Write
<1>2. ends[s] # None
  BY <1>1 DEF IInv, KnownHaveEnds, EndsKnown
<1>3. \A r \in Streams, m \in Nodes :
         /\ queue'[r][m] # << >> => queue[r][m] # << >>
         /\ wire'[r][m] # << >> => ends[r] # None
  <2>1. ASSUME NEW r \in Streams, NEW m \in Nodes
        PROVE  /\ queue'[r][m] # << >> => queue[r][m] # << >>
               /\ wire'[r][m] # << >> => ends[r] # None
    <3>1. queue'[r][m] = queue[r][m] \/ (r = s /\ m = n)
      BY <1>1 DEF IInv, TypeOK
    <3>2. wire'[r][m] = wire[r][m] \/ r = s
      BY <1>1 DEF IInv, TypeOK
    <3> QED BY <1>1, <1>2, <3>1, <3>2 DEF EndsKnown
  <2> QED BY <2>1
<1> QED BY <1>1, <1>3 DEF EndsKnown

LEMMA ReadEnds ==
    ASSUME IInv, EndsKnown, Handed, TypeOK', NEW n \in Nodes, NEW s \in Streams, Read(n, s)
    PROVE  EndsKnown' /\ Handed'
<1> DEFINE g == Head(wire[s][n])
           y == [from |-> Other(s, n), frame |-> g]
<1>1. /\ UNCHANGED <<ends, stage, queue>> /\ wire[s][n] # << >>
      /\ wire' = [wire EXCEPT ![s][n] = Tail(@)]
      /\ injected' = [injected EXCEPT ![n] = @ (+) SetToBag({y})]
  BY DEF Read, streamVars
<1>2. ends[s] # None
  BY <1>1 DEF EndsKnown
<1>3. EndsKnown'
  <2>1. \A r \in Streams, m \in Nodes : wire'[r][m] = wire[r][m] \/ r = s
    BY <1>1 DEF IInv, TypeOK
  <2> QED BY <1>1, <1>2, <2>1 DEF EndsKnown
<1>4. y \in [from : Nodes, frame : Frame]
  <2>1. Other(s, n) \in Nodes
    BY <1>2, OtherTyped DEF IInv
  <2>2. g \in Frame
    BY <1>1 DEF IInv, TypeOK
  <2> HIDE DEF g
  <2> QED BY <2>1, <2>2
<1> HIDE DEF y
<1>5. DOMAIN injected' = Nodes
  BY <1>1 DEF Handed
<1>6. ASSUME NEW m \in Nodes
      PROVE  \A x \in DOMAIN injected'[m] :
                x \in [from : Nodes, frame : Frame] /\ injected'[m][x] \in Nat
  <2> DEFINE b == injected[m]
             c == b (+) SetToBag({y})
  <2>1. injected'[m] = b \/ injected'[m] = c
    BY <1>1 DEF Handed
  <2>2. \A x \in DOMAIN b : x \in [from : Nodes, frame : Frame] /\ b[x] \in Nat
    BY DEF Handed
  <2>3. \A x \in DOMAIN c : x \in [from : Nodes, frame : Frame] /\ c[x] \in Nat
    <3> HIDE DEF b
    <3>1. DOMAIN c = DOMAIN b \cup {y}
      BY DEF (+), SetToBag
    <3>2. ASSUME NEW x \in DOMAIN c PROVE c[x] \in Nat
      <4>1. x \in DOMAIN b => b[x] \in Nat
        BY <2>2
      <4> QED BY <3>1, <4>1 DEF (+), SetToBag
    <3> QED BY <1>4, <2>2, <3>1, <3>2
  <2> HIDE DEF b, c
  <2> QED BY <2>1, <2>2, <2>3
<1> QED BY <1>3, <1>5, <1>6 DEF Handed
-----------------------------------------------------------------------------
(* Each action keeps the bounds.                                           *)

\* A step that touches no frame and no ends keeps the bounds.
LEMMA StillPair ==
    ASSUME UNCHANGED <<ends, queue, wire, egress, held, sending, forwarding, sent, injected>>,
           NEW p \in Nodes, NEW m \in Nodes, NEW f \in Frame, PairInv(p, m, f)
    PROVE  PairInv(p, m, f)'
<1>1. /\ Coming(p, m, f)' = Coming(p, m, f) /\ Given(p, m, f)' = Given(p, m, f)
      /\ Waiting(p, f)' = Waiting(p, f)
  BY DEF Coming, Due, UnderWay, Given, Waiting
<1> QED BY <1>1 DEF PairInv, Meant

\* A stream that is dialled carries no frame yet.
LEMMA DialPair ==
    ASSUME CopyInv, NEW n \in Nodes, NEW q \in Nodes, Dial(n, q),
           NEW p \in Nodes, NEW m \in Nodes, NEW f \in Frame
    PROVE  PairInv(p, m, f)'
<1>1. PICK s \in Streams :
         /\ ends[s] = None /\ ends' = [ends EXCEPT ![s] = <<n, q>>]
         /\ UNCHANGED <<queue, wire, egress, held, sending, forwarding, sent, injected>>
  BY DEF Dial, frames, jobs, stats
<1>2. \A r \in Nodes : queue[s][r] = << >> /\ wire[s][r] = << >>
  BY <1>1 DEF CopyInv, IInv, KnownHaveEnds, EndsKnown
<1>3. ASSUME NEW r \in Streams
      PROVE  (IF Joins(ends', r, p, m) THEN Count(queue[r][p], f) + Count(wire[r][m], f) ELSE 0)
              = IF Joins(ends, r, p, m) THEN Count(queue[r][p], f) + Count(wire[r][m], f) ELSE 0
  <2>1. CASE r = s
    <3>1. Count(queue[r][p], f) = 0 /\ Count(wire[r][m], f) = 0
      BY <1>2, <2>1, CountEmpty
    <3> QED BY <3>1
  <2>2. CASE r # s
    <3>1. ends'[r] = ends[r]
      BY <1>1, <2>2 DEF CopyInv, IInv, TypeOK
    <3> QED BY <3>1 DEF Joins
  <2> QED BY <2>1, <2>2
<1>4. CarriedBy(ends', queue, wire, p, m, f) = CarriedBy(ends, queue, wire, p, m, f)
  BY <1>3, CarriedSame
<1>5. UnderWay(p, m, f)' = UnderWay(p, m, f)
  <2>1. UnderWay(p, m, f)' = SumFunction(CarriedBy(ends', queue, wire, p, m, f))
    BY <1>1 DEF UnderWay
  <2> QED BY <1>4, <2>1 DEF UnderWay
<1>6. Given(p, m, f)' = Given(p, m, f) /\ Waiting(p, f)' = Waiting(p, f)
  BY <1>1 DEF Given, Waiting
<1>7. Coming(p, m, f)' = Coming(p, m, f)
  <2>1. \A r \in Streams, t \in Nodes :
           /\ stage[r][t] # "unknown" => stage'[r][t] # "unknown"
           /\ ends[r] # None => ends'[r] = ends[r]
    BY DialKnows DEF CopyInv
  <2>2. /\ Due(sending[p], p, m, f)' = Due(sending[p], p, m, f)
        /\ Due(forwarding[p], p, m, f)' = Due(forwarding[p], p, m, f)
    BY <1>1, <2>1, JobsFrame DEF CopyInv
  <2> QED BY <1>5, <2>2 DEF Coming
<1> QED BY <1>1, <1>6, <1>7 DEF CopyInv, PairInv, Meant

LEMMA WritePair ==
    ASSUME CopyInv, IInv', NEW n \in Nodes, NEW s \in Streams, Write(n, s),
           NEW p \in Nodes, NEW m \in Nodes, NEW f \in Frame
    PROVE  PairInv(p, m, f)'
<1>1. TypeOK /\ TypeOK' /\ IInv /\ EndsKnown /\ Handed /\ PairInv(p, m, f)
  BY DEF CopyInv, IInv
<1>2. sent' = sent /\ injected' = injected
  BY DEF Write, stats
<1>3. Handed'
  BY <1>1, <1>2 DEF Handed
<1>4. /\ Coming(p, m, f)' <= Coming(p, m, f)
      /\ Given(p, m, f)' = Given(p, m, f) /\ Waiting(p, f)' = Waiting(p, f)
  BY <1>1, WriteCopies
<1>5. Coming(p, m, f) \in Nat /\ Given(p, m, f) \in Nat /\ Coming(p, m, f)' \in Nat
      /\ Waiting(p, f) \in Nat
  BY <1>1, <1>3, CopiesTyped, CopiesTypedNext
<1>6. /\ Coming(p, m, f)' + Given(p, m, f)' <= Coming(p, m, f) + Given(p, m, f)
      /\ Waiting(p, f)' <= Waiting(p, f)
  BY <1>4, <1>5
<1> QED BY <1>1, <1>2, <1>3, <1>4, <1>6, CopiesKept

LEMMA ReadPair ==
    ASSUME CopyInv, IInv', NEW n \in Nodes, NEW s \in Streams, Read(n, s),
           NEW p \in Nodes, NEW m \in Nodes, NEW f \in Frame
    PROVE  PairInv(p, m, f)'
<1>1. TypeOK /\ TypeOK' /\ IInv /\ EndsKnown /\ Handed /\ PairInv(p, m, f)
  BY DEF CopyInv, IInv
<1>2. sent' = sent
  BY DEF Read
<1>3. Handed'
  BY <1>1, ReadEnds
<1>4. /\ Coming(p, m, f)' + Given(p, m, f)' = Coming(p, m, f) + Given(p, m, f)
      /\ Coming(p, m, f)' <= Coming(p, m, f)
      /\ Waiting(p, f)' = Waiting(p, f)
  BY <1>1, ReadCopies
<1>5. Coming(p, m, f) \in Nat /\ Given(p, m, f) \in Nat /\ Waiting(p, f) \in Nat
  BY <1>1, CopiesTyped
<1>6. /\ Coming(p, m, f)' + Given(p, m, f)' <= Coming(p, m, f) + Given(p, m, f)
      /\ Waiting(p, f)' <= Waiting(p, f)
  BY <1>4, <1>5
<1> QED BY <1>1, <1>2, <1>3, <1>4, <1>6, CopiesKept

\* A frame is new when it is sent: one copy is to be made for each peer with a
\* worker, and one for the egress queue.
LEMMA SendPair ==
    ASSUME CopyInv, IInv', NEW n \in Nodes, NEW dest \in Addresses, Send(n, dest),
           NEW p \in Nodes, NEW m \in Nodes, NEW f \in Frame
    PROVE  PairInv(p, m, f)'
<1> DEFINE g == [seq |-> sent[n] + 1, dest |-> dest]
           D == Due(sending[p], p, m, f)'
<1>1. TypeOK /\ TypeOK' /\ IInv /\ Handed /\ PairInv(p, m, f)
  BY DEF CopyInv, IInv
<1>2. /\ held[n] = << >> /\ sending[n] = {}
      /\ sent' = [sent EXCEPT ![n] = @ + 1]
      /\ held' = [held EXCEPT ![n] = <<g>>]
      /\ sending' = [sending EXCEPT ![n] = Jobs(Workers(n), g)]
      /\ UNCHANGED <<ends, queue, wire, egress, forwarding, injected>>
  BY DEF Send, streamVars
<1>3. g \in Frame /\ sent[n] \in Nat /\ sent[p] \in Nat /\ f.seq \in Nat
  <2>1. sent[n] \in Nat /\ sent[p] \in Nat
    BY <1>1 DEF TypeOK
  <2>2. g \in Frame
    BY <2>1 DEF Frame
  <2>3. f.seq \in Nat
    BY DEF Frame
  <2> HIDE DEF g
  <2> QED BY <2>1, <2>2, <2>3
<1>4. /\ UnderWay(p, m, f)' = UnderWay(p, m, f) /\ Given(p, m, f)' = Given(p, m, f)
      /\ Due(forwarding[p], p, m, f)' = Due(forwarding[p], p, m, f)
  BY <1>2 DEF UnderWay, Given, Due
<1>5. Given(p, m, f) \in Nat /\ UnderWay(p, m, f) \in Nat /\ Waiting(p, f) \in Nat
      /\ Due(sending[p], p, m, f) \in {0, 1} /\ Due(forwarding[p], p, m, f) \in {0, 1}
  BY <1>1, CopiesTyped
<1>6. D \in {0, 1} /\ (p = n /\ f # g => D = 0)
  <2>1. D \in {0, 1}
    BY DEF Due
  <2>2. p = n => sending'[p] = Jobs(Workers(n), g)
    BY <1>1, <1>2 DEF TypeOK
  <2>3. p = n /\ f # g => \A j \in sending'[p] : j.frame # f
    BY <2>2 DEF Jobs
  <2> QED BY <2>1, <2>3 DEF Due
<1> HIDE DEF g, D
<1>7. CASE p # n
  <2>1. held'[p] = held[p] /\ sending'[p] = sending[p] /\ sent'[p] = sent[p]
    BY <1>1, <1>2, <1>7 DEF TypeOK
  <2>2. Waiting(p, f)' = Waiting(p, f) /\ D = Due(sending[p], p, m, f)
    BY <1>2, <2>1 DEF Waiting, Due, D
  <2>3. Coming(p, m, f)' = Coming(p, m, f)
    BY <1>4, <2>2 DEF Coming, D
  <2> QED BY <1>1, <1>4, <2>1, <2>2, <2>3 DEF PairInv, Meant
<1>8. CASE p = n /\ f # g
  <2>1. held'[p] = <<g>> /\ held[p] = << >> /\ sent'[p] = sent[p] + 1
    BY <1>1, <1>2, <1>8 DEF TypeOK
  <2>2. Count(<<g>>, f) = 0 /\ Count(<< >>, f) = 0
    <3>1. << >> \in Seq(Frame) /\ Append(<< >>, g) = <<g>>
      OBVIOUS
    <3>2. Count(Append(<< >>, g), f) = Count(<< >>, f) + 0
      BY <1>3, <1>8, <3>1, CountAppend
    <3> QED BY <3>1, <3>2, CountEmpty
  <2>3. Waiting(p, f)' = Waiting(p, f)
    BY <1>2, <2>1, <2>2 DEF Waiting
  <2>4. Due(sending[p], p, m, f) = 0
    BY <1>2, <1>8 DEF Due
  <2>5. Coming(p, m, f)' = Coming(p, m, f)
    BY <1>4, <1>6, <1>8, <2>4 DEF Coming, D
  <2>6. f.seq > sent'[p] => f.seq > sent[p]
    BY <1>3, <2>1
  <2> QED BY <1>1, <1>4, <2>3, <2>5, <2>6 DEF PairInv, Meant
<1>9. CASE p = n /\ f = g
  <2>1. held'[p] = <<g>> /\ held[p] = << >> /\ sent'[p] = sent[p] + 1
    BY <1>1, <1>2, <1>9 DEF TypeOK
  <2>2. f.seq > sent[p] /\ ~ f.seq > sent'[p]
    BY <1>3, <1>9, <2>1 DEF g
  <2>3. Coming(p, m, f) = 0 /\ Given(p, m, f) = 0 /\ Waiting(p, f) = 0
    BY <1>1, <2>2 DEF PairInv
  <2>4. UnderWay(p, m, f) = 0 /\ Due(forwarding[p], p, m, f) = 0
    BY <1>5, <2>3 DEF Coming
  <2>5. Coming(p, m, f)' = D
    BY <1>4, <1>6, <2>4 DEF Coming, D
  <2>6. Waiting(p, f)' = 1
    <3>1. << >> \in Seq(Frame) /\ Append(<< >>, g) = <<g>>
      OBVIOUS
    <3>2. Count(<<g>>, f) = 1 /\ Count(<< >>, f) = 0
      <4>1. Count(<< >>, f) = 0
        BY CountEmpty
      <4>2. Count(Append(<< >>, g), f) = Count(<< >>, f) + (IF g = f THEN 1 ELSE 0)
        BY <1>3, <3>1, CountAppend
      <4> QED BY <1>9, <3>1, <4>1, <4>2
    <3>3. Count(egress[p], f) = 0
      <4>1. Waiting(p, f) = 0 + Count(egress[p], f)
        BY <2>1, <3>2 DEF Waiting
      <4>2. egress[p] \in Seq(Frame)
        BY <1>1 DEF TypeOK
      <4>3. Count(egress[p], f) \in Nat
        BY <4>2, CountType
      <4> QED BY <2>3, <4>1, <4>3
    <3> QED BY <1>2, <2>1, <3>2, <3>3 DEF Waiting
  <2> QED BY <1>4, <1>6, <2>2, <2>3, <2>5, <2>6 DEF PairInv, Meant
<1> QED BY <1>7, <1>8, <1>9

\* The frame held goes to the egress queue, or is dropped.
LEMMA PushEgressPair ==
    ASSUME CopyInv, IInv', NEW n \in Nodes, PushEgress(n),
           NEW p \in Nodes, NEW m \in Nodes, NEW f \in Frame
    PROVE  PairInv(p, m, f)'
<1> DEFINE g == Head(held[n])
<1>1. TypeOK /\ TypeOK' /\ IInv /\ Handed /\ PairInv(p, m, f)
  BY DEF CopyInv, IInv
<1>2. /\ held[n] \in Seq(Frame) /\ held[n] # << >> /\ egress[n] \in Seq(Frame)
      /\ held' = [held EXCEPT ![n] = << >>]
      /\ egress' = egress \/ egress' = [egress EXCEPT ![n] = Append(@, g)]
      /\ UNCHANGED <<ends, queue, wire, sending, forwarding, sent, injected>>
  <2>1. held[n] \in Seq(Frame) /\ egress[n] \in Seq(Frame)
        /\ [egress EXCEPT ![n] = @] = egress
    BY <1>1 DEF TypeOK
  <2> QED BY <2>1 DEF PushEgress, streamVars
<1>3. g \in Frame /\ Tail(held[n]) \in Seq(Frame)
  BY <1>2
<1> HIDE DEF g
<1>4. /\ Coming(p, m, f)' = Coming(p, m, f) /\ Given(p, m, f)' = Given(p, m, f)
  BY <1>2 DEF Coming, Due, UnderWay, Given
<1>5. Waiting(p, f)' <= Waiting(p, f)
  <2>1. Count(held[p], f) \in Nat /\ Count(egress[p], f) \in Nat
    BY <1>1, CountType DEF TypeOK
  <2>2. CASE p # n
    <3>1. held'[p] = held[p] /\ egress'[p] = egress[p]
      BY <1>1, <1>2, <2>2 DEF TypeOK
    <3> QED BY <2>1, <3>1 DEF Waiting
  <2>3. CASE p = n
    <3>1. held'[p] = << >> /\ (egress'[p] = egress[p] \/ egress'[p] = Append(egress[p], g))
      BY <1>1, <1>2, <2>3 DEF TypeOK
    <3>2. Count(held[p], f) = Count(Tail(held[p]), f) + (IF g = f THEN 1 ELSE 0)
      BY <1>2, <2>3, CountTail DEF g
    <3>3. Count(Tail(held[p]), f) \in Nat
      BY <1>3, <2>3, CountType
    <3>4. Count(Append(egress[p], g), f) = Count(egress[p], f) + (IF g = f THEN 1 ELSE 0)
      BY <1>2, <1>3, <2>3, CountAppend
    <3>5. Waiting(p, f)' = Count(egress'[p], f)
      <4>1. Waiting(p, f)' = Count(<< >>, f) + Count(egress'[p], f)
        BY <3>1 DEF Waiting
      <4>2. Count(egress'[p], f) \in Nat
        BY <1>1, CountType DEF TypeOK
      <4> QED BY <4>1, <4>2, CountEmpty
    <3> DEFINE a == Count(held[p], f)
               b == Count(egress[p], f)
               c == Count(egress'[p], f)
               k == IF g = f THEN 1 ELSE 0
    <3>6. k \in {0, 1} /\ a \in Nat /\ b \in Nat /\ a >= k /\ (c = b \/ c = b + k)
      <4>1. a = Count(Tail(held[p]), f) + k
        BY <3>2
      <4>2. c = b \/ c = b + k
        BY <3>1, <3>4
      <4> HIDE DEF a, b, c
      <4> QED BY <2>1, <3>3, <4>1, <4>2 DEF a, b
    <3>7. Waiting(p, f) = a + b /\ Waiting(p, f)' = c
      BY <3>5 DEF Waiting
    <3> HIDE DEF a, b, c, k
    <3> QED BY <3>6, <3>7
  <2> QED BY <2>2, <2>3
<1>6. Handed'
  BY <1>1, <1>2 DEF Handed
<1>7. Coming(p, m, f) \in Nat /\ Given(p, m, f) \in Nat
  BY <1>1, CopiesTyped
<1> QED BY <1>1, <1>2, <1>4, <1>5, <1>6, <1>7, CopiesKept

\* The egress worker takes the waiting copy that was counted for a peer.
LEMMA EgressPair ==
    ASSUME CopyInv, IInv', NEW n \in Nodes, Egress(n),
           NEW p \in Nodes, NEW m \in Nodes, NEW f \in Frame
    PROVE  PairInv(p, m, f)'
<1> DEFINE g == Head(egress[n])
           D == Due(forwarding[p], p, m, f)
           E == Due(forwarding[p], p, m, f)'
           k == IF p = n /\ f = g THEN 1 ELSE 0
<1>1. TypeOK /\ TypeOK' /\ IInv /\ EndsKnown /\ Handed /\ PairInv(p, m, f)
  BY DEF CopyInv, IInv
<1>2. /\ egress[n] \in Seq(Frame) /\ egress[n] # << >> /\ forwarding[n] = {}
      /\ egress' = [egress EXCEPT ![n] = Tail(@)]
      /\ forwarding' = [forwarding EXCEPT ![n] = Jobs(Targets(n, g.dest), g)]
      /\ UNCHANGED <<ends, queue, wire, held, sending, sent, injected>>
  BY <1>1 DEF Egress, streamVars, stats, TypeOK
<1>3. g \in Frame /\ g.dest \in Addresses /\ Tail(egress[n]) \in Seq(Frame)
  <2>1. g \in Frame /\ Tail(egress[n]) \in Seq(Frame)
    BY <1>2
  <2> HIDE DEF g
  <2> QED BY <2>1 DEF Frame
<1>4. Waiting(p, f) = Waiting(p, f)' + k
  <2>1. CASE p = n
    <3>1. egress'[p] = Tail(egress[n]) /\ held'[p] = held[p]
      BY <1>1, <1>2, <2>1 DEF TypeOK
    <3>2. Count(egress[n], f) = Count(Tail(egress[n]), f) + k
      <4>1. Count(egress[n], f) = Count(Tail(egress[n]), f) + (IF g = f THEN 1 ELSE 0)
        BY <1>2, CountTail
      <4> QED BY <2>1, <4>1
    <3>3. Count(Tail(egress[n]), f) \in Nat /\ Count(held[p], f) \in Nat
      BY <1>1, <1>3, CountType DEF TypeOK
    <3> HIDE DEF k
    <3>4. Waiting(p, f) = Count(held[p], f) + Count(egress[n], f)
          /\ Waiting(p, f)' = Count(held[p], f) + Count(Tail(egress[n]), f)
      BY <2>1, <3>1 DEF Waiting
    <3>5. k \in {0, 1}
      BY DEF k
    <3> QED BY <3>2, <3>3, <3>4, <3>5
  <2>2. CASE p # n
    <3>1. egress'[p] = egress[p] /\ held'[p] = held[p]
      BY <1>1, <1>2, <2>2 DEF TypeOK
    <3>2. Waiting(p, f) \in Nat
      BY <1>1, CopiesTyped
    <3> QED BY <2>2, <3>1, <3>2 DEF Waiting
  <2> QED BY <2>1, <2>2
<1>5. D \in {0, 1} /\ E \in {0, 1} /\ E <= D + k /\ (k = 1 /\ E = 1 => Meant(m, f))
      /\ (k = 0 => E = D) /\ (k = 1 => D = 0)
  <2>1. D \in {0, 1} /\ E \in {0, 1}
    BY DEF Due
  <2>2. CASE p # n
    <3>1. forwarding'[p] = forwarding[p]
      BY <1>1, <1>2, <2>2 DEF TypeOK
    <3>2. E = D /\ k = 0
      BY <1>2, <2>2, <3>1 DEF Due
    <3> HIDE DEF D, E, k
    <3> QED BY <2>1, <3>2
  <2>3. CASE p = n
    <3>1. forwarding'[p] = Jobs(Targets(n, g.dest), g)
      BY <1>1, <1>2, <2>3 DEF TypeOK
    <3>2. D = 0
      BY <1>2, <2>3 DEF Due
    <3>3. E = Due(Jobs(Targets(n, g.dest), g), p, m, f)
      BY <1>2, <3>1 DEF Due
    <3>4. E = IF f = g /\ Reaches(Targets(n, g.dest), p, m) THEN 1 ELSE 0
      BY <3>3, JobsDue
    <3>5. Reaches(Targets(n, g.dest), p, m) => g.dest \in {AddressOf[m]} \cup Broadcasts
      <4> HIDE DEF g
      <4> QED BY <1>1, <1>3, <2>3, OneWorkerPerPeer
    <3>6. k = IF f = g THEN 1 ELSE 0
      BY <2>3
    <3> HIDE DEF D, E, k, g
    <3> QED BY <3>2, <3>4, <3>5, <3>6 DEF Meant
  <2> QED BY <2>2, <2>3
<1>6. /\ Given(p, m, f)' = Given(p, m, f) /\ UnderWay(p, m, f)' = UnderWay(p, m, f)
      /\ Due(sending[p], p, m, f)' = Due(sending[p], p, m, f)
  BY <1>2 DEF Given, UnderWay, Due
<1>7. UnderWay(p, m, f) \in Nat /\ Given(p, m, f) \in Nat /\ Waiting(p, f) \in Nat
      /\ Due(sending[p], p, m, f) \in {0, 1}
  BY <1>1, CopiesTyped
<1>8. Waiting(p, f)' \in Nat
  <2>1. Handed'
    BY <1>1, <1>2 DEF Handed
  <2> QED BY <1>1, <2>1, CopiesTypedNext
<1>9. k \in {0, 1}
  OBVIOUS
<1> DEFINE A == UnderWay(p, m, f)
           B == Due(sending[p], p, m, f)
           G == Given(p, m, f)
           W == Waiting(p, f)
           X == Waiting(p, f)'
           unsent == f.seq > sent[p]
           meant == Meant(m, f)
<1>10. /\ unsent => A + B + D = 0 /\ G = 0 /\ W = 0
       /\ A + B + D + G + (IF meant THEN W ELSE 0) <= IF meant THEN 2 ELSE 1
  BY <1>1 DEF PairInv, Coming
<1>11. Coming(p, m, f)' = A + B + E
  BY <1>6 DEF Coming
<1>12. PairInv(p, m, f)' <=> /\ unsent => A + B + E = 0 /\ G = 0 /\ X = 0
                             /\ A + B + E + G + (IF meant THEN X ELSE 0)
                                   <= IF meant THEN 2 ELSE 1
  BY <1>2, <1>6, <1>11 DEF PairInv, Meant
<1>13. /\ A \in Nat /\ B \in {0, 1} /\ G \in Nat /\ W \in Nat /\ X \in Nat /\ W = X + k
       /\ meant <=> Meant(m, f)
  BY <1>4, <1>7, <1>8
<1> HIDE DEF A, B, D, E, G, W, X, unsent, meant, k
<1>14. unsent => A + B + E = 0 /\ G = 0 /\ X = 0
  BY <1>5, <1>9, <1>10, <1>13
<1>15. A + B + E + G + (IF meant THEN X ELSE 0) <= IF meant THEN 2 ELSE 1
  BY <1>5, <1>9, <1>10, <1>13
<1> QED BY <1>12, <1>14, <1>15

\* A job that is done gives its peer the copy that was due.
LEMMA JobDue ==
    ASSUME NEW js, NEW j \in js, NEW n \in Nodes, OneEach(js, n), NEW m \in Nodes, NEW f
    PROVE  Due(js \ {j}, n, m, f)
              + (IF f = j.frame /\ Joins(ends, j.stream, n, m) THEN 1 ELSE 0)
              <= Due(js, n, m, f)
<1>1. CASE f = j.frame /\ Joins(ends, j.stream, n, m)
  <2>1. Due(js, n, m, f) = 1
    BY <1>1 DEF Due
  <2>2. ~ \E i \in js \ {j} : Joins(ends, i.stream, n, m)
    BY <1>1 DEF OneEach
  <2>3. Due(js \ {j}, n, m, f) = 0
    BY <2>2 DEF Due
  <2> QED BY <1>1, <2>1, <2>3
<1>2. CASE ~ (f = j.frame /\ Joins(ends, j.stream, n, m))
  <2>1. (\E i \in js \ {j} : i.frame = f /\ Joins(ends, i.stream, n, m))
           => \E i \in js : i.frame = f /\ Joins(ends, i.stream, n, m)
    OBVIOUS
  <2> QED BY <1>2, <2>1 DEF Due
<1> QED BY <1>1, <1>2

LEMMA JobPair ==
    ASSUME CopyInv, IInv', NEW n \in Nodes, SendToWorker(n) \/ Forward(n),
           NEW p \in Nodes, NEW m \in Nodes, NEW f \in Frame
    PROVE  PairInv(p, m, f)'
<1>1. TypeOK /\ TypeOK' /\ IInv /\ EndsKnown /\ Handed /\ PairInv(p, m, f)
  BY DEF CopyInv, IInv
<1>2. UNCHANGED <<ends, stage, wire, egress, held, sent, injected>>
  BY DEF SendToWorker, Forward, streamVars
<1>3. Handed'
  BY <1>1, <1>2 DEF Handed
<1>4. PICK j \in sending[n] \cup forwarding[n] :
         /\ Enqueue(n, j)
         /\ \/ /\ j \in sending[n]
               /\ sending' = [sending EXCEPT ![n] = @ \ {j}] /\ forwarding' = forwarding
            \/ /\ j \in forwarding[n]
               /\ forwarding' = [forwarding EXCEPT ![n] = @ \ {j}] /\ sending' = sending
  BY DEF SendToWorker, Forward
<1>5. j \in Job
  BY <1>1 DEF TypeOK
<1> DEFINE k == IF p = n /\ f = j.frame /\ Joins(ends, j.stream, n, m) THEN 1 ELSE 0
<1>6. UnderWay(p, m, f)' <= UnderWay(p, m, f) + k
  BY <1>1, <1>2, <1>4, <1>5, EnqueueCopies
<1>7. \A js : OneEach(js, n) /\ j \in js /\ p = n => Due(js \ {j}, p, m, f) + k <= Due(js, p, m, f)
  BY JobDue
<1>8. OneEach(sending[n], n) /\ OneEach(forwarding[n], n)
  BY DEF CopyInv, JobsInv
<1> DEFINE A == Due(sending[p], p, m, f)
           B == Due(forwarding[p], p, m, f)
<1>9. A \in {0, 1} /\ B \in {0, 1} /\ A' \in {0, 1} /\ B' \in {0, 1} /\ k \in {0, 1}
  BY DEF Due
<1>10. A' + B' + k <= A + B
  <2>1. CASE p # n
    <3>1. sending'[p] = sending[p] /\ forwarding'[p] = forwarding[p]
      BY <1>1, <1>4, <2>1 DEF TypeOK
    <3>2. A' = A /\ B' = B /\ k = 0
      BY <1>2, <2>1, <3>1 DEF Due
    <3> HIDE DEF A, B, k
    <3> QED BY <1>9, <3>2
  <2>2. CASE p = n /\ j \in sending[n] /\ sending'[n] = sending[n] \ {j} /\ forwarding' = forwarding
    <3>1. A' = Due(sending[n] \ {j}, p, m, f) /\ B' = B
      BY <1>2, <2>2 DEF Due
    <3>2. Due(sending[n] \ {j}, p, m, f) + k <= Due(sending[n], p, m, f)
      <4> HIDE DEF k
      <4> QED BY <1>7, <1>8, <2>2
    <3>3. A = Due(sending[n], p, m, f)
      BY <2>2
    <3> HIDE DEF A, B, k
    <3> QED BY <1>9, <3>1, <3>2, <3>3
  <2>3. CASE p = n /\ j \in forwarding[n] /\ forwarding'[n] = forwarding[n] \ {j} /\ sending' = sending
    <3>1. B' = Due(forwarding[n] \ {j}, p, m, f) /\ A' = A
      BY <1>2, <2>3 DEF Due
    <3>2. Due(forwarding[n] \ {j}, p, m, f) + k <= Due(forwarding[n], p, m, f)
      <4> HIDE DEF k
      <4> QED BY <1>7, <1>8, <2>3
    <3>3. B = Due(forwarding[n], p, m, f)
      BY <2>3
    <3> HIDE DEF A, B, k
    <3> QED BY <1>9, <3>1, <3>2, <3>3
  <2> QED BY <1>1, <1>4, <2>1, <2>2, <2>3 DEF TypeOK
<1>11. /\ Coming(p, m, f) = UnderWay(p, m, f) + A + B
       /\ Coming(p, m, f)' = UnderWay(p, m, f)' + A' + B'
  BY DEF Coming
<1>12. UnderWay(p, m, f) \in Nat /\ UnderWay(p, m, f)' \in Nat /\ Given(p, m, f) \in Nat
       /\ Waiting(p, f) \in Nat
  BY <1>1, <1>3, CopiesTyped, CopiesTypedNext
<1>13. Given(p, m, f)' = Given(p, m, f) /\ Waiting(p, f)' = Waiting(p, f)
  BY <1>2 DEF Given, Waiting
<1> HIDE DEF A, B, k
<1>14. Coming(p, m, f)' <= Coming(p, m, f) /\ Coming(p, m, f) \in Nat /\ Coming(p, m, f)' \in Nat
  BY <1>6, <1>9, <1>10, <1>11, <1>12
<1>15. Coming(p, m, f)' + Given(p, m, f)' <= Coming(p, m, f) + Given(p, m, f)
       /\ Waiting(p, f)' <= Waiting(p, f)
  BY <1>12, <1>13, <1>14
<1> QED BY <1>1, <1>2, <1>3, <1>14, <1>15, CopiesKept
-----------------------------------------------------------------------------
(* The theorem on copies.                                                  *)

LEMMA CopyInit == Init => CopyInv
<1> SUFFICES ASSUME Init PROVE CopyInv
  OBVIOUS
<1>1. IInv
  BY InitInv
<1>2. EndsKnown
  BY DEF Init, EndsKnown
<1>3. Handed /\ JobsInv
  BY DEF Init, Handed, EmptyBag, SetToBag, JobsInv, OneEach
<1>4. ASSUME NEW p \in Nodes, NEW n \in Nodes, NEW f \in Frame
      PROVE  PairInv(p, n, f)
  <2>1. UnderWay(p, n, f) = 0
    <3> DEFINE c == CarriedBy(ends, queue, wire, p, n, f)
    <3>1. \A s \in Streams : queue[s][p] = << >> /\ wire[s][n] = << >>
      BY DEF Init
    <3>2. \A s \in Streams : c[s] = 0
      BY <3>1, CarriedAt, CountEmpty
    <3>3. c \in [Streams -> Int]
      <4>1. c = [s \in Streams |-> c[s]]
        BY DEF CarriedBy
      <4> HIDE DEF c
      <4> QED BY <3>2, <4>1
    <3> HIDE DEF c
    <3>4. SumFunction(c) = 0
      BY <3>2, <3>3, StreamParameters, SumZero
    <3> QED BY <3>4 DEF UnderWay, c
  <2>2. Given(p, n, f) = 0
    BY DEF Init, Given, EmptyBag, SetToBag
  <2>3. Waiting(p, f) = 0
    BY CountEmpty DEF Init, Waiting
  <2>4. Coming(p, n, f) = 0
    BY <2>1 DEF Init, Coming, Due
  <2> QED BY <2>2, <2>3, <2>4 DEF PairInv
<1> QED BY <1>1, <1>2, <1>3, <1>4 DEF CopyInv

LEMMA CopyNext == CopyInv /\ [Next]_vars => CopyInv'
<1> SUFFICES ASSUME CopyInv, [Next]_vars PROVE CopyInv'
  OBVIOUS
<1>1. IInv /\ EndsKnown /\ JobsInv /\ Handed /\ IInv'
  BY NextInv DEF CopyInv
<1>2. ASSUME UNCHANGED <<ends, queue, wire, egress, held, sending, forwarding, sent, injected>>,
             EndsKnown',
             \A r \in Streams, m \in Nodes : stage[r][m] # "unknown" => stage'[r][m] # "unknown"
      PROVE  CopyInv'
  <2>1. Handed'
    BY <1>1, <1>2 DEF Handed
  <2>2. \A p, m \in Nodes : \A f \in Frame : PairInv(p, m, f)'
    BY <1>2, StillPair DEF CopyInv
  <2>3. JobsInv'
    BY <1>1, <1>2, JobsFrame
  <2> QED BY <1>1, <1>2, <2>1, <2>2, <2>3 DEF CopyInv
<1>3. CASE \E n \in Nodes, p \in Nodes : Dial(n, p)
  <2>1. PICK n \in Nodes, p \in Nodes : Dial(n, p)
    BY <1>3
  <2>2. EndsKnown'
    BY <1>1, <2>1, DialEnds
  <2>3. Handed'
    BY <1>1, <2>1 DEF Dial, stats, Handed
  <2>4. JobsInv'
    <3>1. \A r \in Streams, m \in Nodes :
             /\ stage[r][m] # "unknown" => stage'[r][m] # "unknown"
             /\ ends[r] # None => ends'[r] = ends[r]
      BY <1>1, <2>1, DialKnows
    <3>2. UNCHANGED <<sending, forwarding>>
      BY <2>1 DEF Dial, frames, jobs
    <3> QED BY <1>1, <3>1, <3>2, JobsFrame
  <2>5. \A q, m \in Nodes : \A f \in Frame : PairInv(q, m, f)'
    BY <2>1, DialPair
  <2> QED BY <1>1, <2>2, <2>3, <2>4, <2>5 DEF CopyInv
<1>4. CASE \E n \in Nodes : Egress(n)
  <2>1. PICK n \in Nodes : Egress(n)
    BY <1>4
  <2> DEFINE g == Head(egress[n])
             workers == Targets(n, g.dest)
  <2>2. /\ UNCHANGED <<ends, stage, queue, wire, sending, injected>>
        /\ forwarding' = [forwarding EXCEPT ![n] = Jobs(workers, g)]
    BY <2>1 DEF Egress, streamVars, stats
  <2>3. g.dest \in Addresses
    <3>1. egress[n] \in Seq(Frame) /\ egress[n] # << >>
      BY <1>1, <2>1 DEF Egress, IInv, TypeOK
    <3>2. g \in Frame
      BY <3>1
    <3> HIDE DEF g
    <3> QED BY <3>2 DEF Frame
  <2>4. JobsInv'
    <3> HIDE DEF g
    <3>1. \A m \in Nodes : OneWay(workers, n, m)
      BY <1>1, <2>3, OneWorkerPerPeer
    <3>2. \A r \in workers : stage[r][n] # "unknown"
      BY <1>1, <2>3, TargetsAreRead
    <3> HIDE DEF workers
    <3>3. OneEach(Jobs(workers, g), n)
      BY <3>1, <3>2, JobsOneEach
    <3>4. \A m \in Nodes : OneEach(forwarding'[m], m) /\ OneEach(sending'[m], m)
      BY <1>1, <2>2, <3>3 DEF JobsInv, IInv, TypeOK
    <3> QED BY <2>2, <3>4 DEF JobsInv, OneEach
  <2>5. EndsKnown' /\ Handed'
    BY <1>1, <2>2 DEF EndsKnown, Handed
  <2>6. \A q, m \in Nodes : \A f \in Frame : PairInv(q, m, f)'
    BY <1>1, <2>1, EgressPair
  <2> QED BY <1>1, <2>4, <2>5, <2>6 DEF CopyInv
<1>5. CASE \E n \in Nodes, dest \in Addresses : Send(n, dest)
  <2>1. PICK n \in Nodes, dest \in Addresses : Send(n, dest)
    BY <1>5
  <2> DEFINE g == [seq |-> sent[n] + 1, dest |-> dest]
             workers == Workers(n)
  <2>2. /\ UNCHANGED <<ends, stage, queue, wire, forwarding, injected>>
        /\ sending' = [sending EXCEPT ![n] = Jobs(workers, g)]
    BY <2>1 DEF Send, streamVars
  <2>3. JobsInv'
    <3> HIDE DEF g
    <3>1. \A m \in Nodes : OneWay(workers, n, m)
      BY <1>1, OneWorkerPerPeer
    <3>2. \A r \in workers : stage[r][n] # "unknown"
      BY <1>1, TargetsAreRead
    <3> HIDE DEF workers
    <3>3. OneEach(Jobs(workers, g), n)
      BY <3>1, <3>2, JobsOneEach
    <3>4. \A m \in Nodes : OneEach(forwarding'[m], m) /\ OneEach(sending'[m], m)
      BY <1>1, <2>2, <3>3 DEF JobsInv, IInv, TypeOK
    <3> QED BY <2>2, <3>4 DEF JobsInv, OneEach
  <2>4. EndsKnown' /\ Handed'
    BY <1>1, <2>2 DEF EndsKnown, Handed
  <2>5. \A q, m \in Nodes : \A f \in Frame : PairInv(q, m, f)'
    BY <1>1, <2>1, SendPair
  <2> QED BY <1>1, <2>3, <2>4, <2>5 DEF CopyInv
<1>6. CASE \E s \in Streams, n \in Nodes : Answer(n, s) \/ Register(n, s) \/ CleanUp(n, s)
  <2>1. PICK s \in Streams, n \in Nodes : Answer(n, s) \/ Register(n, s) \/ CleanUp(n, s)
    BY <1>6
  <2>2. EndsKnown'
    BY <1>1, <2>1, StageEnds
  <2>3. UNCHANGED <<ends, queue, wire, egress, held, sending, forwarding, sent, injected>>
    BY <2>1 DEF Answer, Register, CleanUp, frames, jobs, stats
  <2>4. \A r \in Streams, m \in Nodes : stage[r][m] # "unknown" => stage'[r][m] # "unknown"
    <3>1. PICK to : stage' = [stage EXCEPT ![s][n] = to] /\ to # "unknown"
      BY <2>1 DEF Answer, MakeWorker, Register, CleanUp
    <3>2. stage \in [Streams -> [Nodes -> Stage]]
      BY <1>1 DEF IInv, TypeOK
    <3> QED BY <3>1, <3>2
  <2> QED BY <1>2, <2>2, <2>3, <2>4
<1>7. CASE \E s \in Streams, n \in Nodes : Write(n, s)
  <2>1. PICK s \in Streams, n \in Nodes : Write(n, s)
    BY <1>7
  <2>2. EndsKnown'
    BY <1>1, <2>1, WriteEnds
  <2>3. Handed' /\ JobsInv'
    BY <1>1, <2>1 DEF Write, stats, Handed, jobs, JobsInv, OneEach
  <2>4. \A q, m \in Nodes : \A f \in Frame : PairInv(q, m, f)'
    BY <1>1, <2>1, WritePair
  <2> QED BY <1>1, <2>2, <2>3, <2>4 DEF CopyInv
<1>8. CASE \E s \in Streams, n \in Nodes : Read(n, s)
  <2>1. PICK s \in Streams, n \in Nodes : Read(n, s)
    BY <1>8
  <2>2. EndsKnown' /\ Handed'
    BY <1>1, <2>1, ReadEnds DEF IInv
  <2>3. JobsInv'
    BY <1>1, <2>1 DEF Read, streamVars, jobs, JobsInv, OneEach
  <2>4. \A q, m \in Nodes : \A f \in Frame : PairInv(q, m, f)'
    BY <1>1, <2>1, ReadPair
  <2> QED BY <1>1, <2>2, <2>3, <2>4 DEF CopyInv
<1>9. CASE \/ \E n \in Nodes : Stop(n)
           \/ \E s \in Streams : Break(s) \/ \E n \in Nodes : LeaveLoop(n, s)
           \/ UNCHANGED vars
  <2>1. UNCHANGED <<ends, stage, queue, wire, egress, held, sending, forwarding, sent, injected>>
    BY <1>9 DEF Stop, Break, LeaveLoop, vars, streamVars, frames, jobs, stats
  <2>2. EndsKnown'
    BY <1>1, <2>1 DEF EndsKnown
  <2> QED BY <1>2, <2>1, <2>2
<1>10. CASE \E n \in Nodes : PushEgress(n)
  <2>1. PICK n \in Nodes : PushEgress(n)
    BY <1>10
  <2>2. EndsKnown' /\ Handed' /\ JobsInv'
    BY <1>1, <2>1 DEF PushEgress, streamVars, EndsKnown, Handed, JobsInv, OneEach
  <2>3. \A q, m \in Nodes : \A f \in Frame : PairInv(q, m, f)'
    BY <1>1, <2>1, PushEgressPair
  <2> QED BY <1>1, <2>2, <2>3 DEF CopyInv
<1>11. CASE \E n \in Nodes : SendToWorker(n) \/ Forward(n)
  <2>1. PICK n \in Nodes : SendToWorker(n) \/ Forward(n)
    BY <1>11
  <2>2. UNCHANGED <<ends, stage, wire, injected>>
    BY <2>1 DEF SendToWorker, Forward, streamVars
  <2>3. PICK j \in sending[n] \cup forwarding[n] :
           /\ Enqueue(n, j)
           /\ sending' = sending \/ sending' = [sending EXCEPT ![n] = @ \ {j}]
           /\ forwarding' = forwarding \/ forwarding' = [forwarding EXCEPT ![n] = @ \ {j}]
    BY <2>1 DEF SendToWorker, Forward
  <2>4. stage[j.stream][n] # "unknown"
    BY <1>1 DEF JobsInv, OneEach
  <2>5. EndsKnown' /\ Handed'
    BY <1>1, <2>2, <2>3, <2>4, EnqueueEnds DEF Handed
  <2>6. JobsInv'
    <3>1. \A m \in Nodes : sending'[m] \subseteq sending[m] /\ forwarding'[m] \subseteq forwarding[m]
      <4>1. DOMAIN sending = Nodes /\ DOMAIN forwarding = Nodes
        BY <1>1 DEF IInv, TypeOK
      <4>2. \A m \in Nodes : sending'[m] \subseteq sending[m]
        BY <2>3, <4>1
      <4>3. \A m \in Nodes : forwarding'[m] \subseteq forwarding[m]
        BY <2>3, <4>1
      <4> QED BY <4>2, <4>3
    <3> QED BY <1>1, <2>2, <3>1 DEF JobsInv, OneEach
  <2>7. \A q, m \in Nodes : \A f \in Frame : PairInv(q, m, f)'
    BY <1>1, <2>1, JobPair
  <2> QED BY <1>1, <2>5, <2>6, <2>7 DEF CopyInv
<1> QED BY <1>3, <1>4, <1>5, <1>6, <1>7, <1>8, <1>9, <1>10, <1>11, Zenon DEF Next

\* Whatever streams are dialled from both sides, replaced, broken and cleaned
\* up while a packet is handed to one worker after the other, whatever the
\* sizes of the queues, and with addresses of nodes that are broadcast
\* addresses too: a game is handed a packet at most twice, and at most once
\* when its address is neither the receiver's nor a broadcast address.
THEOREM CopiesAreBounded == Spec => []CopiesBounded
<1>1. CopyInv => CopiesBounded
  <2> SUFFICES ASSUME CopyInv, NEW n \in Nodes, NEW x \in DOMAIN injected[n]
               PROVE  injected[n][x] <= IF x.frame.dest \in {AddressOf[n]} \cup Broadcasts
                                        THEN 2 ELSE 1
    BY DEF CopiesBounded
  <2> DEFINE p == x.from
             f == x.frame
  <2>1. p \in Nodes /\ f \in Frame /\ x = [from |-> p, frame |-> f]
    BY DEF CopyInv, Handed
  <2> HIDE DEF p, f
  <2>2. PairInv(p, n, f)
    BY <2>1 DEF CopyInv
  <2>3. Coming(p, n, f) \in Nat /\ Given(p, n, f) \in Nat /\ Waiting(p, f) \in Nat
    BY <2>1, CopiesTyped DEF CopyInv, IInv
  <2>4. Given(p, n, f) = injected[n][x]
    BY <2>1 DEF Given
  <2>5. Meant(n, f) <=> f.dest \in {AddressOf[n]} \cup Broadcasts
    BY DEF Meant
  <2>6. injected[n][x] <= IF Meant(n, f) THEN 2 ELSE 1
    BY <2>2, <2>3, <2>4 DEF PairInv
  <2> QED BY <2>5, <2>6 DEF f
<1>2. Spec => []CopyInv
  BY CopyInit, CopyNext, PTL DEF Spec
<1> QED BY <1>1, <1>2, PTL
=============================================================================
