-------------------------- MODULE EdenMatchmaking --------------------------
(***************************************************************************)
(* The decentralised queue of src/core/mainUE.go: tickets gossiped on the  *)
(* queue topic, lobbies each node forms from the tickets it knows,         *)
(* proposals, and the five-second timer that locks the best one in.        *)
(*                                                                         *)
(* One mode and one lobby size.  A node is a number, so that sorting       *)
(* player IDs is sorting numbers, and an average Elo is compared through   *)
(* the sum over a lobby of fixed size.  Time appears as choice: how far    *)
(* the Elo spread has widened, which tickets a search finds older than     *)
(* their 60 seconds, when the timer fires.                                 *)
(***************************************************************************)
EXTENDS Integers, Sequences, FiniteSets, SequencesExt

CONSTANTS
    Players,     \* player IDs, numbers
    Nodes,       \* the players whose engines run
    Parties,     \* per node: the party lists it may queue with
    Elo,         \* per player: its rating
    Required,    \* players of a lobby
    Spreads,     \* values maxEloSpread may have
    Latency,     \* per node: what it has measured to each player, ms; 0 to itself
    BannedAt,    \* per node: the players its ledger holds a ban for
    Leavers,     \* nodes whose game may call LeaveMatchmaking
    MaxEntries,  \* bound: EnterMatchmaking calls per node
    MaxTries,    \* bound: TryFormLobby goroutines waiting on one node
    None

ASSUME MatchmakingParameters ==
    /\ Players \subseteq Nat
    /\ Nodes \subseteq Players
    /\ Parties \in [Nodes -> SUBSET Seq(Players)]
    /\ Elo \in [Players -> Nat]
    /\ Required \in 2 .. 128
    /\ Spreads \subseteq Nat
    /\ BannedAt \in [Nodes -> SUBSET Players]
    /\ Latency \in [Nodes -> [Players -> Nat]]
    /\ Leavers \subseteq Nodes
    /\ {MaxEntries, MaxTries} \subseteq Nat
    /\ None \notin Nat

VARIABLES
    inQueue,
    myTicket,    \* myCurrentTicket, or None
    tickets,     \* activeTickets
    entries,     \* EnterMatchmaking calls so far; numbers the tickets
    tries,       \* TryFormLobby goroutines not yet run
    queueTopic,  \* per node: ticket messages under way to it
    proposals,   \* per node: proposals under way to it
    accepted,    \* per node: proposals past the inQueue check
    best,        \* bestProposal, or None
    matched      \* history, per node: the match last announced to the game, or None

queueVars == <<inQueue, myTicket, tickets, entries>>
lobbyVars == <<accepted, best, matched>>
vars == <<queueVars, tries, queueTopic, proposals, lobbyVars>>

\* Every ticket that may come to exist.
AllTickets ==
    UNION {[leader : {n}, number : 1 .. MaxEntries, party : Parties[n]] : n \in Nodes}

-----------------------------------------------------------------------------
(* Forming a lobby.                                                        *)

SumElo(players) == FoldLeft(LAMBDA s, p : s + Elo[p], 0, players)

\* Average Elo of a ticket, times a factor common to all party sizes.
TicketElo(t) == (SumElo(t.party) * 6) \div Len(t.party)

\* sort.Slice orders by Elo and leaves equal tickets in any order.
Orders(ts) ==
    {s \in SetToSeqs(ts) :
        \A i, j \in 1 .. Len(s) : i < j => TicketElo(s[i]) <= TicketElo(s[j])}

Fits(count, t) == count + Len(t.party) <= Required

\* Mutant of Consider: a ticket counts as one player.
ConsiderHeads(n, first, spread, acc, t) ==
    IF acc.closed \/ ToSet(t.party) \cap BannedAt[n] # {} \/ acc.count = Required
    THEN acc
    ELSE [picked |-> Append(acc.picked, t),
          count  |-> acc.count + 1,
          closed |-> acc.count + 1 = Required]

\* Mutant of Consider: the leader alone is looked up in QueueBans.
ConsiderLeader(n, first, spread, acc, t) ==
    IF acc.closed \/ t.leader \in BannedAt[n] \/ ~ Fits(acc.count, t)
    THEN acc
    ELSE [picked |-> Append(acc.picked, t),
          count  |-> acc.count + Len(t.party),
          closed |-> acc.count + Len(t.party) = Required]

\* One step of the inner loop that starts at ticket `first`.
Consider(n, first, spread, acc, t) ==
    IF acc.closed \/ ToSet(t.party) \cap BannedAt[n] # {} \/ ~ Fits(acc.count, t)
    THEN acc
    ELSE IF TicketElo(t) - TicketElo(first) > spread * 6
    THEN [acc EXCEPT !.closed = TRUE]
    ELSE [picked |-> Append(acc.picked, t),
          count  |-> acc.count + Len(t.party),
          closed |-> acc.count + Len(t.party) = Required]

Selection(n, order, i, spread) ==
    FoldLeft(LAMBDA acc, t : Consider(n, order[i], spread, acc, t),
             [picked |-> << >>, count |-> 0, closed |-> FALSE],
             SubSeq(order, i, Len(order)))

\* The selections that fill a lobby, by the index of their first ticket.
Full(n, order, spread) ==
    {i \in 1 .. Len(order) : Selection(n, order, i, spread).count = Required}

Gathered(picked) == FoldLeft(LAMBDA s, t : s \o t.party, << >>, picked)

\* sort.Strings: at place i stands the least that i places do not exceed.
UpTo(s, p) == Cardinality({i \in DOMAIN s : s[i] <= p})

Sorted(s) ==
    [i \in DOMAIN s |->
        CHOOSE p \in ToSet(s) :
            /\ UpTo(s, p) >= i
            /\ \A q \in ToSet(s) : UpTo(s, q) >= i => p <= q]

Roster(picked) == Sorted(Gathered(picked))

\* What ElectHost ranks by on node n, for players without a finished match.
Score(n, p) == Elo[p] - 5 * Latency[n][p]

\* Mutant of ElectHost: any known player may be elected.
ElectKnown(n, players) ==
    CHOOSE p \in Players :
        \A q \in Players :
            \/ Score(n, p) > Score(n, q)
            \/ Score(n, p) = Score(n, q) /\ p >= q

\* The first of the best.
ElectHost(n, players) ==
    CHOOSE p \in ToSet(players) :
        \A q \in ToSet(players) :
            \/ Score(n, p) > Score(n, q)
            \/ Score(n, p) = Score(n, q) /\ p <= q

\* The order of proposal IDs, which are hashes of the player list.
Rank(players) == FoldLeft(LAMBDA s, p : 10 * s + p, 0, players)

Better(p, q) ==
    \/ q = None
    \/ SumElo(p.players) > SumElo(q.players)
    \/ /\ SumElo(p.players) = SumElo(q.players)
       /\ Rank(p.players) < Rank(q.players)

-----------------------------------------------------------------------------
(* Queueing.                                                               *)

\* A published ticket reaches every subscriber, the publisher included.
PublishTicket(t) == queueTopic' = [m \in Nodes |-> queueTopic[m] \cup {t}]

MoreTries(n) == [tries EXCEPT ![n] = IF @ < MaxTries THEN @ + 1 ELSE @]

\* EnterMatchmaking does not look at inQueue: entering twice keeps both
\* tickets.
EnterMatchmaking(n, party) ==
    LET t == [leader |-> n, number |-> entries[n] + 1, party |-> party]
    IN  /\ entries[n] < MaxEntries
        /\ entries' = [entries EXCEPT ![n] = @ + 1]
        /\ PublishTicket(t)
        /\ inQueue' = [inQueue EXCEPT ![n] = TRUE]
        /\ myTicket' = [myTicket EXCEPT ![n] = t]
        /\ tickets' = [tickets EXCEPT ![n] = @ \cup {t}]
        /\ tries' = MoreTries(n)
        /\ UNCHANGED <<proposals, lobbyVars>>

\* Mutant of LeftQueue: myCurrentTicket is not cleared.
LeftKeepingTicket(n) ==
    /\ inQueue' = [inQueue EXCEPT ![n] = FALSE]
    /\ tickets' = [tickets EXCEPT ![n] = @ \ {myTicket[n]}]
    /\ UNCHANGED <<myTicket, entries>>

\* The part of the queue state LeaveMatchmaking changes.
LeftQueue(n) ==
    /\ inQueue' = [inQueue EXCEPT ![n] = FALSE]
    /\ myTicket' = [myTicket EXCEPT ![n] = None]
    /\ tickets' = [tickets EXCEPT ![n] = @ \ {myTicket[n]}]
    /\ UNCHANGED entries

\* It neither stops the proposal timer nor clears bestProposal.
LeaveMatchmaking(n) ==
    /\ n \in Leavers
    /\ inQueue[n]
    /\ LeftQueue(n)
    /\ UNCHANGED <<tries, queueTopic, proposals, lobbyVars>>

\* The 15-second ticker publishes a ticket again as long as it is current.
Refreshed(t) == inQueue[t.leader] /\ myTicket[t.leader] = t

\* A copy of a current ticket is always under way; of one that is no longer
\* current the last copy may still be. Copies may be late or never arrive.
Consume(n, t) ==
    /\ t \in queueTopic[n]
    /\ queueTopic' = IF Refreshed(t) THEN queueTopic
                     ELSE [queueTopic EXCEPT ![n] = @ \ {t}]

\* Mutant of ReceiveTicket: a new ticket starts no search.
ReceiveQuietly(n, t) ==
    /\ Consume(n, t)
    /\ tickets' = [tickets EXCEPT ![n] = @ \cup {t}]
    /\ UNCHANGED <<inQueue, myTicket, entries, tries, proposals, lobbyVars>>

ReceiveTicket(n, t) ==
    /\ Consume(n, t)
    /\ tickets' = [tickets EXCEPT ![n] = @ \cup {t}]
    /\ tries' = IF inQueue[n] THEN MoreTries(n) ELSE tries
    /\ UNCHANGED <<inQueue, myTicket, entries, proposals, lobbyVars>>

-----------------------------------------------------------------------------
(* Lobbies.                                                                *)

\* TryFormLobby and the ProposeLobby it starts. It deletes every ticket older
\* than 60 seconds, the node's own among them: a copy may have been long on its
\* way, refreshes may be lost, and the goroutine may run late.
TryFormLobby(n) ==
    /\ tries[n] > 0
    /\ tries' = [tries EXCEPT ![n] = @ - 1]
    /\ UNCHANGED <<inQueue, myTicket, entries, queueTopic, lobbyVars>>
    /\ \/ /\ ~ inQueue[n]
          /\ UNCHANGED <<tickets, proposals>>
       \/ /\ inQueue[n]
          /\ \E expired \in SUBSET tickets[n] :
               /\ tickets' = [tickets EXCEPT ![n] = @ \ expired]
               /\ \E order \in Orders(tickets[n] \ expired), spread \in Spreads :
                    LET full == Full(n, order, spread)
                    IN  \/ /\ full = {}
                           /\ UNCHANGED proposals
                        \/ /\ full # {}
                           /\ LET lobby == Roster(Selection(n, order, Min(full),
                                                             spread).picked)
                                  p == [players |-> lobby,
                                        host    |-> ElectHost(n, lobby)]
                              IN  proposals' = [m \in Nodes |-> proposals[m] \cup {p}]

\* Mutant of CheckProposal: inQueue is not read.
CheckRosterOnly(n, p) ==
    /\ p \in proposals[n]
    /\ n \in ToSet(p.players)
    /\ proposals' = [proposals EXCEPT ![n] = @ \ {p}]
    /\ accepted' = [accepted EXCEPT ![n] = @ \cup {p}]
    /\ UNCHANGED <<queueVars, tries, queueTopic, best, matched>>

\* First locked section of HandleLobbyProposal.
CheckProposal(n, p) ==
    /\ p \in proposals[n]
    /\ proposals' = [proposals EXCEPT ![n] = @ \ {p}]
    /\ UNCHANGED <<queueVars, tries, queueTopic, best, matched>>
    /\ \/ /\ inQueue[n] /\ n \in ToSet(p.players)
          /\ accepted' = [accepted EXCEPT ![n] = @ \cup {p}]
       \/ /\ ~ (inQueue[n] /\ n \in ToSet(p.players))
          /\ UNCHANGED accepted

\* Second locked section, which no longer looks at inQueue. The timer it sets
\* is LockInLobby becoming possible.
KeepProposal(n, p) ==
    /\ p \in accepted[n]
    /\ accepted' = [accepted EXCEPT ![n] = @ \ {p}]
    /\ best' = IF Better(p, best[n]) THEN [best EXCEPT ![n] = p] ELSE best
    /\ UNCHANGED <<queueVars, tries, queueTopic, proposals, matched>>

\* The timer fires: LockInLobby takes the best proposal, leaves the queue,
\* whether the node is still in it or not, and calls the game. Every step
\* another goroutine takes in between could as well be taken before or after.
LockInLobby(n) ==
    /\ best[n] # None
    /\ best' = [best EXCEPT ![n] = None]
    /\ matched' = [matched EXCEPT ![n] = best[n]]
    /\ UNCHANGED <<tries, queueTopic, proposals, accepted>>
    /\ \/ inQueue[n] /\ LeftQueue(n)
       \/ ~ inQueue[n] /\ UNCHANGED queueVars

Init ==
    /\ inQueue = [n \in Nodes |-> FALSE]
    /\ myTicket = [n \in Nodes |-> None]
    /\ tickets = [n \in Nodes |-> {}]
    /\ entries = [n \in Nodes |-> 0]
    /\ tries = [n \in Nodes |-> 0]
    /\ queueTopic = [n \in Nodes |-> {}]
    /\ proposals = [n \in Nodes |-> {}]
    /\ accepted = [n \in Nodes |-> {}]
    /\ best = [n \in Nodes |-> None]
    /\ matched = [n \in Nodes |-> None]

Next ==
    \E n \in Nodes :
        \/ \E party \in Parties[n] : EnterMatchmaking(n, party)
        \/ LeaveMatchmaking(n)
        \/ \E t \in queueTopic[n] : ReceiveTicket(n, t)
        \/ TryFormLobby(n)
        \/ \E p \in proposals[n] : CheckProposal(n, p)
        \/ \E p \in accepted[n] : KeepProposal(n, p)
        \/ LockInLobby(n)

Spec == Init /\ [][Next]_vars

\* Goroutines and timers get to run, and a ticket that is published again and
\* again is received. The TryFormLobby conjunct is its weak fairness, with its
\* enabling condition written out. From some time on the refreshes, one every
\* 15 seconds, keep current tickets from reaching 60. No fairness on the
\* game's calls.
KeepsCurrent ==
    \A n \in Nodes : \A t \in tickets[n] :
        Refreshed(t) /\ Refreshed(t)' => t \in tickets'[n]

Fairness ==
    /\ <>[][KeepsCurrent]_vars
    /\ \A n \in Nodes :
        /\ \A t \in AllTickets : WF_vars(ReceiveTicket(n, t))
        /\ []<>(tries[n] = 0) \/ []<><<TryFormLobby(n)>>_vars
        /\ WF_vars(\E p \in proposals[n] : CheckProposal(n, p))
        /\ WF_vars(\E p \in accepted[n] : KeepProposal(n, p))
        /\ WF_vars(LockInLobby(n))

FairSpec == Spec /\ Fairness

-----------------------------------------------------------------------------
(* Properties.                                                             *)

Lobbies ==
    UNION {proposals[n] \cup accepted[n]
              \cup ({best[n], matched[n]} \ {None}) : n \in Nodes}

TypeOK ==
    /\ inQueue \in [Nodes -> BOOLEAN]
    /\ myTicket \in [Nodes -> AllTickets \cup {None}]
    /\ \A n \in Nodes : tickets[n] \cup queueTopic[n] \subseteq AllTickets
    /\ entries \in [Nodes -> 0 .. MaxEntries]
    /\ tries \in [Nodes -> 0 .. MaxTries]
    /\ \A p \in Lobbies : p.host \in ToSet(p.players)

\* The ticket a node publishes again and again is the one of its last entry,
\* and it publishes none once it is out of the queue: inQueue, myCurrentTicket
\* and the entries made agree, whatever the timer of an earlier entry does,
\* searches forget and the topic brings back.
QueueStateAgrees ==
    \A n \in Nodes :
        IF inQueue[n]
        THEN \E party \in Parties[n] :
                myTicket[n] = [leader |-> n, number |-> entries[n], party |-> party]
        ELSE myTicket[n] = None

\* Every lobby under way or announced has exactly the required number of
\* places, and holds whole parties: TryFormLobby counts party members, not
\* tickets, and skips a party that does not fit.
LobbiesAreWholeParties ==
    \A lobby \in Lobbies :
        /\ Len(lobby.players) = Required
        /\ \A p \in ToSet(lobby.players) :
             \E t \in AllTickets :
                /\ p \in ToSet(t.party)
                /\ ToSet(t.party) \subseteq ToSet(lobby.players)

\* A player every ledger holds a ban for is in no lobby, whoever's party it
\* hides in and whatever tickets circulate.
BannedEverywhereNeverMatched ==
    \A p \in Players :
        (\A n \in Nodes : p \in BannedAt[n])
            => \A lobby \in Lobbies : p \notin ToSet(lobby.players)

\* A node is never told of a match before its game has entered matchmaking,
\* although others may have queued with it in their party: the inQueue check
\* of HandleLobbyProposal.
NeverMatchedUnasked ==
    \A n \in Nodes : matched[n] # None => entries[n] > 0

\* Two nodes whose parties fill a lobby, unbanned and close enough in Elo, do
\* not both wait forever: one of them leaves the queue, for the match it is
\* told of unless its game called LeaveMatchmaking.
Compatible(n, m) ==
    /\ n # m
    /\ inQueue[n] /\ inQueue[m]
    /\ Len(myTicket[n].party) + Len(myTicket[m].party) = Required
    /\ \A k \in Nodes : ToSet(myTicket[n].party \o myTicket[m].party) \cap BannedAt[k] = {}

WaitingEnds ==
    \A n, m \in Nodes :
        Compatible(n, m) ~> ~ inQueue[n] \/ ~ inQueue[m]

\* A match is announced only while the node is in the queue, which is what
\* HandleLobbyProposal checks (violated: the timer outlives LeaveMatchmaking,
\* and the check and the update are two locked sections).
MatchOnlyWhileQueued ==
    [][\A n \in Nodes :
          best[n] # None /\ best'[n] = None => inQueue[n]]_vars
=============================================================================
