# Eden: a TLA+ verification project

Models, model-checking runs and machine-checked proofs for the Go core of the
Eden plugin (`src/core/eveUE.go`, `src/core/mainUE.go`): a blockchain ledger
each player's machine runs, the gossip and synchronisation that keep the copies
together, and the match queue built on the same peer-to-peer node.

`PROJECT.json` lists every component, run, mutant, mapped source line, finding,
hazard and theorem. Line numbers below are of the repository's files.

## 1. The system

| Part | State | Operations | Interacts with |
|---|---|---|---|
| Ledger (`eveUE.go:339-971`) | `Balances`, `AccountNonces`, `QueueBans`, `MatchSessions`, `MatchVotes`, `ActivePools`, `TribunalVotes`, `Profiles` | `ProcessBlockState`, one case per transaction type | called with the chain mutex by `AddBlock`, `LoadFromDB`, `TriggerSync` |
| Chain and database (`eveUE.go:170-230, 317-337`) | `LastBlock`, LevelDB keys `block_i`, `latest_index` | `AddBlock`, `SaveBlockToDB`, `LoadFromDB` | builders and the block topic call `AddBlock` |
| Block builders (`mainUE.go`: `SendTransaction`, `PlaceBet`, `StartMatch`, `AbortMatch`, `SubmitDodgePenalty`, ...) | none | read tip and nonce, sign, `AddBlock`, broadcast | the game calls them |
| Game blocks and validators (`eveUE.go:973-1095`, `mainUE.go:1883-1932`) | `pendingBlockSigs` | propose, sign, collect for 3 s, weigh | validator topic |
| Synchronisation (`mainUE.go:766-964`) | locals of each `TriggerSync` | STATUS, VERIFY, BLOCKS requests, one locked adoption | started for every peer found or connected |
| Match queue (`mainUE.go:1658-1974, 2226-2303`) | `inQueue`, `myCurrentTicket`, `activeTickets`, `bestProposal`, `proposalTimer` | enter, leave, refresh, form, propose, handle, lock in | queue and proposal topics; reads `QueueBans`, `Profiles` |
| Match preparation (`mainUE.go:1554-1602, 1635-1656, 1977-2030, 2306-2337`) | vetoes, ready states, announcements | broadcast, receive, query | three topics |
| Friends (`mainUE.go:416-549, 729-764, 1290-1362, 2037-2064`) | `MyFriends`, `friends.json` | add by code, respond, signal | friend stream, `FriendRegistry` |
| VPN streams (`mainUE.go:283-325, 388-414, 1370-1517`) | `activeStreams`, `routingTable`, `egressQueue`, `netStats` | open, read, write, close | the packet bridge |
| Packet bridge (`adamUE.cpp`) | Wintun session, receive thread | `StartEngine`, `StopEngine`, read and inject packets | callbacks to and from Go |
| Unreal plugin (`Source/Eden`) | library handles | one forwarding function per Blueprint node | the two DLLs |

What is hard, and what would make each part correct:

- **Ledger.** Long sequences of legal transactions meet in shared maps. Sessions
  and votes must stay together; a reward needs a majority; coins must not
  appear; a tribunal must slash only the side that lost.
- **Chain.** Every reader of the chain (gossip, restart, synchronisation) must
  leave it linked, and the maps must be what replaying it gives.
- **Synchronisation.** `TriggerSync` reads the tip, then makes network requests
  without a lock, then acts on what it read; several calls run at once.
- **Queue.** No node decides: tickets and proposals are gossiped, each node
  locks in what it thinks best, and a timer runs beside the player's own calls.
- **Game blocks.** The miner waits three seconds without a lock; validators sign
  by their own tip; what is signed, weighed and extended may be three chains.
- **Streams.** Both sides dial, the table of workers is read without the lock
  and keyed by peer, and each read loop cleans up when its stream ends.
- **Friends.** A handshake of two players over signals that are neither ordered
  nor acknowledged, an entry written back after an unlock, a file that is
  truncated before it is written.
- **Preparation, life cycle.** One-sided duplicate checks, handles left open,
  threads outliving what they use.

The full list, each at its line, is under `hazards` in `PROJECT.json`.

## 2. What is modelled

### `EdenLedger`: one node's ledger

Each variable is the Go map of its name (`StakedEDN` is the profile field). Each
action is one accepted block with one transaction, the form every builder in
`mainUE.go` produces: validation (`Valid`, the first pass at `eveUE.go:343-369`),
the nonce and the debit every user transaction gets (`Accept`, `Paid`), then the
case of the switch. The accounts in `System` (`SYSTEM_MINT`, `SYSTEM_PAYOUT`) pass
unseen, unnumbered and unpaid, as at lines 344 and 379. A refused block changes
nothing and is no action.

| Action | Case |
|---|---|
| `Transfer`, `Stake` | `TRANSFER` and `RESOLVE_PAYOUT`, `STAKE_FUNDS` |
| `PlaceBet` | `BET` with `processBet`, its own debit and its `Sscanf` included |
| `StartMatch`, `AbortMatch`, `Witness` | `MATCH_START`, `MATCH_ABORT`, `MATCH_WITNESS` with `ResolveMatch` |
| `Penalty` | `MATCH_PENALTY` |
| `Judge`, `JudgeUnsynced` | `TRIBUNAL_VERDICT` with `ProcessValidatorPayouts`; on a nil map |
| `Note` | types that touch none of the modelled maps, among them the untyped reward transaction of a game block |

Amounts are whole numbers of either sign, since the only test they meet is that
the sender has as much (`eveUE.go:362`); `negative` is a history variable that
says one below zero was in a block. Match IDs come with and without a colon
(`IDs`): the pool of a bet is filed under its whole payload, which is a match ID
when there is no colon in it or when a match has one in its own, while a witness
payload is split at colons and names only matches without. `issued` is a history
variable too, the coins rewards and system senders created.

Abstractions: amounts and stakes are integers (the code has floats, which round
and may be NaN); a host reward is any of `Rewards` instead of a product of
timestamps; a payload is the tuple it parses to, except for bets, where how it
parses matters: `Sscanf` takes its first word. `up` turns false when the code
panics. Ratings, XP, replay hashes, friend codes and public keys are left out.
No exported function of this commit builds `MATCH_WITNESS`, `STAKE_FUNDS` or
`TRIBUNAL_VERDICT` transactions; such blocks reach a node through the block
topic, which `ProcessBlockState` handles all the same.

### `EdenChain`: several nodes' chains

`db`, `latest`, `last` are LevelDB and `LastBlock` per node; `applied` is the
sequence of user transactions in force, which is what the nonce check depends
on. `BuildTxBlock`, `BuildGameBlock` and `Deliver` go through `AddBlock`;
`Restart` is a crash followed by `LoadFromDB`; `AskStatus`, `ReadLocal`,
`CheckTip`, `Probe`, `Fetch`, `ApplyPending` and `StoreNext` are the stretches of
`TriggerSync` between two points where another goroutine can act or the process
can end, with the answers of `HandleSyncRequest` computed from the peer's state
at that moment. The locked section is one trimming write (`ApplyPending`) and
one write per block (`StoreNext`), so a restart may find the database between
any two of them; `Unlocked` keeps every reader and writer of the chain outside
meanwhile. `gossip` keeps every block published: delivery may be late, repeated,
reordered or absent.

A call relies on what it read of two chains: its own node's from the comparison
of the tips to the adoption, the peer's until it has downloaded what it wants
(`ReliesOn`). Nothing in the code stops another call or a restart from giving
up blocks of these chains meanwhile; the history variable `crossed` records that
one did (`CutBack`).

Genesis follows the code: `AddBlock(genesis)` is refused because the zero value
of `LastBlock` already has index 0 and an empty hash, so the first block a node
stores is `block_1`.

### `EdenReplica`: what a node's chain promises

An abstract specification without database, requests or locks: a copy of the
chain per node and the ledger it gives. A copy grows by published children of
its tip that the ledger accepts (`Mine`, `Extend`) and falls back to a prefix at
a restart (`Recover`). For a peer's chain it goes in three steps: the node
compares its tip (`Look`), later falls back to a prefix of the copy it compared,
for a published block heavier than the tip of that copy (`Rewind`), and then has
that block as its goal: it neither builds nor compares until it has it or a block
the ledger refuses is in the way (`Finish`). What a copy gained between `Look`
and `Rewind` is given up with the rest, and may be heavier than the goal: that
is what the code does, which compares with the weight it read before its
requests. The promise ends where `crossed` begins.

`EdenChain` implements it with the refinement mapping of `Replica`: the copy is
the stored blocks up to the tip, the ledger is `applied`, the comparisons are the
calls between `ReadLocal` and `ApplyPending`, the goal is the last block of the
call in its locked section.

### `EdenMatchmaking`: the queue

One mode, one lobby size. Per node: `inQueue`, `myTicket`, `tickets`, `best` as
in the code; `tries` counts waiting `TryFormLobby` goroutines; `queueTopic` and
`proposals` are messages under way; `accepted` holds proposals between the two
locked sections of `HandleLobbyProposal`; `matched` is the match last announced
to the game. `TryFormLobby` contains the selection loop, `ProposeLobby` and
`ElectHost`. The five-second timer is `LockInLobby` being possible whenever a
best proposal exists; `LockInLobby` is one action because every step another
goroutine takes inside it commutes to before or after it.

Abstractions: time is choice. Any tickets may have expired at a search, the
node's own current one included, as the code tests nothing but the age
(`mainUE.go:1722`), and the Elo spread may have widened as far as it does. That
a refresh every 15 seconds keeps a current ticket from reaching 60 is an
assumption of fairness (`KeepsCurrent`), which only `WaitingEnds` rests on.
Parties of 1, 2, 3 or 6 make average Elo an exact division.

### `EdenGameBlock`: mining with signatures

`CreateGameBlock` is `Propose`, `TakeSignatures` (after the three-second sleep),
`Weigh` and `AddMined`; `Sign` is `handleBlockProposal`, `ReceiveSignature`
`handleBlockSignature`, `pending` is `pendingBlockSigs`. Around them stakes are
added, blocks gossiped, and a `TriggerSync` (its download and its locked section)
replaces the chain. A block carries the stakes its chain leaves behind, so that
a node's state is given by its tip, which `SameTipSameState` of `EdenChain`
checks. `EdenChain` in turn uses the weight 1 a block has when nobody signed.

### `EdenStreams`: game streams

A stream has two ends. On each, `MakeWorker` is `FastStreamWorker` with the
unlocked look at the old worker, `Register` the locked insertion into
`activeStreams` and `routingTable`, `Read` and `CleanUp` are `readStreamLoop`,
`Write` and `LeaveLoop` the `writerLoop`. `HandleOutboundPacket` is `Send` (the
workers of the table as it is then, and the sequence number), `PushEgress`, and
`SendToWorker` once per worker found; one frame of `StartVPNEgressWorker` is
`Egress` (the look at the tables) and `Forward` once per worker found. Between
any two of them the tables may change. `Stop` is `StopEdenNode`, `Break` a
connection that fails. `injected` is what the adapter of a node was handed, per
sender and frame. A frame is its sequence number and destination. `Broadcasts`
are the addresses that end in `.255`; `getIPFromPeerID` gives one in 256 nodes
such an address, and a frame to it is flooded when it has no route.

### `EdenFriends`: the friend list

`friends` is `MyFriends`, `file` what `friends_<id>.json` holds, `call` the
game's call with its position between locked sections, `saves` the stream
handlers that still have to call `SaveFriends`. The write is two actions, the
truncation and the end, because a crash between them leaves neither list.
`Start` and `LoadFriends` are apart because the stream handler is set before the
file is read. `HandleFriendStream` and `AddFriendByCode` are single locked
sections. Any entry can be answered, as at `mainUE.go:2041`. Names, codes and
times are left out; `asked` is a history variable, the peers a player asked or
accepted, and `stray` another, the peers he answered although what he had of
them was no received request.

The modules share no variables. `EdenChain` abstracts `EdenLedger` to the nonce
rule, `EdenGameBlock` abstracts `EdenChain` to tips and `EdenLedger` to stakes,
and `EdenMatchmaking` takes the ledger's bans and ratings as constants.

## 3. What is checked

`MC*.tla` define the small instances. Deadlock is checked for `EdenChain`. In
the others every behaviour ends (the bound on blocks, signals or packets; a
queue everybody has left), so their configurations switch it off.

| Run | Instance | Shows |
|---|---|---|
| `ledger_votes` | 3 validators with 10 coins each, 1 match, 2 rosters, 2 suspects, stakes of 5, 10 and -5, quorum 15, 5 blocks | `TypeOK`, `SessionsHaveVotes`, `VotersInRoster`, `NoUndecidedMajority`, `SupplyBounded`, `SlashOnlyOnVerdict` |
| `ledger_coin` | 2 players with 15 and 5 coins and `SYSTEM_MINT`, amounts of 5 and -5, match IDs with and without a colon, 4 blocks of every type that moves coins | `DebtIsOneOpenBet`, `CoinsNeedMajority`, `BetsOnlyReturned` |
| `chain_sync` | 2 nodes, a `TriggerSync` on each that downloads 2 blocks at a time, failing requests, 3 blocks and 1 restart anywhere on one of them; fairness | `TypeOK`, `LinkedUnlessCrossed`, `DiskLinked`, `StateIsReplay`, `SameTipSameState`, `ImplementsReplica`, `SyncTerminates` |
| `queue_match` | 2 nodes; node 1 queues alone, with node 2 or with a banned third player, and may leave; fairness | `TypeOK`, `QueueStateAgrees`, `LobbiesAreWholeParties`, `NeverMatchedUnasked`, `BannedEverywhereNeverMatched`, `WaitingEnds` |
| `streams` | 2 nodes, one dials twice, sends 1 packet to the other, whose address ends in `.255`, or to nobody, and may be stopped; connections break; queues of 1; fairness | `TypeOK`, `EntriesHaveReaders`, `CopiesBounded`, `StoppedIsClean` |
| `friends` | 3 nodes, 2 requests, 2 answers, 1 crash, lost signals | `TypeOK`, `NeverFriendsUnasked`, `SavedWhenQuiet`, `HandshakeAgrees` |
| `game_block` | 1 miner, 2 stakers (interchangeable), 4 blocks, 1 synchronisation, games of no and of two players | `TypeOK`, `SignersAreStakers`, `WeightIsSignedStake` |

Why the bounds are enough. `ledger_votes`: with three players a majority is
neither one nor all; five blocks allow start, two votes, a restart with the
other roster and a vote again, and also two stakes of different size and two
ballots that convict while a case against another suspect is open.
`ledger_coin`: a debt takes one block, its refund or a settlement two more, and
a fourth moves coins between them; one host plays alone, so that a single
witness decides. `chain_sync`: three blocks give forks that differ in weight,
length and ancestor, and take more than one request with a missing `block_0`
shifting the next one; either call may be the one that cuts back the chain under
the other, and the restart may meet either of them at every step. `queue_match`:
parties of one and two fill, overfill or leave short a lobby of two, and each
node may be ahead of the other at every stage. `streams`: two streams are the
fewest of which one replaces the other; one packet takes both ways over both of
them, routed, flooded or dropped by what the tables hold in between. Dialling
from both sides is in the proof and in `stream_reconnect`; a third node, for
whom a flooded packet is not, is in the proof only. `friends`: a third node is
the stranger who must not become a friend; two requests cross or repeat, and
either answer may be to one's own request. `game_block`: four blocks are two
stakes, a mined block and one that comes in between. Every property has a mutant
of the code, listed in `PROJECT.json`, under which its run fails.

### Disagreements found

Each of these runs checks one expectation and ends in a counterexample.

| Run | Expectation (where it is stated) | What the code does |
|---|---|---|
| `ledger_bets` | "automated payouts handled by the consensus engine upon match resolution" (`README.md:28`) | a bet's payload, `match:team`, becomes the match ID as a whole (`eveUE.go:875`): a witness closes the match and finds no pool |
| `chain_two_calls` | a block extends its parent (`eveUE.go:321`) | adoption checks neither parent nor index |
| `chain_lost` | "State restoration complete." (`eveUE.go:229`) | `block_0` does not exist and the replay stops at it |
| `queue_after_leave` | who is not queueing ignores proposals (`mainUE.go:1851`) | the timer outlives `LeaveMatchmaking`, and a proposal past the check is kept after leaving |
| `stream_reconnect` | the tunnel carries LAN games (`README.md:18`) | the end of a replaced stream removes the worker of the stream that replaced it (`mainUE.go:1436`): an open stream nothing is sent on |

The models also contain, without a run of their own:

- Bets: a pool is found only when its key is the ID of the match that closes, so
  either the payload has no colon or the match has the same one. No bet has a
  team in it either way, hence every such pool is refunded, by an abort or by a
  settlement that finds nobody on the winner's side (`eveUE.go:934`).
  `BetsOnlyReturned`, checked and proved, states it.
- Amounts below zero pass the one test they meet (`eveUE.go:362`): a transfer
  takes from its receiver, a stake shrinks (`eveUE.go:584`), a bet pays its bettor
  twice (`eveUE.go:380, 882`). `SlashOnlyOnVerdict` and `BetsOnlyReturned` say
  what holds all the same; `SupplyBounded`, `CoinsNeedMajority` and
  `DebtIsOneOpenBet` are about ledgers without them.
- `Transfer`: blocks whose sender is a system account are exempt wherever they
  come from (`eveUE.go:344, 379`), so such a block is a second source of coins
  beside the rewards; `CoinsNeedMajority` lists the two.
- `PlaceBet`: a bet is debited at `eveUE.go:380` and again at `eveUE.go:882`. A
  wallet can go below zero, and its owner can then submit nothing, not even a
  witness vote of amount zero (`eveUE.go:362`). `DebtIsOneOpenBet` bounds the
  debt.
- `Judge`: a threshold is compared only while a verdict is processed; stake a
  voter adds later meets it without a decision (`eveUE.go:602`).
- `JudgeUnsynced`: `InitializeChain` makes every map but `TribunalVotes`, so the
  first verdict panics unless a synchronisation came before (`eveUE.go:594`).
- `Note`: the reward transaction of a game block has no type and is credited to
  nobody (`eveUE.go:987`).
- `Penalty`: a five-minute ban replaces a ten-year one (`eveUE.go:424`).
- `Fetch`: with `block_0` missing, the answer to a request from index 0 covers
  more indices than it has blocks, so the next request repeats a block
  (`mainUE.go:901`); `StoreNext` then stops half way, with the old chain gone.
- `ApplyPending`: the weights compared are the announced one and the one read
  before the download (`mainUE.go:904`); a block added meanwhile is given up for
  a chain that need not be heavier. And a node gives up blocks another call has
  still to build on (`crossed`): its own second call, one on another node that is
  downloading from it, or one that goes on after it restarted. `Linked` then
  fails on either node.
- `EnterMatchmaking`: called twice it leaves two tickets of one player, which
  can fill a lobby of two (`mainUE.go:2271`).
- `TryFormLobby`: the proposal ID hashes the players only and each proposer
  elects the host by its own latencies (`mainUE.go:1829`), so two nodes lock in
  one match ID with two hosts.
- `Propose`: `SubmitGameBlock` names no witnesses (`mainUE.go:1155`) and half of
  the players are required (`eveUE.go:979`), so only a game of no players is
  ever mined.
- `Sign`: a validator signs any block on its tip, also two on one parent.
- `ReceiveSignature`: entries for other nodes' blocks are never deleted.
- `Apply` of game blocks: a synchronisation during the three seconds can bring
  the same tip back with other stakes seen in between; `WeightIsSignedStake`
  therefore speaks of undisturbed calls.
- `Send`: every packet is put into all queues at once and again through the
  egress queue (`mainUE.go:1414-1424`), so its addressee gets it twice and
  everyone else once, or twice when it is flooded: to a broadcast address, or to
  the `10.x.y.255` of a node whose route is gone (`mainUE.go:400, 2370`).
  `CopiesBounded` is the bound.
- `Read`: `LastRemoteSeq` is shared by all peers (`mainUE.go:1492`), and second
  copies set it back; losses are counted where nothing was lost.
- `Stop`: routes, queued frames and the egress goroutine stay; only read loops
  that end afterwards remove routes.
- `RespondToFriendRequest` looks for any entry (`mainUE.go:2041`), so a player can
  accept the request he sent himself, and is then a friend of somebody who never
  asked, or reject it, and overtake it with the rejection.
  `NeverFriendsUnasked` names this as the one way round consent;
  `HandshakeAgrees` is about handshakes without it (`stray`).
- `AddFriendByCode` on a confirmed friend makes the entry `Pending_Sent` again;
  two requests that cross leave both sides at `Pending_Sent`; an answer to an
  entry that was deleted in between puts it back; a lost signal leaves one side
  a friend and the other not.
- `Start`: a signal before `LoadFriends` saves the then empty list over the file
  (`mainUE.go:689` and 720); a crash between truncation and write loses it.

### Fairness

`SyncTerminates` assumes that a started `TriggerSync` goes on taking steps:
`requestSync` returns an answer or an error, and the one thing a call waits for is
the chain mutex, its own node's or, through the answer, the peer's. That mutex is
released and taken again and again by others, so the fairness is strong
(`sync.RWMutex` lets a waiting goroutine in), and a step that finds it free at
infinitely many times is taken. Requests may fail, but no fairness makes them.
Nothing is assumed of the peer's chain, of builders or of restarts.
`WaitingEnds` assumes that goroutines and timers get to run and that a
ticket published every 15 seconds is received at some time by a subscriber and,
from some time on, never found expired (`KeepsCurrent`: a refresh resets its age,
and 60 seconds are four refreshes); no fairness is assumed of the game entering
or leaving the queue; a node that leaves on its own ends the wait too.
`StoppedIsClean` assumes that a handler or dial that made a worker goes on to
register it, and that the read loop of a closed stream ends: both are goroutines
with nothing to wait for but `streamLock`. Nothing is assumed of writers, packets or
the other node.

## 4. What is proved

`EdenLedger_proofs` proves nine theorems for all finite sets of accounts and
matches, all rosters, amounts and rewards of either sign, and all bounds that meet
the named assumptions of `EdenLedger`. Six are invariants, conjuncts of the
inductive `IInv` or consequences of it: `TypeCorrect`, `VotesPresent`,
`OnlyPlayersVote`, `MajorityDecides`, `DebtCovered` and `NoCoinFromNothing`.

A ballot is only safe to count when the vote map exists and holds roster
members; an undecided majority is excluded because every ballot of a live match
was counted when cast, and the counts can only change by that voter's own step
(`MatchesSound`). The money part, `MoneySound`, holds while no amount was
negative: no stake and no bet is, every debt is `Covered`, and `Coins` are
within what was issued. Three things make it inductive. A wallet in debt counts
as empty (`Funds`), else a wallet pushed below zero and paid back up would seem
to make coins. `AddsUp`, which holds for amounts of either sign, says that a
pool's total is the sum of its bets and that no bet is on a team: so a
settlement is a refund (`SettledIsRefund`), it makes no coin, and it leaves no
debt behind that another open bet does not cover (`CoveredWithout`: of two bets
a debtor has in pools, giving one back lifts him by its amount). And each action
is shown to let the coins grow by no more than it issues (`Grows`), a verdict
taking fifths from several stakes at once and handing out no more than it took
(`EarnedBounded`). There is one lemma per action.

Three action properties follow from the same invariant. `RewardsAreDecided`
proves `CoinsNeedMajority`: by `Grows` a step that makes coins issues some, which
system senders and deciding witnesses do, and by `VotersInRoster` the peers such a
witness counts are players of the roster. `BetsGoBack` proves `BetsOnlyReturned`:
a pool goes when the match of its key closes, and what its bettors get is what
the fold of refunds gives each of them (`RefundedIs`). `SlashingIsVerdict` proves
`SlashOnlyOnVerdict`: only a stake transaction of its owner or a verdict changes a
stake, slashing a stake below zero raises it, the deciding side outweighs the
slashed one because 66 % of the stake cast is more than half of it, and the case
already had a ballot because a first ballot alone has no losing side.

`EdenFolds` holds what these proofs need of sums and folds. The community
modules define them by recursion over the subsets of a finite set, and the
library's induction theorems cannot be instantiated by the provers, so the
induction is done in first-order form: a nonempty set of naturals has a least
element (`LeastNatural`), so a set of subsets that holds a set whenever it holds
all its subsets with one element less holds the whole set (`SubsetInduction`).
From it follow that the recursive function exists and is the only one
(`FoldExists`, `FoldUnique`), that `FoldLeft` runs from the left (`LeftFold`),
and how sums and maxima behave.

`EdenChain_proofs` proves `TypeCorrect` for any number of simultaneous calls and
restarts, from `BlocksInv`: every block in a database, tip, ledger or download
was built, and its number bounds its nonce and weight, so that no width is
exceeded however blocks are replayed. `ChainsLinked`, `DisksLinked`,
`LedgersReplay` and `TipsDetermineLedgers` prove `LinkedUnlessCrossed`,
`DiskLinked`, `StateIsReplay` and `SameTipSameState`, for any number of nodes,
calls on each, restarts, failing requests and any batch size. They say nothing
once `crossed` is true, and cannot: with two calls on a node the chain breaks
(`chain_two_calls`). But until then no number of simultaneous calls does harm,
and `crossed` becomes true in two steps only, the trimming write of a call and a
restart, and only when another call relies on what is given up.

The inductive invariant is `IInv`, `crossed` or `ChainInv`: hashes name blocks, at
most one call is in a node's locked section (`Exclusive`), a node's ledger is the
fold of its stored chain (`NodeInv`), and `CallInv` says at each step of each call
what is known of the peer's chain: what was verified is common to both, what was
downloaded is a stretch of the peer's chain above the common ancestor, in which a
block may come twice because `block_0` is missing, and what is left to store is a
chain on top of the tip. A step of one call keeps what the others know because
their two chains only grow while `crossed` stays false (`CallFrame`). That two
nodes with one tip agree follows because a hash names a block and, through
`prev`, all blocks under it.

`EdenReplica_proofs` proves `ReplicaImplemented`, the refinement
`Spec => ImplementsReplica`, with no assumption beyond those on the constants.
Every step of `EdenChain` is a step of the replica or leaves copies, comparisons
and goals alone: a build is a `Mine`, a delivery an `Extend`, `ReadLocal` a `Look`
or nothing, the trimming write a `Rewind` for the last block downloaded, a stored
block an `Extend`, the end of the locked section a `Finish`, a restart a
`Recover`. That the copy compared is still a prefix of the copy at the `Rewind`
is `AncestorInv` and `PendingInv`; that the locked section ends at its goal or at
a refused block is `AdoptInv`, and that it is the only one `Exclusive`.

`EdenMatchmaking_proofs` proves five theorems. For `NobodyMatchedUnasked`,
`NeverMatchedUnasked` alone is not inductive: the strengthening says that each
stage on the way to an announcement (queued, accepted, best, matched) follows an
entry. `QueueConsistent` (`QueueStateAgrees`) is inductive with the domains of its
variables (`QueueShape`): whatever tickets searches drop and topics bring back, the
node's own included, none of them touches `inQueue` or `myTicket`, and the two
that do, entering and the reset shared by `LeaveMatchmaking` and `LockInLobby`,
keep it. `TypeCorrect`, `WholePartiesOnly` (`LobbiesAreWholeParties`) and
`NoMatchForBanned` (`BannedEverywhereNeverMatched`) share `LobbyInv`: tables are
finite and typed, and a lobby is good at every stage from `TryFormLobby` to the
game. That `TryFormLobby` forms good ones is an invariant of its loop, carried
through the fold of `Selection`: the parties picked are of allowed tickets and
the count is their total length. Gathering and sorting them permutes, and
`ElectHost` picks a maximum over a nonempty set of candidates (`HighestOf`).

`EdenStreams_proofs` proves `TypeCorrect`, `EntriesAreRead`
(`EntriesHaveReaders`) and `CopiesAreBounded` (`CopiesBounded`), for any nodes,
streams and queue sizes, with dials from every side. For the first two the
inductive invariant adds `KnownHaveEnds`: only a stream with ends is in a stage,
so giving ends to a new stream changes no entry's peer. The heart is `CleanUp`:
what it takes out, besides its own entries, is that of another stream of the
same peer, never an entry of another peer. `CopiesBounded` speaks of delivered
packets only; its invariant `CopyInv` counts a packet wherever it can be:
`UnderWay` in the queues and on the wires of all streams from sender to receiver
(a sum over streams), `Due` with a goroutine that has taken a list of workers and
not come to the receiver's yet, `Given` in the receiver's adapter, `Waiting` before
the egress worker's look at the tables. `PairInv` bounds their sum by 2, or by 1
without `Waiting` for a packet that is neither to the receiver nor to a broadcast
address, and has all of them zero before the packet is sent. `Send` makes one copy
due per peer and one wait; `Egress` makes the latter due, because a list of workers
has one per peer (by `EntriesHaveReaders`) and stays so while streams are replaced
(`JobsInv`), and because it routes a packet only to who has its address or floods
one to a broadcast address; enqueueing, `Write` and `Read` move copies or lose
them; and a stream dialled anew is empty and in nobody's list, because only
streams with ends carry anything (`EndsKnown`).

`EdenFriends_proofs` proves four theorems. `FriendsByConsent`
(`NeverFriendsUnasked`) holds for any answers to any entries. Its invariant
`Consent` says of each place a status or signal is kept in (list, file, a call
between its locked sections, the wire) who has asked for it to be there; none of
the four is inductive without the others, since an entry may come back from a
file or be written after an unlock. `FileHoldsList` (`SavedWhenQuiet`) is
strengthened by what holds during a start: the node has no entry the file lacks
unless a save is due. `OneHandshakeAgrees` (`HandshakeAgrees`) follows the only
request through its stages: what calls, signals and entries there are tells the
stage, every step that touches them is the one to the next stage, and of the
stages only the last and the wait for an answer have nothing under way.
`TypeCorrect` is the type invariant.

`EdenGameBlock_proofs` proves `StakersSign` (`SignersAreStakers`) and
`MinedWeight` (`WeightIsSignedStake`). They rest on `Order` (what is mined is not
yet known to anybody, and every chain rests on known blocks, so no block that
counts changes), `Signed` (a signature was given with a stake on the parent) and
`Grown` (a miner's undisturbed tip only moves to higher blocks, so if it still is
the parent when the block is added, it was when the block was weighed).
`TypeCorrect` adds, for a finite set of nodes, that weights are numbers: a weight
is a sum of stakes.

Every invariant and action property of the passing runs is thereby a theorem,
and so is the refinement. They assume the named assumptions on constants of their
modules, in `TypeCorrect` of `EdenGameBlock` finitely many nodes, and nothing of
schedules, calls or amounts; where a property holds only for some behaviours, a
history variable in its statement says for which (`crossed`, `negative`, `stray`).

Model-checked only: the liveness properties `SyncTerminates`, `WaitingEnds` and
`StoppedIsClean`, since the prover has no support for fairness and `ENABLED`.

## 5. Plan

Done: `EdenLedger`, `EdenChain` with `EdenReplica`, `EdenMatchmaking`,
`EdenGameBlock`, `EdenStreams`, `EdenFriends`, and the proofs of their safety
properties. Left, in this order:

1. What holds of a node after `crossed`: its database holds published blocks
   only, and a node that no call runs on or downloads from stays linked.
2. Ticket ages in `EdenMatchmaking`, so that the Elo spread is computed, and a
   lock-in module for proposals and timers of three and more nodes without the
   ticket layer.

## 6. Not modelled

- **Match preparation** (`mainUE.go:1554-1602, 1635-1656, 1977-2030,
  2306-2337`): vetoes, ready states and announcements are tables that only grow,
  each fed by one topic or a local call and read by a query. No step depends on
  another table. Worth knowing: a local veto is appended unchecked, and returns
  to its sender through the topic, so it may be listed twice (`mainUE.go:2317`).
- **Node life cycle**, beyond what streams, friends and chain need of it:
  `StopEdenNode` leaves LevelDB open, so a second start panics on the locked
  database; `AutoConnectToPeers` synchronises only with peers whose stream failed
  (`mainUE.go:2186`); the relay list stays empty because its error check is
  inverted (`mainUE.go:665`). Each is a single step, and the rest are handles of
  libraries.
- **Packet bridge and Wintun adapter**: operating-system calls around a flag and
  a handle; whether ending a session inside a receive is safe is up to the
  library.
- **Rating and XP arithmetic** (floating point), **cryptography** (signatures are
  taken as valid, hashes as unique), the **Blueprint wrappers** and the **build
  files**.
