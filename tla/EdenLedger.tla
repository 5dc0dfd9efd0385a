----------------------------- MODULE EdenLedger -----------------------------
(***************************************************************************)
(* The state machine that one node replays its chain through:              *)
(* Blockchain.ProcessBlockState of src/core/eveUE.go with the helpers it   *)
(* calls (processBet, ResolveMatch, ProcessValidatorPayouts).              *)
(*                                                                         *)
(* Every function of the repository that builds a block puts exactly one   *)
(* transaction in it, so an action here is "AddBlock of a block that holds *)
(* this transaction".  A transaction that fails the checks of the first    *)
(* pass (signature, nonce, balance) rejects its block and changes nothing; *)
(* such blocks are not actions.  A transaction that passes them is paid    *)
(* and numbered even when the second pass ignores it.  A transaction sent  *)
(* by SYSTEM_MINT or SYSTEM_PAYOUT passes them unseen and is neither paid  *)
(* nor numbered, in a block of a peer as well as in one of this program.   *)
(*                                                                         *)
(* Amounts are whole coins of either sign: the one test an amount has to   *)
(* pass is that the sender has as much.  Names, ratings, XP, encrypted     *)
(* passwords and the Witnesses field of a session (written, never read)    *)
(* are left out.                                                           *)
(***************************************************************************)
EXTENDS Integers, Sequences, FiniteSets, SequencesExt

CONSTANTS
    Accounts,       \* the names transactions are sent by and to
    System,         \* SYSTEM_MINT and SYSTEM_PAYOUT
    Matches,        \* match IDs without a colon
    Suspects,       \* accounts a tribunal case may name
    TeamA, TeamB,   \* the two team names ResolveMatch knows
    NoTeam,         \* the empty team name
    MVPs,           \* MVP names a witness may vote for
    Rosters,        \* player lists a MATCH_START may carry
    Amounts,        \* amounts of TRANSFER, BET and STAKE_FUNDS
    Attached,       \* amounts of transactions whose case does not read it
    Rewards,        \* host rewards (duration times a clock factor)
    Times,          \* block timestamps
    Types,          \* transaction types that occur in this instance
    Endowment,      \* coins each account earned before the first modelled block
    Synced,         \* TRUE once TriggerSync has rebuilt this node's maps
    TribunalQuorum, \* total stake a verdict needs (1000 in the code)
    DodgeBan,       \* length of a leaver ban (300 s)
    TribunalBan,    \* length of a tribunal ban (315360000 s)
    MaxIndex,       \* bound: blocks after the prelude
    MaxStake,       \* bound: stake or negative stake of one account
    None            \* a missing map entry

Teams == {TeamA, TeamB}

\* The texts the maps are keyed by: a match ID, or one that contains a colon,
\* which is also what a bet's "match:team" payload is.
IDs == Matches \cup (Matches \X Teams)

Ballot == Teams \X MVPs

Session == [host : Accounts, roster : Rosters]

Verdict == {"guilty", "innocent"}

Bets == [bettor : Accounts, amount : Int, team : Teams \cup {NoTeam}]

Pool == [total : Int, teamA : Int, teamB : Int, bets : Seq(Bets)]

Case == Matches \X Suspects

ASSUME AccountsFinite ==
    /\ IsFiniteSet(Accounts) /\ IsFiniteSet(Matches)
    /\ System \subseteq Accounts /\ Suspects \subseteq Accounts

ASSUME RostersAreLists == Rosters \subseteq Seq(Accounts)

ASSUME AmountsAreIntegers ==
    /\ Amounts \subseteq Int /\ Attached \subseteq Int
    /\ Rewards \subseteq Int
    /\ Times \subseteq Int
    /\ Endowment \in [Accounts -> Nat]
    /\ DodgeBan \in Nat /\ TribunalBan \in Nat
    /\ MaxIndex \in Nat /\ MaxStake \in Nat
    /\ TribunalQuorum \in Nat \ {0}
    /\ Synced \in BOOLEAN

ASSUME NoneIsNothing ==
    /\ None \notin Session
    /\ None \notin Ballot
    /\ None \notin Verdict
    /\ None \notin [Accounts -> Ballot \cup {None}]
    /\ None \notin Pool

ASSUME TeamsHaveNames == NoTeam \notin Teams

VARIABLES
    up,             \* the process has not panicked
    LastIndex,      \* LastBlock.Index, counted from the prelude
    Balances,
    AccountNonces,
    StakedEDN,      \* Profiles[p].StakedEDN
    QueueBans,
    MatchSessions,
    MatchVotes,
    ActivePools,
    TribunalVotes,
    issued,         \* history: coins created after the prelude
    negative        \* history: a block had a negative amount or reward in it

money == <<Balances, StakedEDN, issued>>
matches == <<MatchSessions, MatchVotes>>
vars == <<up, LastIndex, AccountNonces, QueueBans, ActivePools, TribunalVotes,
          negative, money, matches>>

-----------------------------------------------------------------------------
(* Helpers.                                                                *)

Credit(b, p, x) == [b EXCEPT ![p] = @ + x]

Total(f, S) == SumFunctionOnSet(f, S)

Voters(m, b) == {p \in Accounts : MatchVotes[m][p] = b}

HasMajority(n, roster) == n > Len(roster) \div 2

NoVotes == [p \in Accounts |-> None]

\* Mutant of Valid: the balance check is gone.
ValidUnfunded(p, type, x) == up /\ type \in Types /\ LastIndex < MaxIndex

\* A transaction of the given type that survives the first pass of
\* ProcessBlockState, in a block that extends the chain.
Valid(p, type, x) ==
    /\ up
    /\ type \in Types
    /\ LastIndex < MaxIndex
    /\ p \in System \/ Balances[p] >= x

\* The bookkeeping of an accepted transaction that carries these amounts.
Accept(p, amounts) ==
    /\ LastIndex' = LastIndex + 1
    /\ AccountNonces' = IF p \in System THEN AccountNonces
                        ELSE [AccountNonces EXCEPT ![p] = @ + 1]
    /\ negative' = (negative \/ \E x \in amounts : x < 0)
    /\ up' = up

\* What the generic debit of the second pass leaves.
Paid(p, x) == IF p \in System THEN Balances ELSE Credit(Balances, p, -x)

\* Mutant of ParsedBet: the payload is split at the colon.
ParsedBetSplit(word) ==
    IF word \in Matches THEN [key |-> word, team |-> NoTeam]
                        ELSE [key |-> word[1], team |-> word[2]]

\* Sscanf("%s:%s") stops at white space only: the first %s takes the first
\* word of the payload, colon and team included, and the ":" of the format
\* finds nothing to match, so that no team is read.
ParsedBet(word) == [key |-> word, team |-> NoTeam]

PoolWith(k, bet) ==
    LET old == IF ActivePools[k] = None
               THEN [total |-> 0, teamA |-> 0, teamB |-> 0, bets |-> << >>]
               ELSE ActivePools[k]
        On(team) == IF bet.team = team THEN bet.amount ELSE 0
    IN  [total |-> old.total + bet.amount,
         teamA |-> old.teamA + On(TeamA),
         teamB |-> old.teamB + On(TeamB),
         bets  |-> Append(old.bets, bet)]

\* Every bet goes back.
Refunded(b, bets) ==
    FoldLeft(LAMBDA acc, bet : Credit(acc, bet.bettor, bet.amount), b, bets)

AfterAbort(b, m) ==
    IF ActivePools[m] = None THEN b ELSE Refunded(b, ActivePools[m].bets)

\* ResolveMatch and the credits its caller makes: 96 % of the pot to the
\* bets on the winner, or everybody's bet back when nobody backed it.
Settled(b, m, winner) ==
    IF ActivePools[m] = None
    THEN b
    ELSE LET pool == ActivePools[m]
             backed == IF winner = TeamA THEN pool.teamA ELSE pool.teamB
             Share(x) == (x * pool.total * 96) \div (backed * 100)
         IN  IF backed = 0
             THEN Refunded(b, pool.bets)
             ELSE FoldLeft(LAMBDA acc, bet :
                               IF bet.team = winner
                               THEN Credit(acc, bet.bettor, Share(bet.amount))
                               ELSE acc,
                           b, pool.bets)

-----------------------------------------------------------------------------
(* Coins.                                                                  *)

\* TRANSFER, and RESOLVE_PAYOUT, which the switch treats alike.
Transfer(p, q, x) ==
    /\ Valid(p, "TRANSFER", x)
    /\ Accept(p, {x})
    /\ Balances' = Credit(Paid(p, x), q, x)
    /\ issued' = IF p \in System THEN issued + x ELSE issued
    /\ UNCHANGED <<StakedEDN, QueueBans, ActivePools, TribunalVotes, matches>>

Stake(p, x) ==
    /\ Valid(p, "STAKE_FUNDS", x)
    /\ StakedEDN[p] + x \in (-MaxStake) .. MaxStake
    /\ Accept(p, {x})
    /\ Balances' = Paid(p, x)
    /\ StakedEDN' = Credit(StakedEDN, p, x)
    /\ issued' = IF p \in System THEN issued + x ELSE issued
    /\ UNCHANGED <<QueueBans, ActivePools, TribunalVotes, matches>>

\* The generic debit of the second pass, then processBet's own debit.  A
\* sender that is exempt bets what it need not have.
PlaceBet(p, word, x) ==
    LET parsed == ParsedBet(word)
        bet == [bettor |-> p, amount |-> x, team |-> parsed.team]
    IN  /\ Valid(p, "BET", x)
        /\ Accept(p, {x})
        /\ Balances' = Credit(Paid(p, x), p, -x)
        /\ ActivePools' = [ActivePools EXCEPT
                              ![parsed.key] = PoolWith(parsed.key, bet)]
        /\ issued' = IF p \in System THEN issued + x ELSE issued
        /\ UNCHANGED <<StakedEDN, QueueBans, TribunalVotes, matches>>

-----------------------------------------------------------------------------
(* Matches.                                                                *)

\* Mutant of OpenMatch: a restart keeps the ballots of the match before it.
OpenKeepingVotes(p, m, roster) ==
    /\ MatchSessions' = [MatchSessions EXCEPT
                            ![m] = [host |-> p, roster |-> roster]]
    /\ MatchVotes' = [MatchVotes EXCEPT
                         ![m] = IF @ = None THEN NoVotes ELSE @]

OpenMatch(p, m, roster) ==
    /\ MatchSessions' = [MatchSessions EXCEPT
                            ![m] = [host |-> p, roster |-> roster]]
    /\ MatchVotes' = [MatchVotes EXCEPT ![m] = NoVotes]

\* Mutant of CloseMatch: the ballots stay behind.
CloseSessionOnly(m) ==
    /\ MatchSessions' = [MatchSessions EXCEPT ![m] = None]
    /\ UNCHANGED MatchVotes

CloseMatch(m) ==
    /\ MatchSessions' = [MatchSessions EXCEPT ![m] = None]
    /\ MatchVotes' = [MatchVotes EXCEPT ![m] = None]

\* The ledger accepts any match ID, a live one included, and any roster, and
\* starts the votes of the match afresh.
StartMatch(p, m, roster, x) ==
    /\ Valid(p, "MATCH_START", x)
    /\ Accept(p, {x})
    /\ Balances' = Paid(p, x)
    /\ OpenMatch(p, m, roster)
    /\ UNCHANGED <<StakedEDN, issued, QueueBans, ActivePools, TribunalVotes>>

IsHost(p, m) == MatchSessions[m] # None /\ MatchSessions[m].host = p

AbortMatch(p, m, x) ==
    /\ Valid(p, "MATCH_ABORT", x)
    /\ Accept(p, {x})
    /\ UNCHANGED <<StakedEDN, issued, QueueBans, TribunalVotes>>
    /\ \/ /\ IsHost(p, m)
          /\ Balances' = AfterAbort(Paid(p, x), m)
          /\ ActivePools' = [ActivePools EXCEPT ![m] = None]
          /\ CloseMatch(m)
       \/ /\ ~ IsHost(p, m)
          /\ Balances' = Paid(p, x)
          /\ UNCHANGED <<ActivePools, matches>>

\* Mutant of IsParticipant: the roster is not searched.
IsAnyone(p, m) == MatchSessions[m] # None

IsParticipant(p, m) ==
    MatchSessions[m] # None /\ p \in ToSet(MatchSessions[m].roster)

\* Mutant of Agreeing: the count is taken before the ballot is stored.
AgreeingBefore(p, m, ballot) == Voters(m, ballot)

\* The peers behind a ballot once p has cast it.
Agreeing(p, m, ballot) == Voters(m, ballot) \cup {p}

\* A participant's ballot is recorded and the ballots equal to it counted;
\* a majority of the roster pays the host, settles the pool and closes the
\* match.  The payload is split at its colons, so m contains none.
Witness(p, m, ballot, reward, x) ==
    LET decided == HasMajority(Cardinality(Agreeing(p, m, ballot)),
                               MatchSessions[m].roster)
    IN  /\ Valid(p, "MATCH_WITNESS", x)
        /\ Accept(p, {x, reward})
        /\ UNCHANGED <<StakedEDN, QueueBans, TribunalVotes>>
        /\ \/ /\ ~ IsParticipant(p, m)
              /\ Balances' = Paid(p, x)
              /\ UNCHANGED <<issued, ActivePools, matches>>
           \/ /\ IsParticipant(p, m)
              /\ ~ decided
              /\ Balances' = Paid(p, x)
              /\ MatchVotes' = [MatchVotes EXCEPT ![m][p] = ballot]
              /\ UNCHANGED <<issued, ActivePools, MatchSessions>>
           \/ /\ IsParticipant(p, m)
              /\ decided
              /\ Balances' = Settled(Credit(Paid(p, x), MatchSessions[m].host,
                                            reward), m, ballot[1])
              /\ issued' = issued + reward
              /\ ActivePools' = [ActivePools EXCEPT ![m] = None]
              /\ CloseMatch(m)

\* The host of a live match bans a player.
Penalty(p, m, dodger, ts, x) ==
    /\ Valid(p, "MATCH_PENALTY", x)
    /\ Accept(p, {x})
    /\ Balances' = Paid(p, x)
    /\ UNCHANGED <<StakedEDN, issued, ActivePools, TribunalVotes, matches>>
    /\ QueueBans' = IF IsHost(p, m)
                    THEN [QueueBans EXCEPT ![dodger] = ts + DodgeBan]
                    ELSE QueueBans

-----------------------------------------------------------------------------
(* The tribunal.                                                           *)

Side(ballots, v) == {p \in Accounts : ballots[p] = v}

Decides(ballots, v) ==
    LET cast == Total(StakedEDN, Side(ballots, "guilty"))
                + Total(StakedEDN, Side(ballots, "innocent"))
    IN  /\ cast >= TribunalQuorum
        /\ 100 * Total(StakedEDN, Side(ballots, v)) > 66 * cast

\* Mutant of Slash: multiplied instead of divided.
SlashFivefold == [p \in Accounts |-> StakedEDN[p] * 5]

\* 20 % of the stake of a validator on the losing side.
Slash == [p \in Accounts |-> StakedEDN[p] \div 5]

StakesAfter(losers) ==
    [p \in Accounts |-> IF p \in losers THEN StakedEDN[p] - Slash[p]
                                        ELSE StakedEDN[p]]

\* Mutant of Earned: each honest validator takes the whole pot.
EarnedInFull(honest, losers) ==
    [p \in Accounts |-> IF p \in honest THEN Total(Slash, losers) ELSE 0]

\* What an honest validator earns: the slashed stake in proportion to its own.
Earned(honest, losers) ==
    [p \in Accounts |->
        IF /\ p \in honest
           /\ Total(Slash, losers) > 0
           /\ Total(StakedEDN, honest) > 0
        THEN (Total(Slash, losers) * StakedEDN[p])
                 \div Total(StakedEDN, honest)
        ELSE 0]

\* Mutant of PayValidators: the sides are swapped.
PayLosers(c, ballots, honestVote, lostVote, b) ==
    /\ StakedEDN' = StakesAfter(Side(ballots, honestVote))
    /\ Balances' = [p \in Accounts |->
                       b[p] + Earned(Side(ballots, lostVote),
                                     Side(ballots, honestVote))[p]]
    /\ TribunalVotes' = [TribunalVotes EXCEPT ![c] = NoVotes]

\* ProcessValidatorPayouts and the delete of the case that follows it.
PayValidators(c, ballots, honestVote, lostVote, b) ==
    LET honest == Side(ballots, honestVote)
        losers == Side(ballots, lostVote)
    IN  /\ StakedEDN' = StakesAfter(losers)
        /\ Balances' = [p \in Accounts |-> b[p] + Earned(honest, losers)[p]]
        /\ TribunalVotes' = [TribunalVotes EXCEPT ![c] = NoVotes]

\* InitializeChain leaves TribunalVotes nil: the assignment to it panics
\* unless TriggerSync has replaced the map.
JudgeUnsynced(p, x) ==
    /\ Valid(p, "TRIBUNAL_VERDICT", x)
    /\ ~ Synced
    /\ up' = FALSE
    /\ UNCHANGED <<LastIndex, AccountNonces, QueueBans, ActivePools,
                   TribunalVotes, negative, money, matches>>

Judge(p, c, v, ts, x) ==
    LET ballots == [TribunalVotes[c] EXCEPT ![p] = v]
    IN  /\ Valid(p, "TRIBUNAL_VERDICT", x)
        /\ Synced
        /\ Accept(p, {x})
        /\ UNCHANGED <<issued, ActivePools, matches>>
        /\ \/ /\ \A w \in Verdict : ~ Decides(ballots, w)
              /\ Balances' = Paid(p, x)
              /\ TribunalVotes' = [TribunalVotes EXCEPT ![c] = ballots]
              /\ UNCHANGED <<StakedEDN, QueueBans>>
           \/ /\ Decides(ballots, "guilty")
              /\ QueueBans' = [QueueBans EXCEPT ![c[2]] = ts + TribunalBan]
              /\ PayValidators(c, ballots, "guilty", "innocent",
                               [Paid(p, x) EXCEPT ![c[2]] = 0])
           \/ /\ Decides(ballots, "innocent")
              /\ PayValidators(c, ballots, "innocent", "guilty", Paid(p, x))
              /\ UNCHANGED QueueBans

-----------------------------------------------------------------------------
(* Blocks that touch none of the other modelled maps.                      *)

\* UPDATE_PROFILE, REGISTER_FRIEND, MATCH_RESULT, and the transaction without
\* a type that SYSTEM_MINT sends in a game block, whose receiver no case of
\* the switch credits.
Note(p, x) ==
    /\ Valid(p, "NOTE", x)
    /\ Accept(p, {x})
    /\ Balances' = Paid(p, x)
    /\ UNCHANGED <<StakedEDN, issued, QueueBans, ActivePools, TribunalVotes,
                   matches>>

-----------------------------------------------------------------------------
(* The first modelled block follows a prelude in which each account with   *)
(* an endowment hosted, alone, a match it then witnessed: two              *)
(* transactions.                                                           *)

Init ==
    /\ up = TRUE
    /\ LastIndex = 0
    /\ Balances = Endowment
    /\ AccountNonces = [p \in Accounts |-> IF Endowment[p] = 0 THEN 0 ELSE 2]
    /\ StakedEDN = [p \in Accounts |-> 0]
    /\ QueueBans = [p \in Accounts |-> 0]
    /\ MatchSessions = [m \in IDs |-> None]
    /\ MatchVotes = [m \in IDs |-> None]
    /\ ActivePools = [k \in IDs |-> None]
    /\ TribunalVotes = [c \in Case |-> NoVotes]
    /\ issued = 0
    /\ negative = FALSE

Next ==
    \E p \in Accounts :
        \/ \E q \in Accounts, x \in Amounts : Transfer(p, q, x)
        \/ \E x \in Amounts : Stake(p, x)
        \/ \E word \in IDs, x \in Amounts : PlaceBet(p, word, x)
        \/ \E x \in Attached :
              \/ \E m \in IDs, r \in Rosters : StartMatch(p, m, r, x)
              \/ \E m \in IDs : AbortMatch(p, m, x)
              \/ \E m \in Matches, b \in Ballot, w \in Rewards :
                    Witness(p, m, b, w, x)
              \/ \E m \in Matches, d \in Accounts, ts \in Times :
                    Penalty(p, m, d, ts, x)
              \/ JudgeUnsynced(p, x)
              \/ \E c \in Case, v \in Verdict, ts \in Times :
                    Judge(p, c, v, ts, x)
              \/ Note(p, x)

Spec == Init /\ [][Next]_vars

-----------------------------------------------------------------------------
(* Properties.                                                             *)

TypeOK ==
    /\ up \in BOOLEAN /\ negative \in BOOLEAN
    /\ LastIndex \in Nat
    /\ Balances \in [Accounts -> Int]
    /\ AccountNonces \in [Accounts -> Nat]
    /\ StakedEDN \in [Accounts -> (-MaxStake) .. MaxStake]
    /\ QueueBans \in [Accounts -> Int]
    /\ MatchSessions \in [IDs -> Session \cup {None}]
    /\ MatchVotes \in [IDs -> [Accounts -> Ballot \cup {None}] \cup {None}]
    /\ ActivePools \in [IDs -> Pool \cup {None}]
    /\ TribunalVotes \in [Case -> [Accounts -> Verdict \cup {None}]]
    /\ issued \in Int

\* A session and its vote map are created and deleted together by three
\* different cases of the switch, so a ballot never hits a nil map
\* (eveUE.go:522 writes MatchVotes[matchID] without a check).
SessionsHaveVotes ==
    \A m \in IDs : MatchSessions[m] = None <=> MatchVotes[m] = None

\* Only players of the roster the match is running with have a ballot in it,
\* also after the match was started again with another roster.
VotersInRoster ==
    \A m \in IDs : MatchVotes[m] # None =>
        \A p \in Accounts : MatchVotes[m][p] # None => IsParticipant(p, m)

\* No match stays open once a majority of its roster agrees, whatever the
\* order in which ballots are cast, changed and wiped by a restart of the
\* match.
NoUndecidedMajority ==
    \A m \in IDs : MatchSessions[m] # None =>
        \A b \in Ballot :
            ~ HasMajority(Cardinality(Voters(m, b)), MatchSessions[m].roster)

\* The coins that can be spent, are staked or are in a pool.
Purse == [p \in Accounts |-> IF Balances[p] > 0 THEN Balances[p] ELSE 0]
Pot == [k \in IDs |-> IF ActivePools[k] = None THEN 0 ELSE ActivePools[k].total]
Coins == SumFunction(Purse) + SumFunction(StakedEDN) + SumFunction(Pot)

\* There are never more coins than were issued: as long as no amount is
\* negative, transfers, stakes, bets, refunds, slashing and validator payouts
\* create none, and what a convicted debtor is let off was never spendable.
SupplyBounded == ~ negative => Coins <= SumFunction(Endowment) + issued

\* As long as no amount is negative, coins come into being in two ways: by a
\* block of SYSTEM_MINT or SYSTEM_PAYOUT, which numbers no account, and when a
\* match closes on a ballot of the sender that a majority of its roster is
\* behind.
CoinsNeedMajority ==
    [][~ negative' /\ Coins' > Coins =>
         \/ AccountNonces' = AccountNonces
         \/ \E m \in Matches, b \in Ballot, p \in Accounts :
               /\ AccountNonces'[p] # AccountNonces[p]
               /\ IsParticipant(p, m)
               /\ MatchSessions'[m] = None
               /\ HasMajority(Cardinality({q \in ToSet(MatchSessions[m].roster) :
                                              q = p \/ MatchVotes[m][q] = b}),
                              MatchSessions[m].roster)]_vars

\* processBet's second debit can leave a bettor in debt.  As long as no amount
\* is negative, one of the bets he still has in a pool covers the debt, also
\* when others of his bets have gone back to him.
DebtIsOneOpenBet ==
    ~ negative =>
        \A p \in Accounts \ System :
            \/ Balances[p] >= 0
            \/ \E k \in IDs :
                  /\ ActivePools[k] # None
                  /\ \E i \in DOMAIN ActivePools[k].bets :
                        /\ ActivePools[k].bets[i].bettor = p
                        /\ Balances[p] >= - ActivePools[k].bets[i].amount

\* What the bets of p in a list come to.
Wagered(p, bets) ==
    FoldLeft(LAMBDA sum, bet : IF bet.bettor = p THEN sum + bet.amount ELSE sum,
             0, bets)

\* A bet stays in its pool until the pool goes as a whole, when the match
\* whose ID the pool is filed under closes; then everybody but the host and
\* the sender has his own bets back, negative ones included, and no more: nobody
\* ever wins another's bet.
BetsOnlyReturned ==
    [][\A k \in IDs : ActivePools[k] # None =>
         LET bets == ActivePools[k].bets
         IN  \/ /\ ActivePools'[k] # None
                /\ IsPrefix(bets, ActivePools'[k].bets)
             \/ /\ ActivePools'[k] = None
                /\ MatchSessions[k] # None /\ MatchSessions'[k] = None
                /\ \A p \in Accounts \ {MatchSessions[k].host} :
                      AccountNonces'[p] = AccountNonces[p] =>
                          Balances'[p] = Balances[p] + Wagered(p, bets)]_vars

\* What the README says of bets, "automated payouts [...] upon match
\* resolution": a match that closes leaves no bet on one of its teams behind.
BetsAreSettled ==
    [][\A m \in Matches : MatchSessions[m] # None /\ MatchSessions'[m] = None =>
         \A t \in Teams : ActivePools'[<<m, t>>] = None]_vars

\* A stake shrinks only by a negative STAKE_FUNDS of its owner, which touches
\* no other stake and no case, or by a verdict against the ballot its owner
\* has in a case that closes in that step, with more stake behind the verdict.
SlashOnlyOnVerdict ==
    [][\A p \in Accounts : StakedEDN'[p] < StakedEDN[p] =>
         \/ /\ negative' /\ TribunalVotes' = TribunalVotes
            /\ \A q \in Accounts \ {p} : StakedEDN'[q] = StakedEDN[q]
         \/ \E c \in Case :
               /\ TribunalVotes'[c] = NoVotes
               /\ TribunalVotes[c] # NoVotes
               /\ \E q \in Accounts, v \in Verdict :
                     LET ballots == [TribunalVotes[c] EXCEPT ![q] = v]
                     IN  /\ ballots[p] # None
                         /\ \E w \in Verdict \ {ballots[p]} :
                               /\ Decides(ballots, w)
                               /\ Total(StakedEDN, Side(ballots, w)) >
                                    Total(StakedEDN, Side(ballots, ballots[p]))
      ]_vars
=============================================================================
