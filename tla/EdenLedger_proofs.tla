-------------------------- MODULE EdenLedger_proofs --------------------------
(* The safety of EdenLedger for every set of accounts, matches and         *)
(* rosters, amounts of either sign and any choice of system accounts.      *)
EXTENDS EdenLedger, EdenFolds, FiniteSetTheorems, SequenceTheorems, TLAPS

-----------------------------------------------------------------------------
(* Folds over the bets of a pool.                                          *)

\* What holds of the empty list, and of a list with one element more when it
\* holds of the list, holds of every list.
LEMMA ListInduction ==
  ASSUME NEW B, NEW Good, << >> \in Good,
         \A s \in Seq(B), b \in B : s \in Good => Append(s, b) \in Good
  PROVE  \A s \in Seq(B) : s \in Good
<1> DEFINE Bad == {s \in Seq(B) : s \notin Good}
           T == {Len(s) : s \in Bad}
<1> SUFFICES ASSUME Bad # {} PROVE FALSE
  OBVIOUS
<1>1. T \in SUBSET Nat /\ T # {}
  OBVIOUS
<1>2. PICK n \in T : \A k \in T : n <= k
  BY <1>1, LeastNatural, Zenon
<1>3. PICK s \in Bad : n = Len(s)
  OBVIOUS
<1>4. s \in Seq(B) /\ s # << >>
  OBVIOUS
<1>5. PICK t \in Seq(B), b \in B : s = Append(t, b)
  BY <1>4, SequenceEmptyOrAppend
<1>6. t \notin Good
  BY <1>3, <1>5
<1>7. Len(t) \in T /\ Len(t) < n
  BY <1>3, <1>5, <1>6
<1>8. n \in Nat /\ Len(t) \in Nat
  BY <1>1
<1>9. n <= Len(t)
  BY <1>2, <1>7, Zenon
<1> HIDE DEF T, Bad
<1> QED BY <1>7, <1>8, <1>9

\* Giving bets back goes bet by bet.
LEMMA RefundedFold ==
  ASSUME NEW b \in [Accounts -> Int]
  PROVE  /\ Refunded(b, << >>) = b
         /\ \A s \in Seq(Bets) : Refunded(b, s) \in [Accounts -> Int]
         /\ \A s \in Seq(Bets), x \in Bets :
               Refunded(b, Append(s, x))
                 = Credit(Refunded(b, s), x.bettor, x.amount)
<1> DEFINE A == [Accounts -> Int]
           op(acc, x) == Credit(acc, x.bettor, x.amount)
           G == [y \in A \X Bets |-> op(y[1], y[2])]
           body(it, s) == [U \in SUBSET DOMAIN s |->
                             IF U = {} THEN b
                             ELSE op(it[U \ {Max(U)}], s[Max(U)])]
<1>1. G \in [A \X Bets -> A]
  <2> SUFFICES ASSUME NEW a \in A, NEW x \in Bets PROVE op(a, x) \in A
    OBVIOUS
  <2>1. x.bettor \in Accounts /\ x.amount \in Int
    BY DEF Bets
  <2> QED BY <2>1 DEF Credit
<1>2. \A a \in A, x \in Bets : G[a, x] = op(a, x)
  OBVIOUS
<1>0. b \in A
  OBVIOUS
<1> HIDE DEF G, A
<1>3. PICK F : IsLeftFold(F, A, Bets, b, G)
  BY <1>0, <1>1, LeftFold, Zenon
<1>4. ASSUME NEW s \in Seq(Bets) PROVE Refunded(b, s) = F[s]
  <2>1. \A U \in SUBSET DOMAIN s :
           U # {} => Max(U) \in DOMAIN s /\ s[Max(U)] \in Bets
    BY NextElement
  <2>2. PICK jt \in [SUBSET DOMAIN s -> A] : RunsOver(jt, s, A, b, G)
    BY <1>3 DEF IsLeftFold
  <2>3. jt = body(jt, s)
    <3> HIDE DEF op
    <3> QED BY <2>1, <2>2, <1>2 DEF RunsOver
  <2> DEFINE it == CHOOSE it : it = body(it, s)
  <2>4. it = body(it, s)
    BY <2>3, Zenon
  <2>5. Refunded(b, s) = it[DOMAIN s]
    BY DEF Refunded, FoldLeft, MapThenFoldSet
  <2> HIDE DEF it, op
  <2>6. RunsOver(it, s, A, b, G)
    BY <2>1, <2>4, <1>2 DEF RunsOver
  <2> QED BY <2>5, <2>6, <1>3 DEF IsLeftFold
<1>5. << >> \in Seq(Bets)
  OBVIOUS
<1>6. F[<< >>] = b
  BY <1>3, Zenon DEF IsLeftFold
<1>7. ASSUME NEW s \in Seq(Bets) PROVE F[s] \in A
  BY <1>3 DEF IsLeftFold
<1>8. ASSUME NEW s \in Seq(Bets), NEW x \in Bets
      PROVE  F[Append(s, x)] = G[F[s], x]
  BY <1>3, Zenon DEF IsLeftFold
<1>9. ASSUME NEW s \in Seq(Bets), NEW x \in Bets
      PROVE  Refunded(b, Append(s, x)) = op(Refunded(b, s), x)
  <2>1. Append(s, x) \in Seq(Bets)
    OBVIOUS
  <2>2. Refunded(b, Append(s, x)) = F[Append(s, x)] /\ Refunded(b, s) = F[s]
    BY <2>1, <1>4
  <2>3. G[F[s], x] = op(F[s], x)
    <3> HIDE DEF op
    <3> QED BY <1>2, <1>7
  <2> HIDE DEF op
  <2> QED BY <2>2, <2>3, <1>8
<1>10. ASSUME NEW s \in Seq(Bets) PROVE Refunded(b, s) \in [Accounts -> Int]
  BY <1>4, <1>7 DEF A
<1>11. Refunded(b, << >>) = b
  BY <1>4, <1>5, <1>6, Zenon
<1> QED BY <1>9, <1>10, <1>11, Zenon

\* What the bets of an account, or of everybody, come to is a sum bet by bet.
LEMMA WageredFold ==
  ASSUME NEW p
  PROVE  /\ Wagered(p, << >>) = 0
         /\ \A s \in Seq(Bets) : Wagered(p, s) \in Int
         /\ \A s \in Seq(Bets), x \in Bets :
               Wagered(p, Append(s, x))
                 = IF x.bettor = p THEN Wagered(p, s) + x.amount
                                   ELSE Wagered(p, s)
<1> DEFINE op(acc, x) == IF x.bettor = p THEN acc + x.amount ELSE acc
           G == [y \in Int \X Bets |-> op(y[1], y[2])]
           body(it, s) == [U \in SUBSET DOMAIN s |->
                             IF U = {} THEN 0
                             ELSE op(it[U \ {Max(U)}], s[Max(U)])]
<1>1. G \in [Int \X Bets -> Int] /\ 0 \in Int
  <2> SUFFICES ASSUME NEW a \in Int, NEW x \in Bets PROVE op(a, x) \in Int
    OBVIOUS
  <2>1. x.amount \in Int
    BY DEF Bets
  <2> QED BY <2>1
<1>2. \A a \in Int, x \in Bets : G[a, x] = op(a, x)
  OBVIOUS
<1> HIDE DEF G, op
<1>3. PICK F : IsLeftFold(F, Int, Bets, 0, G)
  BY <1>1, LeftFold, Zenon
<1>4. ASSUME NEW s \in Seq(Bets) PROVE Wagered(p, s) = F[s]
  <2>1. \A U \in SUBSET DOMAIN s :
           U # {} => Max(U) \in DOMAIN s /\ s[Max(U)] \in Bets
    BY NextElement
  <2>2. PICK jt \in [SUBSET DOMAIN s -> Int] : RunsOver(jt, s, Int, 0, G)
    BY <1>3 DEF IsLeftFold
  <2>3. jt = body(jt, s)
    BY <2>1, <2>2, <1>2 DEF RunsOver
  <2> DEFINE it == CHOOSE it : it = body(it, s)
  <2>4. it = body(it, s)
    BY <2>3, Zenon
  <2>5. Wagered(p, s) = it[DOMAIN s]
    BY DEF Wagered, FoldLeft, MapThenFoldSet, op
  <2> HIDE DEF it
  <2>6. RunsOver(it, s, Int, 0, G)
    BY <2>1, <2>4, <1>2 DEF RunsOver
  <2> QED BY <2>5, <2>6, <1>3 DEF IsLeftFold
<1>5. << >> \in Seq(Bets)
  OBVIOUS
<1>6. F[<< >>] = 0
  BY <1>3, Zenon DEF IsLeftFold
<1>7. ASSUME NEW s \in Seq(Bets) PROVE F[s] \in Int
  BY <1>3 DEF IsLeftFold
<1>8. ASSUME NEW s \in Seq(Bets), NEW x \in Bets
      PROVE  F[Append(s, x)] = G[F[s], x]
  BY <1>3, Zenon DEF IsLeftFold
<1>9. ASSUME NEW s \in Seq(Bets), NEW x \in Bets
      PROVE  Wagered(p, Append(s, x)) = op(Wagered(p, s), x)
  <2>1. Append(s, x) \in Seq(Bets)
    OBVIOUS
  <2>2. Wagered(p, Append(s, x)) = F[Append(s, x)] /\ Wagered(p, s) = F[s]
    BY <2>1, <1>4
  <2>3. G[F[s], x] = op(F[s], x)
    BY <1>2, <1>7
  <2> QED BY <2>2, <2>3, <1>8
<1>10. ASSUME NEW s \in Seq(Bets) PROVE Wagered(p, s) \in Int
  BY <1>4, <1>7
<1>11. Wagered(p, << >>) = 0
  BY <1>4, <1>5, <1>6, Zenon
<1> QED BY <1>9, <1>10, <1>11, Zenon DEF op

\* Everybody gets what his own bets come to.
LEMMA RefundedIs ==
  ASSUME NEW b \in [Accounts -> Int], NEW s \in Seq(Bets)
  PROVE  \A q \in Accounts : Refunded(b, s)[q] = b[q] + Wagered(q, s)
<1> DEFINE Holds(t) == \A q \in Accounts : Refunded(b, t)[q] = b[q] + Wagered(q, t)
           Good == {t \in Seq(Bets) : Holds(t)}
<1>1. << >> \in Good
  <2>1. << >> \in Seq(Bets)
    OBVIOUS
  <2>2. \A q \in Accounts : Wagered(q, << >>) = 0 /\ b[q] \in Int
    BY WageredFold
  <2>3. Holds(<< >>)
    BY <2>2, RefundedFold
  <2> QED BY <2>1, <2>3
<1>2. ASSUME NEW t \in Seq(Bets), NEW x \in Bets, t \in Good
      PROVE  Append(t, x) \in Good
  <2>1. Append(t, x) \in Seq(Bets)
    OBVIOUS
  <2>2. x.bettor \in Accounts /\ x.amount \in Int
    BY DEF Bets
  <2>3. Refunded(b, t) \in [Accounts -> Int]
    BY RefundedFold
  <2>4. Refunded(b, Append(t, x)) = Credit(Refunded(b, t), x.bettor, x.amount)
    BY RefundedFold
  <2>5. ASSUME NEW q \in Accounts
        PROVE  Refunded(b, Append(t, x))[q] = b[q] + Wagered(q, Append(t, x))
    <3> DEFINE u == Wagered(q, t)
               r == Refunded(b, t)
    <3>1. /\ u \in Int
          /\ Wagered(q, Append(t, x))
               = IF x.bettor = q THEN u + x.amount ELSE u
      BY WageredFold
    <3>2. r[q] = b[q] + u /\ b[q] \in Int /\ r \in [Accounts -> Int]
      BY <1>2, <2>3
    <3> HIDE DEF u, r
    <3>3. Credit(r, x.bettor, x.amount)[q]
             = IF x.bettor = q THEN r[q] + x.amount ELSE r[q]
      BY <3>2, <2>2 DEF Credit
    <3> QED BY <3>1, <3>2, <3>3, <2>2, <2>4 DEF r
  <2> QED BY <2>1, <2>5
<1>3. \A t \in Seq(Bets) : t \in Good
  <2> HIDE DEF Good
  <2> QED BY <1>1, <1>2, ListInduction
<1> QED BY <1>3

\* Where no bet is negative, a bet is part of what its bettor has in the list.
LEMMA WageredCovers ==
  ASSUME NEW s \in Seq(Bets), \A i \in DOMAIN s : s[i].amount >= 0, NEW p
  PROVE  /\ Wagered(p, s) \in Nat
         /\ \A i \in DOMAIN s :
               s[i].bettor = p => Wagered(p, s) >= s[i].amount
<1> DEFINE Sound(t) == \A i \in DOMAIN t : t[i].amount >= 0
           Holds(t) == /\ Wagered(p, t) \in Nat
                       /\ \A i \in DOMAIN t :
                             t[i].bettor = p => Wagered(p, t) >= t[i].amount
           Good == {t \in Seq(Bets) : Sound(t) => Holds(t)}
<1>1. << >> \in Good
  BY WageredFold
<1>2. ASSUME NEW t \in Seq(Bets), NEW x \in Bets, t \in Good
      PROVE  Append(t, x) \in Good
  <2> DEFINE n == Append(t, x)
             u == Wagered(p, t)
  <2>1. /\ n \in Seq(Bets) /\ Len(n) = Len(t) + 1 /\ DOMAIN n = 1 .. (Len(t) + 1)
        /\ DOMAIN t = 1 .. Len(t) /\ Len(t) \in Nat
        /\ n[Len(t) + 1] = x /\ \A i \in 1 .. Len(t) : n[i] = t[i]
    OBVIOUS
  <2>2. x.amount \in Int /\ \A i \in DOMAIN t : t[i].amount \in Int
    <3>1. \A y \in Bets : y.amount \in Int
      BY DEF Bets
    <3>2. \A i \in DOMAIN t : t[i] \in Bets
      OBVIOUS
    <3> QED BY <3>1, <3>2
  <2>3. Wagered(p, n) = IF x.bettor = p THEN u + x.amount ELSE u
    BY WageredFold
  <2> HIDE DEF n, u
  <2>4. ASSUME Sound(n) PROVE Holds(n)
    <3>1. x.amount >= 0
      BY <2>1, <2>4
    <3>2. Sound(t)
      BY <2>1, <2>4
    <3>3. Holds(t)
      BY <3>2, <1>2
    <3>4. u \in Nat /\ \A i \in 1 .. Len(t) : t[i].bettor = p => u >= t[i].amount
      BY <3>3, <2>1 DEF u
    <3>5. Wagered(p, n) \in Nat /\ Wagered(p, n) >= u
      BY <2>2, <2>3, <3>1, <3>4
    <3>6. ASSUME NEW i \in DOMAIN n, n[i].bettor = p
          PROVE  Wagered(p, n) >= n[i].amount
      <4>1. CASE i = Len(t) + 1
        BY <4>1, <2>1, <2>2, <2>3, <3>1, <3>4, <3>6
      <4>2. CASE i # Len(t) + 1
        <5>1. i \in 1 .. Len(t) /\ n[i] = t[i]
          BY <4>2, <2>1
        <5>2. u >= t[i].amount /\ t[i].amount \in Int
          BY <5>1, <3>4, <3>6, <2>1, <2>2
        <5> QED BY <5>1, <5>2, <3>4, <3>5
      <4> QED BY <4>1, <4>2
    <3> QED BY <3>5, <3>6
  <2> QED BY <2>1, <2>4 DEF n
<1>3. \A t \in Seq(Bets) : t \in Good
  <2> HIDE DEF Good
  <2> QED BY <1>1, <1>2, ListInduction
<1> QED BY <1>3

\* What each account has in a list of bets.
Shares(bets) == [p \in Accounts |-> Wagered(p, bets)]

\* The shares of a list add up bet by bet.
LEMMA SharesAppend ==
  ASSUME NEW s \in Seq(Bets), NEW x \in Bets
  PROVE  /\ Shares(s) \in [Accounts -> Int] /\ SumFunction(Shares(s)) \in Int
         /\ SumFunction(Shares(Append(s, x)))
               = SumFunction(Shares(s)) + x.amount
         /\ SumFunction(Shares(<< >>)) = 0
<1> DEFINE f == Shares(s)
           g == Shares(Append(s, x))
           p == x.bettor
           d == x.amount
<1>1. p \in Accounts /\ d \in Int
  BY DEF Bets
<1>2. f \in [Accounts -> Int] /\ SumFunction(f) \in Int
  <2>1. f \in [Accounts -> Int]
    BY WageredFold DEF Shares
  <2> HIDE DEF f
  <2> QED BY <2>1, AccountsFinite, SumType
<1>3. ASSUME NEW q \in Accounts PROVE g[q] = IF q = p THEN f[p] + d ELSE f[q]
  <2>1. g[q] = Wagered(q, Append(s, x)) /\ f[q] = Wagered(q, s)
    BY DEF Shares
  <2>2. Wagered(q, Append(s, x)) = IF x.bettor = q THEN Wagered(q, s) + x.amount
                                   ELSE Wagered(q, s)
    BY WageredFold
  <2> QED BY <2>1, <2>2
<1>4. g \in [Accounts -> Int]
  <2>1. Append(s, x) \in Seq(Bets)
    OBVIOUS
  <2> QED BY <2>1, WageredFold DEF Shares
<1> HIDE DEF f, g, p, d
<1>5. g = [f EXCEPT ![p] = f[p] + d]
  <2>1. f[p] + d \in Int
    BY <1>1, <1>2
  <2> QED BY <1>1, <1>2, <1>3, <1>4, <2>1
<1>6. SumFunction(g) = SumFunction(f) - f[p] + (f[p] + d)
  <2>1. f[p] + d \in Int
    BY <1>1, <1>2
  <2> QED BY <1>1, <1>2, <1>5, <2>1, AccountsFinite, SumChange
<1>7. SumFunction(g) = SumFunction(f) + d
  <2>1. f[p] \in Int
    BY <1>1, <1>2
  <2> QED BY <1>1, <1>2, <1>6, <2>1
<1>8. SumFunction(Shares(<< >>)) = 0
  <2>1. \A q \in Accounts : Shares(<< >>)[q] = 0
    BY WageredFold DEF Shares
  <2>2. Shares(<< >>) \in [Accounts -> Int]
    BY WageredFold DEF Shares
  <2> QED BY <2>1, <2>2, AccountsFinite, SumZero
<1> QED BY <1>2, <1>7, <1>8 DEF f, g, d

-----------------------------------------------------------------------------
(* The inductive invariant.                                                *)

(* What can be spent is not the sum of the wallets: a bet is debited twice *)
(* and pooled once, and a conviction wipes out what the suspect owes.  A   *)
(* wallet in debt counts as an empty one.                                  *)

Positive(x) == IF x > 0 THEN x ELSE 0

Funds(b) == [p \in Accounts |-> Positive(b[p])]

Pots(pools) == [k \in IDs |-> IF pools[k] = None THEN 0 ELSE pools[k].total]

\* A pool has no bet on a team, and its total is the sum of its bets.
AddsUp(pools) ==
    \A k \in IDs : pools[k] # None =>
        /\ pools[k].teamA = 0 /\ pools[k].teamB = 0
        /\ pools[k].total = SumFunction(Shares(pools[k].bets))

BetsPositive(pools) ==
    \A k \in IDs : pools[k] # None =>
        \A i \in DOMAIN pools[k].bets : pools[k].bets[i].amount >= 0

StakesPositive(stakes) == \A p \in Accounts : stakes[p] >= 0

\* Every wallet in debt has a bet in a pool that is as large.
Covered(b, pools) ==
    \A p \in Accounts \ System :
        \/ b[p] >= 0
        \/ \E k \in IDs :
              /\ pools[k] # None
              /\ \E i \in DOMAIN pools[k].bets :
                    /\ pools[k].bets[i].bettor = p
                    /\ b[p] >= - pools[k].bets[i].amount

MatchesSound == SessionsHaveVotes /\ VotersInRoster /\ NoUndecidedMajority

MoneySound ==
    ~ negative =>
        /\ StakesPositive(StakedEDN)
        /\ BetsPositive(ActivePools)
        /\ Covered(Balances, ActivePools)
        /\ Coins <= SumFunction(Endowment) + issued

(* NoUndecidedMajority needs the other match invariants to know what a     *)
(* vote map holds.  That a refund makes no coin and leaves no debt behind  *)
(* needs AddsUp, which also says that no bet is on a team, so that a       *)
(* settlement is a refund.                                                 *)
IInv ==
    /\ TypeOK
    /\ MatchesSound
    /\ AddsUp(ActivePools)
    /\ MoneySound

-----------------------------------------------------------------------------
(* Wallets.                                                                *)

\* Crediting one wallet leaves integer balances integer.
LEMMA CreditTyped ==
  ASSUME NEW b \in [Accounts -> Int], NEW p \in Accounts, NEW x \in Int
  PROVE  /\ Credit(b, p, x) \in [Accounts -> Int]
         /\ Credit(b, p, x)[p] = b[p] + x
         /\ \A q \in Accounts : q # p => Credit(b, p, x)[q] = b[q]
BY DEF Credit

\* A wallet's funds are its positive part.
LEMMA FundsTyped ==
  ASSUME NEW b \in [Accounts -> Int]
  PROVE  /\ Funds(b) \in [Accounts -> Int]
         /\ SumFunction(Funds(b)) \in Int
<1>1. Funds(b) \in [Accounts -> Int]
  BY DEF Funds, Positive
<1>2. SumFunction(Funds(b)) \in Int
  BY <1>1, AccountsFinite, SumType
<1> QED BY <1>1, <1>2

\* Changing one wallet changes the sum of the funds by as much.
LEMMA FundsChange ==
  ASSUME NEW b \in [Accounts -> Int], NEW p \in Accounts, NEW d \in Int
  PROVE  SumFunction(Funds([b EXCEPT ![p] = d]))
            = SumFunction(Funds(b)) - Positive(b[p]) + Positive(d)
<1>1. Funds(b) \in [Accounts -> Int] /\ Funds(b)[p] = Positive(b[p])
  BY DEF Funds, Positive
<1>2. Positive(d) \in Int
  BY DEF Positive
<1>3. Funds([b EXCEPT ![p] = d]) = [Funds(b) EXCEPT ![p] = Positive(d)]
  BY DEF Funds
<1> DEFINE g == Funds(b)
           h == Funds([b EXCEPT ![p] = d])
<1>4. /\ g \in [Accounts -> Int] /\ h = [g EXCEPT ![p] = Positive(d)]
      /\ g[p] = Positive(b[p])
  BY <1>1, <1>3
<1> HIDE DEF g, h
<1>5. SumFunction(h) = SumFunction(g) - g[p] + Positive(d)
  BY <1>2, <1>4, AccountsFinite, SumChange
<1> QED BY <1>4, <1>5 DEF g, h

\* A credit adds at most its amount to the funds; a debit takes nothing less
\* than nothing out of them, and all of its amount when the wallet has it.
LEMMA CreditFunds ==
  ASSUME NEW b \in [Accounts -> Int], NEW p \in Accounts, NEW x \in Nat
  PROVE  /\ SumFunction(Funds(Credit(b, p, x))) <= SumFunction(Funds(b)) + x
         /\ SumFunction(Funds(Credit(b, p, -x))) <= SumFunction(Funds(b))
         /\ b[p] >= x => SumFunction(Funds(Credit(b, p, -x)))
                           = SumFunction(Funds(b)) - x
<1> DEFINE s == SumFunction(Funds(b))
<1>1. b[p] + x \in Int /\ b[p] + (-x) \in Int /\ b[p] \in Int /\ s \in Int
  BY FundsTyped
<1>2. /\ Credit(b, p, x) = [b EXCEPT ![p] = b[p] + x]
      /\ Credit(b, p, -x) = [b EXCEPT ![p] = b[p] + (-x)]
  BY DEF Credit
<1>3. /\ SumFunction(Funds(Credit(b, p, x)))
            = s - Positive(b[p]) + Positive(b[p] + x)
      /\ SumFunction(Funds(Credit(b, p, -x)))
            = s - Positive(b[p]) + Positive(b[p] + (-x))
  <2> DEFINE d == b[p] + x
             e == b[p] + (-x)
  <2> HIDE DEF d, e
  <2>1. d \in Int /\ e \in Int
    BY <1>1 DEF d, e
  <2>2. /\ SumFunction(Funds([b EXCEPT ![p] = d]))
              = s - Positive(b[p]) + Positive(d)
        /\ SumFunction(Funds([b EXCEPT ![p] = e]))
              = s - Positive(b[p]) + Positive(e)
    BY <2>1, FundsChange
  <2> QED BY <1>2, <2>2 DEF d, e
<1>4. /\ s - Positive(b[p]) + Positive(b[p] + x) <= s + x
      /\ s - Positive(b[p]) + Positive(b[p] + (-x)) <= s
      /\ b[p] >= x => s - Positive(b[p]) + Positive(b[p] + (-x)) = s - x
  <2> HIDE DEF s
  <2> QED BY <1>1 DEF Positive
<1> QED BY <1>3, <1>4

\* The generic debit: no wallet that is no system account's is left in debt
\* by it, and it makes no funds.
LEMMA PaidIs ==
  ASSUME TypeOK, NEW p \in Accounts, NEW x \in Int,
         p \in System \/ Balances[p] >= x
  PROVE  /\ Paid(p, x) \in [Accounts -> Int]
         /\ x >= 0 =>
              /\ \A q \in Accounts \ System :
                    Paid(p, x)[q] >= 0 \/ Paid(p, x)[q] >= Balances[q]
              /\ SumFunction(Funds(Paid(p, x))) <= SumFunction(Funds(Balances))
              /\ p \notin System =>
                    SumFunction(Funds(Paid(p, x)))
                      = SumFunction(Funds(Balances)) - x
<1>1. Balances \in [Accounts -> Int]
  BY DEF TypeOK
<1>2. SumFunction(Funds(Balances)) \in Int
  BY <1>1, FundsTyped
<1>3. CASE p \in System
  <2>1. Paid(p, x) = Balances
    BY <1>3 DEF Paid
  <2> QED BY <1>1, <1>2, <1>3, <2>1
<1>4. CASE p \notin System
  <2>1. Paid(p, x) = Credit(Balances, p, -x)
    BY <1>4 DEF Paid
  <2>2. -x \in Int /\ Balances[p] \in Int /\ Balances[p] >= x
    BY <1>1, <1>4
  <2>3. /\ Paid(p, x) \in [Accounts -> Int]
        /\ Paid(p, x)[p] = Balances[p] + (-x)
        /\ \A q \in Accounts : q # p => Paid(p, x)[q] = Balances[q]
    <3> DEFINE y == -x
    <3>1. y \in Int
      OBVIOUS
    <3> HIDE DEF y
    <3>2. /\ Credit(Balances, p, y) \in [Accounts -> Int]
          /\ Credit(Balances, p, y)[p] = Balances[p] + y
          /\ \A q \in Accounts : q # p => Credit(Balances, p, y)[q] = Balances[q]
      BY <1>1, <3>1, CreditTyped
    <3> QED BY <2>1, <3>2 DEF y
  <2>4. ASSUME x >= 0, NEW q \in Accounts
        PROVE  Paid(p, x)[q] >= 0 \/ Paid(p, x)[q] >= Balances[q]
    <3>1. Balances[q] \in Int
      BY <1>1
    <3>2. CASE q = p
      <4>1. Balances[p] + (-x) >= 0
        BY <2>2
      <4> QED BY <2>3, <3>2, <4>1
    <3>3. CASE q # p
      BY <2>3, <3>1, <3>3
    <3> QED BY <3>2, <3>3
  <2>5. ASSUME x >= 0
        PROVE  SumFunction(Funds(Paid(p, x))) = SumFunction(Funds(Balances)) - x
    <3>1. x \in Nat
      BY <2>5
    <3> QED BY <1>1, <2>1, <2>2, <3>1, CreditFunds
  <2> QED BY <1>2, <1>4, <2>3, <2>4, <2>5
<1> QED BY <1>3, <1>4

\* A wallet that does not sink, or that is not in debt, stays covered.
LEMMA CoveredFrame ==
  ASSUME NEW pools \in [IDs -> Pool \cup {None}],
         NEW b \in [Accounts -> Int], NEW c \in [Accounts -> Int],
         Covered(b, pools),
         \A p \in Accounts \ System : c[p] >= 0 \/ c[p] >= b[p]
  PROVE  Covered(c, pools)
<1> SUFFICES ASSUME NEW p \in Accounts \ System, ~ (c[p] >= 0)
             PROVE  \E k \in IDs :
                      /\ pools[k] # None
                      /\ \E i \in DOMAIN pools[k].bets :
                            /\ pools[k].bets[i].bettor = p
                            /\ c[p] >= - pools[k].bets[i].amount
  BY DEF Covered
<1>1. b[p] \in Int /\ c[p] \in Int
  OBVIOUS
<1>2. c[p] >= b[p] /\ ~ (b[p] >= 0)
  BY <1>1
<1>3. PICK k \in IDs :
         /\ pools[k] # None
         /\ \E i \in DOMAIN pools[k].bets :
               /\ pools[k].bets[i].bettor = p
               /\ b[p] >= - pools[k].bets[i].amount
  BY <1>2 DEF Covered
<1>4. PICK i \in DOMAIN pools[k].bets :
         /\ pools[k].bets[i].bettor = p
         /\ b[p] >= - pools[k].bets[i].amount
  BY <1>3
<1>5. pools[k].bets \in Seq(Bets)
  BY <1>3 DEF Pool
<1>6. pools[k].bets[i].amount \in Int
  <2>1. pools[k].bets[i] \in Bets
    BY <1>5
  <2> QED BY <2>1 DEF Bets
<1>7. c[p] >= - pools[k].bets[i].amount
  BY <1>1, <1>2, <1>4, <1>6
<1> QED BY <1>3, <1>4, <1>7

-----------------------------------------------------------------------------
(* Pools.                                                                  *)

\* There are finitely many pools, and their totals are numbers.
LEMMA PotsTyped ==
  ASSUME NEW pools \in [IDs -> Pool \cup {None}]
  PROVE  /\ IsFiniteSet(IDs)
         /\ Pots(pools) \in [IDs -> Int]
         /\ SumFunction(Pots(pools)) \in Int
<1>1. IsFiniteSet(Teams)
  <2>1. IsFiniteSet({TeamA}) /\ IsFiniteSet({TeamB})
    BY FS_Singleton
  <2>2. Teams = {TeamA} \cup {TeamB}
    BY DEF Teams
  <2> QED BY <2>1, <2>2, FS_Union
<1>2. IsFiniteSet(IDs)
  BY <1>1, AccountsFinite, FS_Product, FS_Union DEF IDs
<1>3. Pots(pools) \in [IDs -> Int]
  BY DEF Pots, Pool
<1> QED BY <1>2, <1>3, SumType

\* Taking a pool away takes its total out of the pots.
LEMMA PotsWithout ==
  ASSUME NEW pools \in [IDs -> Pool \cup {None}], NEW m \in IDs
  PROVE  /\ Pots(pools)[m] \in Int
         /\ SumFunction(Pots([pools EXCEPT ![m] = None]))
              = SumFunction(Pots(pools)) - Pots(pools)[m]
<1> DEFINE f == Pots(pools)
           h == Pots([pools EXCEPT ![m] = None])
<1>1. /\ IsFiniteSet(IDs) /\ f \in [IDs -> Int] /\ SumFunction(f) \in Int
  BY PotsTyped
<1>2. h = [f EXCEPT ![m] = 0]
  BY DEF Pots
<1>3. f[m] \in Int
  BY <1>1
<1> DEFINE d == 0
<1>5. d \in Int /\ h = [f EXCEPT ![m] = d]
  BY <1>2
<1> HIDE DEF f, h, d
<1>4. SumFunction(h) = SumFunction(f) - f[m] + d
  BY <1>1, <1>5, SumChange
<1>6. SumFunction(h) = SumFunction(f) - f[m]
  BY <1>1, <1>3, <1>4 DEF d
<1> QED BY <1>3, <1>6 DEF f, h

\* Settling a pool without a bet on a team gives every bet back, as an abort
\* does.
LEMMA SettledIsRefund ==
  ASSUME AddsUp(ActivePools), NEW m \in IDs, NEW b, NEW w
  PROVE  Settled(b, m, w) = AfterAbort(b, m)
<1>1. CASE ActivePools[m] = None
  BY <1>1, Zenon DEF Settled, AfterAbort
<1>2. CASE ActivePools[m] # None
  <2>1. ActivePools[m].teamA = 0 /\ ActivePools[m].teamB = 0
    BY <1>2 DEF AddsUp
  <2>2. (IF w = TeamA THEN ActivePools[m].teamA ELSE ActivePools[m].teamB) = 0
    BY <2>1
  <2> QED BY <1>2, <2>2, Zenon DEF Settled, AfterAbort
<1> QED BY <1>1, <1>2

\* What a refund pays comes out of the pool.
LEMMA AfterAbortIs ==
  ASSUME TypeOK, AddsUp(ActivePools), NEW m \in IDs,
         NEW b \in [Accounts -> Int]
  PROVE  /\ AfterAbort(b, m) \in [Accounts -> Int]
         /\ ActivePools[m] # None =>
              \A q \in Accounts : AfterAbort(b, m)[q]
                                    = b[q] + Wagered(q, ActivePools[m].bets)
         /\ BetsPositive(ActivePools) =>
              /\ \A q \in Accounts : AfterAbort(b, m)[q] >= b[q]
              /\ SumFunction(Funds(AfterAbort(b, m)))
                   <= SumFunction(Funds(b)) + Pots(ActivePools)[m]
<1> DEFINE s == ActivePools[m].bets
           c == AfterAbort(b, m)
<1>0. SumFunction(Funds(b)) \in Int /\ \A q \in Accounts : b[q] \in Int
  BY FundsTyped
<1>1. CASE ActivePools[m] = None
  <2>1. c = b /\ Pots(ActivePools)[m] = 0
    BY <1>1 DEF AfterAbort, Pots
  <2> QED BY <1>0, <1>1, <2>1
<1>2. CASE ActivePools[m] # None
  <2>1. s \in Seq(Bets)
    BY <1>2 DEF TypeOK, Pool
  <2>2. c = Refunded(b, s)
    BY <1>2 DEF AfterAbort
  <2>3. Pots(ActivePools)[m] = SumFunction(Shares(s))
    BY <1>2 DEF Pots, AddsUp
  <2> HIDE DEF s, c
  <2>4. c \in [Accounts -> Int]
    BY <2>1, <2>2, RefundedFold
  <2>5. \A q \in Accounts : c[q] = b[q] + Wagered(q, s)
    BY <2>1, <2>2, RefundedIs
  <2>6. ASSUME BetsPositive(ActivePools)
        PROVE  /\ \A q \in Accounts : c[q] >= b[q]
               /\ SumFunction(Funds(c)) <= SumFunction(Funds(b))
                                             + SumFunction(Shares(s))
    <3>1. \A i \in DOMAIN s : s[i].amount >= 0
      BY <1>2, <2>6 DEF BetsPositive, s
    <3>2. \A q \in Accounts : Wagered(q, s) \in Nat
      BY <2>1, <3>1, WageredCovers
    <3> DEFINE f == Funds(b)
               e == Shares(s)
               g == Funds(c)
               sum == [q \in Accounts |-> f[q] + e[q]]
    <3>3. /\ f \in [Accounts -> Int] /\ SumFunction(f) \in Int
          /\ g \in [Accounts -> Int] /\ SumFunction(g) \in Int
      BY <2>4, FundsTyped
    <3>4. e \in [Accounts -> Int] /\ SumFunction(e) \in Int
      <4>1. e \in [Accounts -> Int]
        BY <3>2 DEF Shares
      <4> HIDE DEF e
      <4> QED BY <4>1, AccountsFinite, SumType
    <3>5. ASSUME NEW q \in Accounts PROVE g[q] <= f[q] + e[q] /\ c[q] >= b[q]
      <4>1. /\ g[q] = Positive(c[q]) /\ f[q] = Positive(b[q])
            /\ e[q] = Wagered(q, s)
        BY DEF Funds, Shares
      <4>2. Wagered(q, s) \in Nat /\ b[q] \in Int /\ c[q] = b[q] + Wagered(q, s)
        BY <1>0, <2>5, <3>2
      <4> HIDE DEF g, f, e
      <4> QED BY <4>1, <4>2 DEF Positive
    <3> HIDE DEF f, e, g
    <3>6. sum \in [Accounts -> Int] /\ \A q \in Accounts : g[q] <= sum[q]
      BY <3>3, <3>4, <3>5
    <3>7. SumFunction(sum) = SumFunction(f) + SumFunction(e)
      BY <3>3, <3>4, AccountsFinite, SumAdd
    <3> HIDE DEF sum
    <3>8. SumFunction(g) <= SumFunction(sum)
      BY <3>3, <3>6, AccountsFinite, SumMonotonic
    <3> QED BY <3>5, <3>7, <3>8 DEF f, e, g
  <2> QED BY <1>2, <2>3, <2>4, <2>5, <2>6 DEF s, c
<1> QED BY <1>1, <1>2

\* With a pool given back to its bettors, the other debts keep their bets.
LEMMA CoveredWithout ==
  ASSUME TypeOK, AddsUp(ActivePools), BetsPositive(ActivePools), NEW m \in IDs,
         NEW b \in [Accounts -> Int], Covered(b, ActivePools)
  PROVE  Covered(AfterAbort(b, m), [ActivePools EXCEPT ![m] = None])
<1> DEFINE c == AfterAbort(b, m)
           pools == [ActivePools EXCEPT ![m] = None]
<1>1. /\ c \in [Accounts -> Int] /\ \A q \in Accounts : c[q] >= b[q]
      /\ ActivePools[m] # None =>
            \A q \in Accounts : c[q] = b[q] + Wagered(q, ActivePools[m].bets)
  BY AfterAbortIs
<1>2. \A k \in IDs : k # m => pools[k] = ActivePools[k]
  BY DEF TypeOK
<1> HIDE DEF c, pools
<1> SUFFICES ASSUME NEW p \in Accounts \ System, ~ (c[p] >= 0)
             PROVE  \E k \in IDs :
                      /\ pools[k] # None
                      /\ \E i \in DOMAIN pools[k].bets :
                            /\ pools[k].bets[i].bettor = p
                            /\ c[p] >= - pools[k].bets[i].amount
  BY DEF Covered, c, pools
<1>3. b[p] \in Int /\ c[p] \in Int /\ c[p] >= b[p]
  BY <1>1
<1>4. PICK k \in IDs :
         /\ ActivePools[k] # None
         /\ \E i \in DOMAIN ActivePools[k].bets :
               /\ ActivePools[k].bets[i].bettor = p
               /\ b[p] >= - ActivePools[k].bets[i].amount
  BY <1>3 DEF Covered
<1>5. PICK i \in DOMAIN ActivePools[k].bets :
         /\ ActivePools[k].bets[i].bettor = p
         /\ b[p] >= - ActivePools[k].bets[i].amount
  BY <1>4
<1>6. ActivePools[k].bets \in Seq(Bets)
  BY <1>4 DEF TypeOK, Pool
<1>7. ActivePools[k].bets[i].amount \in Int
  <2>1. ActivePools[k].bets[i] \in Bets
    BY <1>6
  <2> QED BY <2>1 DEF Bets
<1>8. CASE k = m
  <2>1. \A j \in DOMAIN ActivePools[k].bets : ActivePools[k].bets[j].amount >= 0
    BY <1>4 DEF BetsPositive
  <2>2. /\ Wagered(p, ActivePools[k].bets) \in Nat
        /\ Wagered(p, ActivePools[k].bets) >= ActivePools[k].bets[i].amount
    BY <1>5, <1>6, <2>1, WageredCovers
  <2>3. c[p] = b[p] + Wagered(p, ActivePools[k].bets)
    BY <1>1, <1>4, <1>8
  <2> QED BY <1>3, <1>5, <1>7, <2>2, <2>3
<1>9. CASE k # m
  <2>1. pools[k] = ActivePools[k]
    BY <1>2, <1>9
  <2>2. c[p] >= - ActivePools[k].bets[i].amount
    BY <1>3, <1>5, <1>7
  <2> QED BY <1>4, <1>5, <2>1, <2>2
<1> QED BY <1>8, <1>9

-----------------------------------------------------------------------------
(* Matches.                                                                *)

\* Every set of peers is finite and has a natural size, and taking peers
\* away does not make it larger.
LEMMA PeerSets ==
  ASSUME NEW S \in SUBSET Accounts, NEW R \in SUBSET S
  PROVE  /\ IsFiniteSet(S) /\ Cardinality(S) \in Nat
         /\ Cardinality(R) \in Nat /\ Cardinality(R) <= Cardinality(S)
<1>1. IsFiniteSet(S) /\ IsFiniteSet(R)
  BY AccountsFinite, FS_Subset
<1> QED BY <1>1, FS_Subset, FS_CardinalityType

\* The length of a roster halves to a natural number.
LEMMA RosterLength ==
  ASSUME NEW r \in Rosters
  PROVE  Len(r) \in Nat /\ Len(r) \div 2 \in Nat
<1>1. Len(r) \in Nat
  BY RostersAreLists
<1> QED BY <1>1

\* The match invariants only speak of sessions and votes.
LEMMA MatchFrame ==
  ASSUME MatchesSound, UNCHANGED matches
  PROVE  MatchesSound'
<1>1. MatchSessions' = MatchSessions /\ MatchVotes' = MatchVotes
  BY DEF matches
<1>2. SessionsHaveVotes'
  BY <1>1 DEF SessionsHaveVotes, MatchesSound
<1>3. VotersInRoster'
  BY <1>1 DEF VotersInRoster, IsParticipant, MatchesSound
<1>4. NoUndecidedMajority'
  BY <1>1 DEF NoUndecidedMajority, Voters, MatchesSound
<1> QED BY <1>2, <1>3, <1>4 DEF MatchesSound

\* Opening a match gives it a session and an empty vote map at once.
LEMMA OpenMatchInv ==
  ASSUME TypeOK, MatchesSound, NEW p \in Accounts, NEW m \in IDs, NEW r \in Rosters,
         OpenMatch(p, m, r)
  PROVE  /\ MatchSessions' \in [IDs -> Session \cup {None}]
         /\ MatchVotes' \in
               [IDs -> [Accounts -> Ballot \cup {None}] \cup {None}]
         /\ MatchesSound'
<1> USE DEF MatchesSound
<1> DEFINE s == [host |-> p, roster |-> r]
<1>1. /\ s \in Session /\ s # None
      /\ NoVotes \in [Accounts -> Ballot \cup {None}] /\ NoVotes # None
      /\ s.roster = r
  BY NoneIsNothing DEF Session, NoVotes
<1>2. /\ MatchSessions' = [MatchSessions EXCEPT ![m] = s]
      /\ MatchVotes' = [MatchVotes EXCEPT ![m] = NoVotes]
  BY DEF OpenMatch
<1> HIDE DEF s
<1>3. /\ MatchSessions' \in [IDs -> Session \cup {None}]
      /\ MatchVotes' \in
            [IDs -> [Accounts -> Ballot \cup {None}] \cup {None}]
  BY <1>1, <1>2 DEF TypeOK
<1>4. /\ MatchSessions'[m] = s /\ MatchVotes'[m] = NoVotes
      /\ \A n \in IDs \ {m} : /\ MatchSessions'[n] = MatchSessions[n]
                                 /\ MatchVotes'[n] = MatchVotes[n]
  BY <1>2 DEF TypeOK
<1>5. SessionsHaveVotes'
  BY <1>1, <1>4 DEF SessionsHaveVotes
<1>6. VotersInRoster'
  BY <1>4 DEF VotersInRoster, IsParticipant, NoVotes
<1>7. NoUndecidedMajority'
  <2> SUFFICES ASSUME NEW n \in IDs, MatchSessions'[n] # None,
                      NEW b \in Ballot
               PROVE  ~ HasMajority(Cardinality(Voters(n, b)'),
                                    MatchSessions'[n].roster)
    BY DEF NoUndecidedMajority
  <2>1. CASE n # m
    BY <1>4, <2>1 DEF NoUndecidedMajority, Voters
  <2>2. CASE n = m
    <3>1. Voters(n, b)' = {}
      BY <1>4, <2>2, NoneIsNothing DEF Voters, NoVotes
    <3>2. Cardinality(Voters(n, b)') = 0
      BY <3>1, FS_EmptySet
    <3>3. Len(r) \div 2 \in Nat /\ MatchSessions'[n].roster = r
      BY <1>1, <1>4, <2>2, RosterLength
    <3> QED BY <3>2, <3>3 DEF HasMajority
  <2> QED BY <2>1, <2>2
<1> QED BY <1>3, <1>5, <1>6, <1>7

\* Closing a match removes its session and its vote map at once.
LEMMA CloseMatchInv ==
  ASSUME TypeOK, MatchesSound, NEW m \in IDs, CloseMatch(m)
  PROVE  /\ MatchSessions' \in [IDs -> Session \cup {None}]
         /\ MatchVotes' \in
               [IDs -> [Accounts -> Ballot \cup {None}] \cup {None}]
         /\ MatchesSound'
<1> USE DEF MatchesSound
<1>1. /\ MatchSessions' \in [IDs -> Session \cup {None}]
      /\ MatchVotes' \in
            [IDs -> [Accounts -> Ballot \cup {None}] \cup {None}]
  BY DEF CloseMatch, TypeOK
<1>2. /\ MatchSessions'[m] = None /\ MatchVotes'[m] = None
      /\ \A n \in IDs \ {m} : /\ MatchSessions'[n] = MatchSessions[n]
                                 /\ MatchVotes'[n] = MatchVotes[n]
  BY DEF CloseMatch, TypeOK
<1>3. SessionsHaveVotes'
  BY <1>2 DEF SessionsHaveVotes
<1>4. VotersInRoster'
  BY <1>2 DEF VotersInRoster, IsParticipant
<1>5. NoUndecidedMajority'
  BY <1>2 DEF NoUndecidedMajority, Voters
<1> QED BY <1>1, <1>3, <1>4, <1>5

\* Recording a ballot that does not reach a majority leaves no ballot with
\* one: the others can only lose the voter.
LEMMA BallotInv ==
  ASSUME TypeOK, MatchesSound, NEW p \in Accounts, NEW m \in IDs, NEW b \in Ballot,
         IsParticipant(p, m),
         ~ HasMajority(Cardinality(Agreeing(p, m, b)), MatchSessions[m].roster),
         MatchVotes' = [MatchVotes EXCEPT ![m][p] = b],
         UNCHANGED MatchSessions
  PROVE  /\ MatchVotes' \in
               [IDs -> [Accounts -> Ballot \cup {None}] \cup {None}]
         /\ MatchesSound'
<1> USE DEF MatchesSound
<1> DEFINE new == [MatchVotes[m] EXCEPT ![p] = b]
<1>1. MatchSessions[m] # None /\ MatchVotes[m] # None
  BY DEF IsParticipant, SessionsHaveVotes
<1>2. MatchVotes[m] \in [Accounts -> Ballot \cup {None}]
  BY <1>1 DEF TypeOK
<1>3. new \in [Accounts -> Ballot \cup {None}] /\ new # None
  BY <1>2, NoneIsNothing
<1>4. MatchVotes' = [MatchVotes EXCEPT ![m] = new]
  BY DEF TypeOK
<1> HIDE DEF new
<1>5. MatchVotes' \in [IDs -> [Accounts -> Ballot \cup {None}] \cup {None}]
  BY <1>3, <1>4 DEF TypeOK
<1>6. /\ MatchVotes'[m] = new
      /\ \A n \in IDs \ {m} : MatchVotes'[n] = MatchVotes[n]
  BY <1>4 DEF TypeOK
<1>7. SessionsHaveVotes'
  BY <1>1, <1>3, <1>6 DEF SessionsHaveVotes
<1>8. VotersInRoster'
  <2> SUFFICES ASSUME NEW n \in IDs, MatchVotes'[n] # None,
                      NEW q \in Accounts, MatchVotes'[n][q] # None
               PROVE  IsParticipant(q, n)
    BY DEF VotersInRoster, IsParticipant
  <2>1. CASE n = m /\ q # p
    <3>1. MatchVotes'[n][q] = MatchVotes[m][q]
      BY <1>2, <1>6, <2>1 DEF new
    <3> QED BY <1>1, <2>1, <3>1 DEF VotersInRoster
  <2>2. CASE n = m /\ q = p
    BY <2>2
  <2>3. CASE n # m
    BY <1>6, <2>3 DEF VotersInRoster
  <2> QED BY <2>1, <2>2, <2>3
<1>9. NoUndecidedMajority'
  <2> SUFFICES ASSUME NEW n \in IDs, MatchSessions[n] # None,
                      NEW c \in Ballot
               PROVE  ~ HasMajority(Cardinality(Voters(n, c)'),
                                    MatchSessions[n].roster)
    BY DEF NoUndecidedMajority
  <2>1. MatchSessions[n].roster \in Rosters
    BY DEF TypeOK, Session
  <2>2. Len(MatchSessions[n].roster) \div 2 \in Nat
    BY <2>1, RosterLength
  <2>3. ~ HasMajority(Cardinality(Voters(n, c)), MatchSessions[n].roster)
    BY DEF NoUndecidedMajority
  <2>4. CASE n # m
    BY <1>6, <2>3, <2>4 DEF Voters
  <2>5. CASE n = m /\ c # b
    <3>1. Voters(n, c)' \in SUBSET Voters(n, c)
      BY <1>2, <1>6, <2>5 DEF Voters, new
    <3>2. Voters(n, c) \in SUBSET Accounts
      BY DEF Voters
    <3>3. /\ Cardinality(Voters(n, c)') \in Nat
          /\ Cardinality(Voters(n, c)) \in Nat
          /\ Cardinality(Voters(n, c)') <= Cardinality(Voters(n, c))
      BY <3>1, <3>2, PeerSets
    <3> DEFINE half == Len(MatchSessions[n].roster) \div 2
               before == Cardinality(Voters(n, c))
               after == Cardinality(Voters(n, c)')
    <3>4. half \in Nat /\ ~ (before > half)
      BY <2>2, <2>3 DEF HasMajority
    <3>5. before \in Nat /\ after \in Nat /\ after <= before
      BY <3>3
    <3>6. ~ (after > half)
      <4> HIDE DEF half, before, after
      <4> QED BY <3>4, <3>5
    <3> QED BY <3>6 DEF HasMajority
  <2>6. CASE n = m /\ c = b
    <3>1. Voters(n, c)' = Agreeing(p, m, b)
      BY <1>2, <1>6, <2>6 DEF Voters, Agreeing, new
    <3> QED BY <2>6, <3>1
  <2> QED BY <2>4, <2>5, <2>6
<1> QED BY <1>5, <1>7, <1>8, <1>9

\* Once p has voted, the peers behind its ballot are the players of the
\* roster who are p or had cast the same one: VotersInRoster keeps ballots
\* of outsiders out of the count.
LEMMA AgreeingIsRoster ==
  ASSUME TypeOK, VotersInRoster, NEW p \in Accounts, NEW m \in IDs,
         NEW b \in Ballot, IsParticipant(p, m), MatchVotes[m] # None
  PROVE  Agreeing(p, m, b) =
           {q \in ToSet(MatchSessions[m].roster) :
               q = p \/ MatchVotes[m][q] = b}
<1>1. MatchSessions[m] # None /\ p \in ToSet(MatchSessions[m].roster)
  BY DEF IsParticipant
<1>2. ToSet(MatchSessions[m].roster) \subseteq Accounts
  <2>1. MatchSessions[m].roster \in Seq(Accounts)
    BY <1>1, RostersAreLists DEF TypeOK, Session
  <2> QED BY <2>1 DEF ToSet
<1>3. ASSUME NEW q \in Accounts, MatchVotes[m][q] = b
      PROVE  q \in ToSet(MatchSessions[m].roster)
  BY <1>1, <1>3, NoneIsNothing DEF VotersInRoster, IsParticipant
<1> QED BY <1>1, <1>2, <1>3 DEF Agreeing, Voters

\* The bookkeeping of a block keeps its variables typed.
LEMMA AcceptTyped ==
  ASSUME TypeOK, NEW p \in Accounts, NEW xs, Accept(p, xs)
  PROVE  /\ up' \in BOOLEAN /\ negative' \in BOOLEAN /\ LastIndex' \in Nat
         /\ AccountNonces' \in [Accounts -> Nat]
BY DEF TypeOK, Accept

-----------------------------------------------------------------------------
(* Bets.                                                                   *)

\* The bets that are in a pool, or would be if there were one.
BetsIn(k) == IF ActivePools[k] = None THEN << >> ELSE ActivePools[k].bets

\* A bet without a team adds its amount to its pool and to nothing else, and
\* goes behind the bets that are there.
LEMMA BetPlaced ==
  ASSUME TypeOK, AddsUp(ActivePools), NEW k \in IDs, NEW bet \in Bets,
         bet.team = NoTeam
  PROVE  /\ PoolWith(k, bet) \in Pool /\ BetsIn(k) \in Seq(Bets)
         /\ PoolWith(k, bet).bets = Append(BetsIn(k), bet)
         /\ PoolWith(k, bet).teamA = 0 /\ PoolWith(k, bet).teamB = 0
         /\ PoolWith(k, bet).total = Pots(ActivePools)[k] + bet.amount
         /\ PoolWith(k, bet).total = SumFunction(Shares(PoolWith(k, bet).bets))
<1> DEFINE old == IF ActivePools[k] = None
                  THEN [total |-> 0, teamA |-> 0, teamB |-> 0, bets |-> << >>]
                  ELSE ActivePools[k]
           On(team) == IF bet.team = team THEN bet.amount ELSE 0
<1>1. old \in Pool
  BY DEF TypeOK, Pool
<1>2. On(TeamA) = 0 /\ On(TeamB) = 0 /\ bet.amount \in Int
  BY TeamsHaveNames DEF Bets, Teams
<1>3. /\ old.bets = BetsIn(k) /\ old.total = Pots(ActivePools)[k]
      /\ old.teamA = 0 /\ old.teamB = 0
  BY DEF BetsIn, Pots, AddsUp
<1>4. old.total = SumFunction(Shares(old.bets))
  <2>1. CASE ActivePools[k] = None
    <3>1. SumFunction(Shares(<< >>)) = 0
      <4>1. << >> \in Seq(Bets)
        OBVIOUS
      <4> QED BY <4>1, SharesAppend
    <3> QED BY <2>1, <3>1
  <2>2. CASE ActivePools[k] # None
    BY <2>2 DEF AddsUp
  <2> QED BY <2>1, <2>2
<1>5. /\ old.bets \in Seq(Bets) /\ old.total \in Int
  BY <1>1 DEF Pool
<1>6. PoolWith(k, bet) =
        [total |-> old.total + bet.amount, teamA |-> old.teamA + On(TeamA),
         teamB |-> old.teamB + On(TeamB), bets |-> Append(old.bets, bet)]
  BY DEF PoolWith
<1> HIDE DEF old, On
<1>7. /\ PoolWith(k, bet).bets = Append(old.bets, bet)
      /\ PoolWith(k, bet).teamA = 0 /\ PoolWith(k, bet).teamB = 0
      /\ PoolWith(k, bet).total = old.total + bet.amount
  BY <1>2, <1>3, <1>6
<1>8. PoolWith(k, bet) \in Pool
  <2>1. /\ old.total + bet.amount \in Int
        /\ old.teamA + On(TeamA) \in Int
        /\ old.teamB + On(TeamB) \in Int
        /\ Append(old.bets, bet) \in Seq(Bets)
    BY <1>2, <1>3, <1>5
  <2> QED BY <1>6, <2>1 DEF Pool
<1>9. SumFunction(Shares(Append(old.bets, bet))) = old.total + bet.amount
  BY <1>4, <1>5, SharesAppend
<1> QED BY <1>3, <1>5, <1>7, <1>8, <1>9

\* The pools after a bet.
LEMMA PoolsWithBet ==
  ASSUME TypeOK, AddsUp(ActivePools), NEW k \in IDs, NEW bet \in Bets,
         bet.team = NoTeam,
         NEW pools, pools = [ActivePools EXCEPT ![k] = PoolWith(k, bet)]
  PROVE  /\ pools \in [IDs -> Pool \cup {None}]
         /\ AddsUp(pools)
         /\ SumFunction(Pots(pools)) = SumFunction(Pots(ActivePools)) + bet.amount
         /\ pools[k] # None /\ pools[k].bets = Append(BetsIn(k), bet)
         /\ BetsIn(k) \in Seq(Bets)
         /\ \A n \in IDs : n # k => pools[n] = ActivePools[n]
         /\ BetsPositive(ActivePools) /\ bet.amount >= 0 => BetsPositive(pools)
<1> DEFINE new == PoolWith(k, bet)
<1>1. /\ new \in Pool /\ BetsIn(k) \in Seq(Bets)
      /\ new.bets = Append(BetsIn(k), bet)
      /\ new.teamA = 0 /\ new.teamB = 0
      /\ new.total = Pots(ActivePools)[k] + bet.amount
      /\ new.total = SumFunction(Shares(new.bets))
  BY BetPlaced
<1> HIDE DEF new
<1>2. pools = [ActivePools EXCEPT ![k] = new]
  BY DEF new
<1>3. /\ pools \in [IDs -> Pool \cup {None}] /\ pools[k] = new /\ new # None
      /\ \A n \in IDs : n # k => pools[n] = ActivePools[n]
  BY <1>1, <1>2, NoneIsNothing DEF TypeOK
<1>4. AddsUp(pools)
  BY <1>1, <1>3 DEF AddsUp
<1>5. SumFunction(Pots(pools)) = SumFunction(Pots(ActivePools)) + bet.amount
  <2> DEFINE f == Pots(ActivePools)
             h == Pots(pools)
             d == new.total
             x == bet.amount
  <2>1. /\ IsFiniteSet(IDs) /\ f \in [IDs -> Int] /\ SumFunction(f) \in Int
    BY PotsTyped DEF TypeOK
  <2>2. d \in Int /\ x \in Int /\ d = f[k] + x
    BY <1>1 DEF Pool, Bets
  <2>3. h = [f EXCEPT ![k] = d]
    BY <1>3 DEF Pots
  <2> HIDE DEF f, h, d, x
  <2>4. SumFunction(h) = SumFunction(f) - f[k] + d
    BY <2>1, <2>2, <2>3, SumChange
  <2>5. f[k] \in Int
    BY <2>1
  <2>6. SumFunction(h) = SumFunction(f) + x
    BY <2>1, <2>2, <2>4, <2>5
  <2> QED BY <2>6 DEF f, h, x
<1>6. ASSUME BetsPositive(ActivePools), bet.amount >= 0
      PROVE  BetsPositive(pools)
  <2> SUFFICES ASSUME NEW n \in IDs, pools[n] # None, NEW i \in DOMAIN pools[n].bets
               PROVE  pools[n].bets[i].amount >= 0
    BY DEF BetsPositive
  <2>1. CASE n # k
    BY <1>3, <1>6, <2>1 DEF BetsPositive
  <2>2. CASE n = k
    <3> DEFINE s == BetsIn(k)
    <3>1. ASSUME NEW j \in DOMAIN s PROVE s[j].amount >= 0
      BY <1>6 DEF BetsIn, BetsPositive
    <3> HIDE DEF s
    <3>2. /\ s \in Seq(Bets) /\ pools[n].bets = Append(s, bet)
      BY <1>1, <1>3, <2>2 DEF s
    <3>3. i \in 1 .. Len(s) + 1 /\ Len(s) \in Nat /\ DOMAIN s = 1 .. Len(s)
          /\ Append(s, bet)[i] = IF i = Len(s) + 1 THEN bet ELSE s[i]
      BY <3>2
    <3> QED BY <1>6, <3>1, <3>2, <3>3
  <2> QED BY <2>1, <2>2
<1> QED BY <1>1, <1>3, <1>4, <1>5, <1>6

-----------------------------------------------------------------------------
(* Stakes.                                                                 *)

Part(f, S) == [p \in Accounts |-> IF p \in S THEN f[p] ELSE 0]

\* One family of sums gives the total of every set of accounts.
LEMMA TotalsExist ==
  ASSUME NEW f \in [Accounts -> Int]
  PROVE  \E F : IsSums(F, Accounts, f) /\ \A S \in SUBSET Accounts : Total(f, S) = F[S]
<1>1. PICK F : IsSums(F, Accounts, f)
  BY AccountsFinite, SumsOnSet
<1>2. ASSUME NEW S \in SUBSET Accounts PROVE Total(f, S) = F[S]
  <2>1. IsFiniteSet(S) /\ \A x \in S : f[x] \in Int
    BY AccountsFinite, FS_Subset
  <2>2. PICK G : IsSums(G, S, f) /\ SumFunctionOnSet(f, S) = G[S]
    BY <2>1, SumsOnSet
  <2> DEFINE Good == {U \in SUBSET S : F[U] = G[U]}
  <2>3. ASSUME NEW U \in SUBSET S, \A x \in U : U \ {x} \in Good
        PROVE  U \in Good
    <3>1. CASE U = {}
      BY <1>1, <2>2, <3>1 DEF IsSums
    <3>2. CASE U # {}
      <4>1. PICK x \in U : TRUE
        BY <3>2
      <4>2. F[U] = f[x] + F[U \ {x}] /\ G[U] = f[x] + G[U \ {x}]
        BY <1>1, <2>2, <4>1 DEF IsSums
      <4> QED BY <2>3, <4>1, <4>2
    <3> QED BY <3>1, <3>2
  <2>4. \A U \in SUBSET S : U \in Good
    <3> HIDE DEF Good
    <3> QED BY <2>1, <2>3, SubsetInduction
  <2> QED BY <2>2, <2>4 DEF Total
<1> QED BY <1>1, <1>2

\* A total of whole coins is a number of whole coins.
LEMMA TotalTyped ==
  ASSUME NEW f \in [Accounts -> Int], NEW S \in SUBSET Accounts
  PROVE  /\ Total(f, S) \in Int
         /\ Total(f, {}) = 0
         /\ (\A x \in S : f[x] >= 0) => Total(f, S) \in Nat
<1>1. PICK F : /\ IsSums(F, Accounts, f)
              /\ \A U \in SUBSET Accounts : Total(f, U) = F[U]
  BY TotalsExist
<1>2. Total(f, S) \in Int /\ Total(f, {}) = 0
  BY <1>1 DEF IsSums
<1>3. ASSUME \A x \in S : f[x] >= 0 PROVE Total(f, S) \in Nat
  <2>1. IsFiniteSet(S)
    BY AccountsFinite, FS_Subset
  <2>2. \A x \in S : f[x] \in Nat
    BY <1>3
  <2> QED BY <2>1, <2>2, SumOfNaturals DEF Total
<1> QED BY <1>2, <1>3

\* The total of a set of stakes is the sum of its part.
LEMMA TotalIsSum ==
  ASSUME NEW f \in [Accounts -> Int], NEW S \in SUBSET Accounts
  PROVE  Total(f, S) = SumFunction(Part(f, S))
<1>1. PICK F : /\ IsSums(F, Accounts, f)
              /\ \A U \in SUBSET Accounts : Total(f, U) = F[U]
  BY TotalsExist
<1> DEFINE Good == {U \in SUBSET Accounts : F[U] = SumFunction(Part(f, U))}
<1>0. \A U \in SUBSET Accounts : Part(f, U) \in [Accounts -> Int]
  BY DEF Part
<1>2. ASSUME NEW U \in SUBSET Accounts, \A x \in U : U \ {x} \in Good
      PROVE  U \in Good
  <2>1. CASE U = {}
    <3>1. F[U] = 0
      BY <1>1, <2>1 DEF IsSums
    <3>2. \A x \in Accounts : Part(f, U)[x] = 0
      BY <2>1 DEF Part
    <3>3. SumFunction(Part(f, U)) = 0
      BY <1>0, <3>2, AccountsFinite, SumZero
    <3> QED BY <3>1, <3>3
  <2>2. CASE U # {}
    <3>1. PICK x \in Accounts : x \in U
      BY <2>2
    <3> DEFINE g == Part(f, U \ {x})
               h == Part(f, U)
    <3>2. /\ h[x] = f[x] /\ g[x] = 0 /\ x \in Accounts
          /\ \A y \in Accounts : y # x => h[y] = g[y]
      BY <3>1 DEF Part
    <3>3. g \in [Accounts -> Int] /\ h \in [Accounts -> Int]
      BY <1>0
    <3>4. F[U \ {x}] = SumFunction(g)
      BY <1>2, <3>1
    <3> HIDE DEF g, h
    <3>5. h[x] \in Int /\ h = [g EXCEPT ![x] = h[x]]
      BY <3>2, <3>3
    <3>6. SumFunction(h) = SumFunction(g) - g[x] + h[x]
      <4> DEFINE d == h[x]
      <4>1. d \in Int /\ h = [g EXCEPT ![x] = d]
        BY <3>5
      <4> HIDE DEF d
      <4>2. SumFunction([g EXCEPT ![x] = d]) = SumFunction(g) - g[x] + d
        <5>1. g \in [Accounts -> Int] /\ d \in Int /\ IsFiniteSet(Accounts)
          BY <3>3, <4>1, AccountsFinite
        <5> QED BY <5>1, SumChange
      <4> QED BY <4>1, <4>2 DEF d
    <3>7. SumFunction(g) \in Int
      BY <3>3, AccountsFinite, SumType
    <3>8. SumFunction(h) = SumFunction(g) + f[x]
      BY <3>2, <3>5, <3>6, <3>7
    <3>9. F[U] = f[x] + F[U \ {x}]
      BY <1>1, <3>1 DEF IsSums
    <3>10. f[x] \in Int
      BY <3>2, <3>5
    <3> QED BY <3>4, <3>7, <3>8, <3>9, <3>10 DEF h
  <2> QED BY <2>1, <2>2
<1>3. \A U \in SUBSET Accounts : U \in Good
  <2> HIDE DEF Good
  <2> QED BY <1>2, AccountsFinite, SubsetInduction
<1> QED BY <1>1, <1>3

\* Stakes and their fifths are numbers, not negative where no stake is.
LEMMA SlashTyped ==
  ASSUME TypeOK
  PROVE  /\ Slash \in [Accounts -> Int] /\ StakedEDN \in [Accounts -> Int]
         /\ StakesPositive(StakedEDN) =>
              \A p \in Accounts : StakedEDN[p] \in Nat /\ Slash[p] \in Nat
<1>1. MaxStake \in Nat /\ \A p \in Accounts : StakedEDN[p] \in Int
  BY AmountsAreIntegers DEF TypeOK
<1>2. \A p \in Accounts : Slash[p] = StakedEDN[p] \div 5
  BY DEF Slash
<1>3. \A n \in Int : n \div 5 \in Int
  OBVIOUS
<1>4. \A n \in Nat : n \div 5 \in Nat
  OBVIOUS
<1>5. Slash \in [Accounts -> Int] /\ StakedEDN \in [Accounts -> Int]
  BY <1>1, <1>3 DEF Slash, TypeOK
<1> QED BY <1>1, <1>2, <1>4, <1>5 DEF StakesPositive

\* A slashed stake stays within the bound and on its side of zero.
LEMMA StakesAfterTyped ==
  ASSUME TypeOK, NEW losers \in SUBSET Accounts
  PROVE  /\ StakesAfter(losers) \in [Accounts -> (-MaxStake) .. MaxStake]
         /\ StakesPositive(StakedEDN) => StakesPositive(StakesAfter(losers))
<1>1. MaxStake \in Nat
  BY AmountsAreIntegers
<1>2. ASSUME NEW n \in (-MaxStake) .. MaxStake
      PROVE  n - n \div 5 \in (-MaxStake) .. MaxStake /\ (n >= 0 => n - n \div 5 >= 0)
  BY <1>1
<1>3. ASSUME NEW q \in Accounts
      PROVE  StakedEDN[q] \in (-MaxStake) .. MaxStake /\ Slash[q] = StakedEDN[q] \div 5
  BY DEF TypeOK, Slash
<1> QED BY <1>2, <1>3 DEF StakesAfter, StakesPositive

\* A share in proportion is a number, and none below nothing when its parts
\* are not.
LEMMA ShareTyped ==
  ASSUME NEW a \in Int, NEW b \in Int, NEW h \in Nat, h > 0
  PROVE  /\ (a * b) \div h \in Int
         /\ a >= 0 /\ b >= 0 => (a * b) \div h \in Nat
<1> DEFINE ab == a * b
<1>1. ab \in Int
  OBVIOUS
<1>2. a >= 0 /\ b >= 0 => ab \in Nat
  OBVIOUS
<1>3. ab \div h \in Int /\ (ab >= 0 => ab \div h \in Nat)
  <2> HIDE DEF ab
  <2> QED BY <1>1, SMT
<1> QED BY <1>1, <1>2, <1>3

\* What a validator earns is a number of coins, and no loss where no stake is
\* negative.
LEMMA EarnedTyped ==
  ASSUME TypeOK, NEW honest \in SUBSET Accounts, NEW losers \in SUBSET Accounts
  PROVE  /\ Earned(honest, losers) \in [Accounts -> Int]
         /\ StakesPositive(StakedEDN) => Earned(honest, losers) \in [Accounts -> Nat]
<1> DEFINE pot == Total(Slash, losers)
           stake == Total(StakedEDN, honest)
           earned(q) == IF q \in honest /\ pot > 0 /\ stake > 0
                        THEN (pot * StakedEDN[q]) \div stake ELSE 0
<1>0. Slash \in [Accounts -> Int] /\ StakedEDN \in [Accounts -> Int]
  BY SlashTyped
<1>1. pot \in Int /\ stake \in Int
  BY <1>0, TotalTyped
<1>2. Earned(honest, losers) = [q \in Accounts |-> earned(q)]
  BY DEF Earned
<1> HIDE DEF pot, stake
<1>3. ASSUME NEW q \in Accounts
      PROVE  earned(q) \in Int /\ (StakedEDN[q] >= 0 => earned(q) \in Nat)
  <2>1. StakedEDN[q] \in Int
    BY <1>0
  <2>2. CASE q \in honest /\ pot > 0 /\ stake > 0
    <3>1. stake \in Nat /\ pot >= 0
      BY <1>1, <2>2
    <3>2. /\ (pot * StakedEDN[q]) \div stake \in Int
          /\ StakedEDN[q] >= 0 => (pot * StakedEDN[q]) \div stake \in Nat
      BY <1>1, <2>1, <2>2, <3>1, ShareTyped
    <3>3. earned(q) = (pot * StakedEDN[q]) \div stake
      BY <2>2
    <3> HIDE DEF earned
    <3> QED BY <3>2, <3>3
  <2>3. CASE ~ (q \in honest /\ pot > 0 /\ stake > 0)
    BY <2>3
  <2> QED BY <2>2, <2>3
<1> HIDE DEF earned
<1> QED BY <1>2, <1>3 DEF StakesPositive

\* What the losing side pays leaves its stakes.
LEMMA StakesPaid ==
  ASSUME TypeOK, NEW losers \in SUBSET Accounts
  PROVE  /\ SumFunction(StakesAfter(losers)) \in Int
         /\ SumFunction(StakesAfter(losers)) + Total(Slash, losers)
               = SumFunction(StakedEDN)
<1> DEFINE f == StakesAfter(losers)
           g == Part(Slash, losers)
           sum == [x \in Accounts |-> f[x] + g[x]]
<1>1. Slash \in [Accounts -> Int] /\ StakedEDN \in [Accounts -> Int]
  BY SlashTyped
<1>2. f \in [Accounts -> Int] /\ g \in [Accounts -> Int]
  BY <1>1 DEF Part, StakesAfter
<1>3. sum = StakedEDN
  <2>1. ASSUME NEW x \in Accounts PROVE f[x] + g[x] = StakedEDN[x]
    <3>1. StakedEDN[x] \in Int /\ Slash[x] \in Int
      BY <1>1
    <3>2. CASE x \in losers
      <4>1. f[x] = StakedEDN[x] - Slash[x] /\ g[x] = Slash[x]
        BY <3>2 DEF StakesAfter, Part
      <4> QED BY <3>1, <4>1
    <3>3. CASE x \notin losers
      <4>1. f[x] = StakedEDN[x] /\ g[x] = 0
        BY <3>3 DEF StakesAfter, Part
      <4> QED BY <3>1, <4>1
    <3> QED BY <3>2, <3>3
  <2> HIDE DEF f, g
  <2> QED BY <2>1, <1>1
<1>4. Total(Slash, losers) = SumFunction(g)
  BY <1>1, TotalIsSum
<1> HIDE DEF f, g
<1>5. SumFunction(sum) = SumFunction(f) + SumFunction(g)
  BY <1>2, AccountsFinite, SumAdd
<1>6. SumFunction(f) \in Int
  BY <1>2, AccountsFinite, SumType
<1> QED BY <1>3, <1>4, <1>5, <1>6 DEF f

\* A share of t in proportion to s is, h times over, at most t times s.
LEMMA ShareFloor ==
  ASSUME NEW t \in Nat, NEW s \in Nat, NEW h \in Nat, h > 0
  PROVE  h * ((t * s) \div h) <= t * s
<1> DEFINE a == t * s
           q == a \div h
<1>1. a \in Nat
  OBVIOUS
<1> HIDE DEF a
<1>2. a = h * q + (a % h) /\ 0 <= (a % h)
  BY <1>1
<1>3. q \in Int
  BY <1>1
<1> HIDE DEF q
<1>4. h * q \in Int /\ (a % h) \in Int
  BY <1>1, <1>3
<1>5. h * q <= a
  <2> DEFINE hq == h * q
             r == a % h
  <2> HIDE DEF hq, r
  <2> QED BY <1>1, <1>2, <1>4 DEF hq, r
<1> QED BY <1>5 DEF a, q

\* A positive factor on both sides of an inequality can be taken away.
LEMMA CancelFactor ==
  ASSUME NEW h \in Nat, h > 0, NEW x \in Int, NEW t \in Int, h * x <= t * h
  PROVE  x <= t
<1> SUFFICES ASSUME x > t PROVE FALSE
  OBVIOUS
<1>1. x - t \in Nat /\ x - t >= 1
  OBVIOUS
<1>2. h * (x - t) >= 1
  BY <1>1
<1>3. h * (x - t) = h * x - t * h
  OBVIOUS
<1>4. h * x \in Int /\ t * h \in Int
  OBVIOUS
<1> DEFINE a == h * x
           b == t * h
<1>5. a - b >= 1
  BY <1>2, <1>3
<1> HIDE DEF a, b
<1> QED BY <1>4, <1>5 DEF a, b

\* Rounding down, the honest side earns no more than the losing side pays.
LEMMA EarnedBounded ==
  ASSUME TypeOK, StakesPositive(StakedEDN), NEW honest \in SUBSET Accounts,
         NEW losers \in SUBSET Accounts
  PROVE  /\ Earned(honest, losers) \in [Accounts -> Nat]
         /\ SumFunction(Earned(honest, losers)) \in Int
         /\ SumFunction(Earned(honest, losers)) <= Total(Slash, losers)
<1> DEFINE e == Earned(honest, losers)
           t == Total(Slash, losers)
           h == Total(StakedEDN, honest)
           g == Part(StakedEDN, honest)
<1>1. t \in Nat /\ h \in Nat
  BY SlashTyped, TotalTyped
<1>2. e \in [Accounts -> Nat]
  BY EarnedTyped
<1>3. /\ StakedEDN \in [Accounts -> Int]
      /\ \A x \in Accounts : StakedEDN[x] \in Nat
  BY SlashTyped
<1>4. g \in [Accounts -> Int] /\ h = SumFunction(g)
  BY <1>3, TotalIsSum DEF Part
<1>5. e \in [Accounts -> Int]
  BY <1>2
<1>6. \A x \in Accounts :
         /\ e[x] = IF x \in honest /\ t > 0 /\ h > 0
                   THEN (t * StakedEDN[x]) \div h ELSE 0
         /\ g[x] = IF x \in honest THEN StakedEDN[x] ELSE 0
         /\ StakedEDN[x] \in Nat
  BY <1>3 DEF Earned, Part
<1> HIDE DEF e, t, h, g
<1>7. SumFunction(e) \in Int
  BY <1>5, AccountsFinite, SumType
<1>8. CASE h = 0 \/ t = 0
  <2>1. \A x \in Accounts : e[x] = 0
    BY <1>6, <1>8
  <2>2. SumFunction(e) = 0
    BY <1>5, <2>1, AccountsFinite, SumZero
  <2> QED BY <1>1, <1>2, <2>2 DEF e, t
<1>9. CASE h > 0 /\ t > 0
  <2>1. ASSUME NEW x \in Accounts PROVE h * e[x] <= t * g[x]
    <3>1. CASE x \in honest
      <4> DEFINE s == StakedEDN[x]
      <4>1. s \in Nat /\ e[x] = (t * s) \div h /\ g[x] = s
        BY <1>6, <1>9, <3>1
      <4> HIDE DEF s
      <4> QED BY <4>1, <1>1, <1>9, ShareFloor
    <3>2. CASE x \notin honest
      <4>1. e[x] = 0 /\ g[x] = 0
        BY <1>6, <3>2
      <4> QED BY <4>1, <1>1
    <3> QED BY <3>1, <3>2
  <2>2. h * SumFunction(e) <= t * SumFunction(g)
    <3>1. h \in Int /\ t \in Int
      BY <1>1
    <3> QED BY <2>1, <3>1, <1>4, <1>5, AccountsFinite, SumScaled
  <2>3. SumFunction(e) <= t
    <3> DEFINE x == SumFunction(e)
    <3>1. x \in Int /\ t \in Int /\ h * x <= t * h
      BY <1>1, <1>4, <1>7, <2>2
    <3> HIDE DEF x
    <3>2. x <= t
      BY <1>1, <1>9, <3>1, CancelFactor
    <3> QED BY <3>2 DEF x
  <2> QED BY <1>2, <1>7, <2>3 DEF e, t
<1> QED BY <1>1, <1>8, <1>9

\* Paying the validators of a closed case keeps wallets and stakes typed and
\* takes from no wallet.
LEMMA PayValidatorsTyped ==
  ASSUME TypeOK, NEW c \in Case, NEW ballots, NEW v, NEW w,
         NEW b \in [Accounts -> Int], PayValidators(c, ballots, v, w, b)
  PROVE  /\ StakedEDN' \in [Accounts -> (-MaxStake) .. MaxStake]
         /\ Balances' \in [Accounts -> Int]
         /\ TribunalVotes' \in [Case -> [Accounts -> Verdict \cup {None}]]
         /\ StakesPositive(StakedEDN) =>
              /\ StakesPositive(StakedEDN')
              /\ \A q \in Accounts : Balances'[q] >= b[q]
<1> DEFINE honest == Side(ballots, v)
           losers == Side(ballots, w)
           earned == Earned(honest, losers)
<1>1. honest \in SUBSET Accounts /\ losers \in SUBSET Accounts
  BY DEF Side
<1>2. /\ earned \in [Accounts -> Int]
      /\ StakesPositive(StakedEDN) => earned \in [Accounts -> Nat]
  BY <1>1, EarnedTyped
<1>3. /\ StakedEDN' = StakesAfter(losers)
      /\ Balances' = [q \in Accounts |-> b[q] + earned[q]]
      /\ TribunalVotes' = [TribunalVotes EXCEPT ![c] = NoVotes]
  BY DEF PayValidators
<1>4. /\ StakedEDN' \in [Accounts -> (-MaxStake) .. MaxStake]
      /\ StakesPositive(StakedEDN) => StakesPositive(StakedEDN')
  BY <1>1, <1>3, StakesAfterTyped
<1> HIDE DEF earned
<1>5. Balances' \in [Accounts -> Int]
  BY <1>2, <1>3
<1>6. StakesPositive(StakedEDN) => \A q \in Accounts : Balances'[q] >= b[q]
  BY <1>2, <1>3
<1>7. TribunalVotes' \in [Case -> [Accounts -> Verdict \cup {None}]]
  BY <1>3 DEF TypeOK, NoVotes
<1> QED BY <1>4, <1>5, <1>6, <1>7

\* Closing a case moves coins from stakes to wallets and creates none.
LEMMA PayoutSupply ==
  ASSUME TypeOK, StakesPositive(StakedEDN), NEW c \in Case,
         NEW ballots, NEW v, NEW w,
         NEW b \in [Accounts -> Int], PayValidators(c, ballots, v, w, b)
  PROVE  SumFunction(Funds(Balances')) + SumFunction(StakedEDN')
            <= SumFunction(Funds(b)) + SumFunction(StakedEDN)
<1> DEFINE honest == Side(ballots, v)
           losers == Side(ballots, w)
           e == Earned(honest, losers)
           f == Funds(b)
           n == Balances'
           g == Funds(n)
           sum == [p \in Accounts |-> f[p] + e[p]]
<1>1. honest \in SUBSET Accounts /\ losers \in SUBSET Accounts
  BY DEF Side
<1>2. /\ StakedEDN' = StakesAfter(losers)
      /\ n = [p \in Accounts |-> b[p] + e[p]]
  BY DEF PayValidators
<1>3. /\ e \in [Accounts -> Nat] /\ SumFunction(e) \in Int
      /\ SumFunction(e) <= Total(Slash, losers)
  BY <1>1, EarnedBounded
<1>4. /\ SumFunction(StakesAfter(losers)) \in Int
      /\ SumFunction(StakesAfter(losers)) + Total(Slash, losers)
            = SumFunction(StakedEDN)
      /\ Total(Slash, losers) \in Int
  BY <1>1, StakesPaid, SlashTyped, TotalTyped
<1>5. f \in [Accounts -> Int] /\ SumFunction(f) \in Int
  BY FundsTyped
<1> HIDE DEF e, n, honest, losers
<1>6. n \in [Accounts -> Int]
  BY <1>2, <1>3
<1>7. g \in [Accounts -> Int] /\ SumFunction(g) \in Int
  BY <1>6, FundsTyped
<1>8. ASSUME NEW p \in Accounts PROVE g[p] <= f[p] + e[p]
  <2>1. b[p] \in Int /\ e[p] \in Nat /\ n[p] = b[p] + e[p]
    BY <1>2, <1>3
  <2>2. g[p] = Positive(n[p]) /\ f[p] = Positive(b[p])
    BY DEF Funds
  <2> QED BY <2>1, <2>2 DEF Positive
<1> HIDE DEF f, g
<1>9. sum \in [Accounts -> Int] /\ \A p \in Accounts : g[p] <= sum[p]
  BY <1>3, <1>5, <1>8
<1>10. SumFunction(sum) = SumFunction(f) + SumFunction(e)
  <2>1. e \in [Accounts -> Int]
    BY <1>3
  <2> QED BY <1>5, <2>1, AccountsFinite, SumAdd
<1> HIDE DEF sum
<1>11. SumFunction(g) <= SumFunction(sum)
  BY <1>7, <1>9, AccountsFinite, SumMonotonic
<1>12. SumFunction(g) + SumFunction(StakedEDN')
          <= SumFunction(f) + SumFunction(StakedEDN)
  BY <1>2, <1>3, <1>4, <1>5, <1>7, <1>10, <1>11
<1> QED BY <1>12 DEF f, g, n

-----------------------------------------------------------------------------
(* What a block does to the coins.                                         *)

\* Everything that is held, in the terms of the lemmas above.
Held(b, stakes, pools) ==
    SumFunction(Funds(b)) + SumFunction(stakes) + SumFunction(Pots(pools))

\* The half of a step that the money invariants need: unless an amount is
\* negative, no stake or bet is, the debts stay covered, and the coins grow by
\* no more than is issued.
Grows ==
    ~ negative' =>
        /\ ~ negative
        /\ StakesPositive(StakedEDN') /\ BetsPositive(ActivePools')
        /\ Covered(Balances', ActivePools')
        /\ Held(Balances', StakedEDN', ActivePools')
             <= Held(Balances, StakedEDN, ActivePools) + (issued' - issued)

\* The sums are numbers.
LEMMA HeldTyped ==
  ASSUME NEW b \in [Accounts -> Int], NEW stakes \in [Accounts -> Int],
         NEW pools \in [IDs -> Pool \cup {None}]
  PROVE  /\ SumFunction(Funds(b)) \in Int /\ SumFunction(stakes) \in Int
         /\ SumFunction(Pots(pools)) \in Int /\ Held(b, stakes, pools) \in Int
<1>1. /\ SumFunction(Funds(b)) \in Int /\ SumFunction(stakes) \in Int
      /\ SumFunction(Pots(pools)) \in Int
  BY FundsTyped, PotsTyped, AccountsFinite, SumType
<1> QED BY <1>1 DEF Held

\* The coins of the model are what is held.
LEMMA CoinsAreHeld ==
  /\ Coins = Held(Balances, StakedEDN, ActivePools)
  /\ Coins' = Held(Balances', StakedEDN', ActivePools')
<1>1. Purse = Funds(Balances) /\ Pot = Pots(ActivePools)
  BY DEF Purse, Pot, Funds, Positive, Pots
<1>2. Purse' = Funds(Balances') /\ Pot' = Pots(ActivePools')
  BY DEF Purse, Pot, Funds, Positive, Pots
<1> QED BY <1>1, <1>2 DEF Coins, Held

\* Wallets and stakes hold whole coins, and pools are pools.
LEMMA TypedMoney ==
  ASSUME TypeOK
  PROVE  /\ Balances \in [Accounts -> Int] /\ StakedEDN \in [Accounts -> Int]
         /\ ActivePools \in [IDs -> Pool \cup {None}] /\ issued \in Int
BY SlashTyped DEF TypeOK

\* A step that grows nothing but what it issues keeps the money invariants.
LEMMA GrowsKeeps ==
  ASSUME TypeOK, TypeOK', MoneySound, Grows
  PROVE  MoneySound'
<1> SUFFICES ASSUME ~ negative'
             PROVE  /\ StakesPositive(StakedEDN')
                    /\ BetsPositive(ActivePools')
                    /\ Covered(Balances', ActivePools')
                    /\ Coins' <= SumFunction(Endowment) + issued'
  BY DEF MoneySound
<1> DEFINE h == Held(Balances, StakedEDN, ActivePools)
           i == Held(Balances', StakedEDN', ActivePools')
           e == SumFunction(Endowment)
<1>1. ~ negative /\ i <= h + (issued' - issued)
  BY DEF Grows
<1>2. h <= e + issued
  BY <1>1, CoinsAreHeld DEF MoneySound
<1>3. h \in Int /\ issued \in Int
  BY TypedMoney, HeldTyped
<1>4. i \in Int /\ issued' \in Int
  <2>1. MaxStake \in Nat
    BY AmountsAreIntegers
  <2>2. /\ Balances' \in [Accounts -> Int] /\ StakedEDN' \in [Accounts -> Int]
        /\ ActivePools' \in [IDs -> Pool \cup {None}] /\ issued' \in Int
    BY <2>1 DEF TypeOK
  <2> QED BY <2>2, HeldTyped
<1>5. e \in Int
  <2>1. Endowment \in [Accounts -> Int]
    BY AmountsAreIntegers
  <2> QED BY <2>1, AccountsFinite, SumType
<1>6. i <= e + issued'
  <2> DEFINE y == issued
             z == issued'
  <2>1. /\ i <= h + (z - y) /\ h <= e + y
        /\ h \in Int /\ i \in Int /\ e \in Int /\ y \in Int /\ z \in Int
    BY <1>1, <1>2, <1>3, <1>4, <1>5
  <2>2. i <= e + z
    <3> HIDE DEF h, i, e, y, z
    <3> QED BY <2>1
  <2> QED BY <2>2
<1> QED BY <1>6, CoinsAreHeld DEF Grows

\* A block without a negative amount follows blocks without one.
LEMMA AcceptSign ==
  ASSUME NEW p, NEW xs, Accept(p, xs), ~ negative', TypeOK
  PROVE  ~ negative /\ \A x \in xs : x \in Int => x >= 0
<1>1. negative' = (negative \/ \E x \in xs : x < 0)
  BY DEF Accept
<1>2. ~ negative /\ ~ \E x \in xs : x < 0
  BY <1>1
<1>3. \A x \in xs : ~ (x < 0)
  BY <1>2
<1>4. \A x \in Int : ~ (x < 0) => x >= 0
  OBVIOUS
<1> QED BY <1>2, <1>3, <1>4

\* A block that is paid for and moves nothing else.
LEMMA PaidGrows ==
  ASSUME IInv, NEW p \in Accounts, NEW x \in Int, NEW xs, x \in xs,
         Accept(p, xs), p \in System \/ Balances[p] >= x,
         Balances' = Paid(p, x),
         StakedEDN' = StakedEDN, issued' = issued, ActivePools' = ActivePools
  PROVE  Balances' \in [Accounts -> Int] /\ Grows
<1>1. /\ Balances \in [Accounts -> Int] /\ StakedEDN \in [Accounts -> Int]
      /\ ActivePools \in [IDs -> Pool \cup {None}] /\ issued \in Int
  BY TypedMoney DEF IInv
<1>2. /\ Paid(p, x) \in [Accounts -> Int]
      /\ x >= 0 =>
           /\ \A q \in Accounts \ System :
                 Paid(p, x)[q] >= 0 \/ Paid(p, x)[q] >= Balances[q]
           /\ SumFunction(Funds(Paid(p, x))) <= SumFunction(Funds(Balances))
  BY PaidIs DEF IInv
<1>3. ASSUME ~ negative'
      PROVE  /\ ~ negative
             /\ StakesPositive(StakedEDN') /\ BetsPositive(ActivePools')
             /\ Covered(Balances', ActivePools')
             /\ Held(Balances', StakedEDN', ActivePools')
                  <= Held(Balances, StakedEDN, ActivePools) + (issued' - issued)
  <2>1. ~ negative /\ x >= 0
    BY <1>3, AcceptSign DEF IInv
  <2>2. /\ StakesPositive(StakedEDN) /\ BetsPositive(ActivePools)
        /\ Covered(Balances, ActivePools)
    BY <2>1 DEF IInv, MoneySound
  <2> DEFINE b == Paid(p, x)
  <2>3. Covered(b, ActivePools)
    <3>1. /\ b \in [Accounts -> Int]
          /\ \A q \in Accounts \ System : b[q] >= 0 \/ b[q] >= Balances[q]
      BY <1>2, <2>1
    <3> HIDE DEF b
    <3> QED BY <1>1, <2>2, <3>1, CoveredFrame
  <2>4. Held(b, StakedEDN, ActivePools)
          <= Held(Balances, StakedEDN, ActivePools) + (issued - issued)
    <3>1. /\ SumFunction(Funds(b)) \in Int /\ SumFunction(Funds(Balances)) \in Int
          /\ SumFunction(StakedEDN) \in Int /\ SumFunction(Pots(ActivePools)) \in Int
      <4>1. b \in [Accounts -> Int]
        BY <1>2
      <4> HIDE DEF b
      <4> QED BY <1>1, <4>1, HeldTyped
    <3>2. SumFunction(Funds(b)) <= SumFunction(Funds(Balances))
      BY <1>2, <2>1
    <3> HIDE DEF b
    <3> QED BY <1>1, <3>1, <3>2 DEF Held
  <2> QED BY <2>1, <2>2, <2>3, <2>4
<1> QED BY <1>2, <1>3 DEF Grows

\* A pool is given back from the wallets b, which a block has paid out of and
\* credited with what it issues.
LEMMA CloseGrows ==
  ASSUME IInv, NEW m \in IDs, NEW b \in [Accounts -> Int],
         ~ negative' =>
            /\ ~ negative /\ Covered(b, ActivePools)
            /\ SumFunction(Funds(b)) <= SumFunction(Funds(Balances))
                                          + (issued' - issued),
         Balances' = AfterAbort(b, m), issued' \in Int,
         ActivePools' = [ActivePools EXCEPT ![m] = None],
         StakedEDN' = StakedEDN
  PROVE  /\ Balances' \in [Accounts -> Int]
         /\ ActivePools' \in [IDs -> Pool \cup {None}]
         /\ AddsUp(ActivePools') /\ Grows
<1>1. /\ Balances \in [Accounts -> Int] /\ StakedEDN \in [Accounts -> Int]
      /\ ActivePools \in [IDs -> Pool \cup {None}] /\ issued \in Int
  BY TypedMoney DEF IInv
<1>2. /\ AfterAbort(b, m) \in [Accounts -> Int]
      /\ BetsPositive(ActivePools) =>
           SumFunction(Funds(AfterAbort(b, m)))
              <= SumFunction(Funds(b)) + Pots(ActivePools)[m]
  BY AfterAbortIs DEF IInv
<1>3. /\ ActivePools' \in [IDs -> Pool \cup {None}] /\ ActivePools'[m] = None
      /\ \A k \in IDs : k # m => ActivePools'[k] = ActivePools[k]
  BY <1>1
<1>4. AddsUp(ActivePools')
  BY <1>3 DEF AddsUp, IInv
<1>5. ASSUME ~ negative'
      PROVE  /\ ~ negative
             /\ StakesPositive(StakedEDN') /\ BetsPositive(ActivePools')
             /\ Covered(Balances', ActivePools')
             /\ Held(Balances', StakedEDN', ActivePools')
                  <= Held(Balances, StakedEDN, ActivePools) + (issued' - issued)
  <2>1. /\ ~ negative /\ Covered(b, ActivePools)
        /\ SumFunction(Funds(b)) <= SumFunction(Funds(Balances))
                                      + (issued' - issued)
    BY <1>5
  <2>2. StakesPositive(StakedEDN) /\ BetsPositive(ActivePools)
    BY <2>1 DEF IInv, MoneySound
  <2>3. BetsPositive(ActivePools')
    BY <1>3, <2>2 DEF BetsPositive
  <2>4. Covered(AfterAbort(b, m), [ActivePools EXCEPT ![m] = None])
    BY <2>1, <2>2, CoveredWithout DEF IInv
  <2>5. SumFunction(Pots(ActivePools'))
          = SumFunction(Pots(ActivePools)) - Pots(ActivePools)[m]
        /\ Pots(ActivePools)[m] \in Int
    BY <1>1, PotsWithout
  <2> DEFINE f == SumFunction(Funds(Balances))
             g == SumFunction(Funds(b))
             h == SumFunction(Funds(Balances'))
             s == SumFunction(StakedEDN)
             r == SumFunction(Pots(ActivePools))
             t == SumFunction(Pots(ActivePools'))
             y == Pots(ActivePools)[m]
             i == issued
             j == issued'
  <2>6. /\ f \in Int /\ g \in Int /\ h \in Int /\ s \in Int /\ r \in Int
        /\ t \in Int /\ y \in Int /\ i \in Int /\ j \in Int
    <3>1. h \in Int
      BY <1>2, FundsTyped
    <3>2. t \in Int
      BY <1>3, PotsTyped
    <3> QED BY <1>1, <2>5, <3>1, <3>2, HeldTyped
  <2>7. g <= f + (j - i) /\ h <= g + y /\ t = r - y
    BY <1>2, <2>1, <2>2, <2>5
  <2>8. h + s + t <= (f + s + r) + (j - i)
    <3> HIDE DEF f, g, h, s, r, t, y, i, j
    <3> QED BY <2>6, <2>7
  <2>9. Held(Balances', StakedEDN', ActivePools')
          <= Held(Balances, StakedEDN, ActivePools) + (issued' - issued)
    BY <2>8 DEF Held
  <2> QED BY <2>1, <2>2, <2>3, <2>4, <2>9
<1> QED BY <1>2, <1>3, <1>4, <1>5 DEF Grows

-----------------------------------------------------------------------------
(* The invariant holds at the start and after each action.                 *)

\* The parts of the invariant a step has to show.
LEMMA Keeps ==
  ASSUME IInv, TypeOK', MatchesSound', AddsUp(ActivePools'), Grows
  PROVE  IInv'
BY GrowsKeeps DEF IInv

\* Before the first block nothing is staked, bet, voted or owed.
LEMMA InitInv == Init => IInv
<1> SUFFICES ASSUME Init PROVE IInv
  OBVIOUS
<1>1. /\ Endowment \in [Accounts -> Nat] /\ MaxStake \in Nat
      /\ Endowment \in [Accounts -> Int]
  BY AmountsAreIntegers
<1>2. TypeOK
  <2>1. NoVotes \in [Accounts -> Verdict \cup {None}]
    BY DEF NoVotes
  <2>2. 0 \in (-MaxStake) .. MaxStake
    BY <1>1
  <2>3. StakedEDN \in [Accounts -> (-MaxStake) .. MaxStake]
    <3> DEFINE Within == (-MaxStake) .. MaxStake
    <3>1. 0 \in Within
      BY <2>2
    <3> HIDE DEF Within
    <3>2. StakedEDN \in [Accounts -> Within]
      BY <3>1 DEF Init
    <3> QED BY <3>2 DEF Within
  <2>4. /\ AccountNonces \in [Accounts -> Nat]
        /\ QueueBans \in [Accounts -> Int]
        /\ Balances \in [Accounts -> Int]
    BY <1>1 DEF Init
  <2>5. /\ MatchSessions \in [IDs -> Session \cup {None}]
        /\ MatchVotes \in [IDs -> [Accounts -> Ballot \cup {None}] \cup {None}]
        /\ ActivePools \in [IDs -> Pool \cup {None}]
    BY DEF Init
  <2>6. TribunalVotes \in [Case -> [Accounts -> Verdict \cup {None}]]
    BY <2>1 DEF Init
  <2>7. up \in BOOLEAN /\ negative \in BOOLEAN
    BY Zenon DEF Init
  <2>8. LastIndex \in Nat /\ issued \in Int
    BY DEF Init
  <2> QED BY <2>3, <2>4, <2>5, <2>6, <2>7, <2>8, Zenon DEF TypeOK
<1>3. MatchesSound
  BY DEF Init, MatchesSound, SessionsHaveVotes, VotersInRoster,
         NoUndecidedMajority
<1>4. AddsUp(ActivePools) /\ BetsPositive(ActivePools)
  BY DEF Init, AddsUp, BetsPositive
<1>5. StakesPositive(StakedEDN) /\ Covered(Balances, ActivePools)
  BY <1>1 DEF Init, StakesPositive, Covered
<1>6. Coins <= SumFunction(Endowment) + issued
  <2>1. Funds(Balances) = Endowment
    <3>1. \A p \in Accounts : Positive(Endowment[p]) = Endowment[p]
      BY <1>1 DEF Positive
    <3> QED BY <1>1, <3>1 DEF Init, Funds
  <2>2. SumFunction(StakedEDN) = 0
    <3>1. StakedEDN \in [Accounts -> Int] /\ \A p \in Accounts : StakedEDN[p] = 0
      BY DEF Init
    <3> QED BY <3>1, AccountsFinite, SumZero
  <2>3. SumFunction(Pots(ActivePools)) = 0
    <3>1. /\ IsFiniteSet(IDs) /\ Pots(ActivePools) \in [IDs -> Int]
      BY <1>2, PotsTyped, TypedMoney
    <3>2. \A k \in IDs : Pots(ActivePools)[k] = 0
      BY DEF Init, Pots
    <3> QED BY <3>1, <3>2, SumZero
  <2>4. SumFunction(Endowment) \in Int
    BY <1>1, AccountsFinite, SumType
  <2>5. issued = 0
    BY DEF Init
  <2>6. Held(Balances, StakedEDN, ActivePools) = SumFunction(Endowment) + 0 + 0
    BY <2>1, <2>2, <2>3 DEF Held
  <2> QED BY <2>4, <2>5, <2>6, CoinsAreHeld
<1> QED BY <1>2, <1>3, <1>4, <1>5, <1>6 DEF IInv, MoneySound

\* A transfer takes from one wallet what it gives to another, unless a system
\* account sends it: then it issues what it gives.
LEMMA TransferKeeps ==
  ASSUME IInv, NEW p \in Accounts, NEW q \in Accounts, NEW x \in Amounts,
         Transfer(p, q, x)
  PROVE  IInv' /\ Grows
<1> DEFINE b == Paid(p, x)
           c == Credit(b, q, x)
<1>1. /\ Balances \in [Accounts -> Int] /\ StakedEDN \in [Accounts -> Int]
      /\ ActivePools \in [IDs -> Pool \cup {None}] /\ issued \in Int
      /\ x \in Int
  BY TypedMoney, AmountsAreIntegers DEF IInv
<1>2. /\ Accept(p, {x}) /\ (p \in System \/ Balances[p] >= x)
      /\ Balances' = c /\ StakedEDN' = StakedEDN /\ QueueBans' = QueueBans
      /\ ActivePools' = ActivePools /\ TribunalVotes' = TribunalVotes
      /\ UNCHANGED matches
      /\ issued' = IF p \in System THEN issued + x ELSE issued
  BY DEF Transfer, Valid
<1>3. /\ b \in [Accounts -> Int]
      /\ x >= 0 =>
           /\ \A r \in Accounts \ System : b[r] >= 0 \/ b[r] >= Balances[r]
           /\ SumFunction(Funds(b)) <= SumFunction(Funds(Balances))
           /\ p \notin System => SumFunction(Funds(b))
                                   = SumFunction(Funds(Balances)) - x
  BY <1>1, <1>2, PaidIs DEF IInv
<1> HIDE DEF b
<1>4. /\ c \in [Accounts -> Int] /\ c[q] = b[q] + x
      /\ \A r \in Accounts : r # q => c[r] = b[r]
  BY <1>1, <1>3, CreditTyped
<1>5. TypeOK'
  BY <1>1, <1>2, <1>4, AcceptTyped DEF TypeOK, IInv, matches
<1>6. ASSUME ~ negative'
      PROVE  /\ ~ negative
             /\ StakesPositive(StakedEDN') /\ BetsPositive(ActivePools')
             /\ Covered(Balances', ActivePools')
             /\ Held(Balances', StakedEDN', ActivePools')
                  <= Held(Balances, StakedEDN, ActivePools) + (issued' - issued)
  <2>1. ~ negative /\ x >= 0 /\ x \in Nat
    <3>1. Accept(p, {x}) /\ x \in Int /\ TypeOK
      BY <1>1, <1>2 DEF IInv
    <3>2. ~ negative /\ \A y \in {x} : y \in Int => y >= 0
      BY <1>6, <3>1, AcceptSign
    <3> QED BY <3>1, <3>2
  <2>2. /\ StakesPositive(StakedEDN) /\ BetsPositive(ActivePools)
        /\ Covered(Balances, ActivePools)
    BY <2>1 DEF IInv, MoneySound
  <2>3. Covered(c, ActivePools)
    <3>1. ASSUME NEW r \in Accounts \ System
          PROVE  c[r] >= 0 \/ c[r] >= Balances[r]
      <4>1. b[r] \in Int /\ c[r] \in Int /\ Balances[r] \in Int
        BY <1>1, <1>3, <1>4
      <4>2. c[r] >= b[r]
        BY <1>4, <2>1, <4>1
      <4>3. b[r] >= 0 \/ b[r] >= Balances[r]
        BY <1>3, <2>1
      <4> QED BY <4>1, <4>2, <4>3
    <3> HIDE DEF c
    <3> QED BY <1>1, <1>4, <2>2, <3>1, CoveredFrame
  <2> DEFINE f == SumFunction(Funds(Balances))
             g == SumFunction(Funds(b))
             h == SumFunction(Funds(c))
             s == SumFunction(StakedEDN)
             r == SumFunction(Pots(ActivePools))
             i == issued
             j == issued'
  <2>4. /\ f \in Int /\ g \in Int /\ s \in Int /\ r \in Int /\ i \in Int
        /\ h \in Int /\ j \in Int
    <3>1. h \in Int
      <4> HIDE DEF c
      <4> QED BY <1>4, FundsTyped
    <3> QED BY <1>1, <1>2, <1>3, <3>1, HeldTyped, FundsTyped
  <2>5. h <= g + x
    BY <1>3, <2>1, CreditFunds
  <2>6. h <= f + (j - i)
    <3>1. CASE p \in System
      <4>1. g <= f /\ j = i + x
        BY <1>2, <1>3, <2>1, <3>1
      <4> HIDE DEF f, g, h, i, j
      <4> QED BY <1>1, <2>4, <2>5, <4>1
    <3>2. CASE p \notin System
      <4>1. g = f - x /\ j = i
        BY <1>2, <1>3, <2>1, <3>2
      <4> HIDE DEF f, g, h, i, j
      <4> QED BY <1>1, <2>4, <2>5, <4>1
    <3> QED BY <3>1, <3>2
  <2>7. h + s + r <= (f + s + r) + (j - i)
    <3> HIDE DEF f, g, h, s, r, i, j
    <3> QED BY <2>4, <2>6
  <2>8. Held(Balances', StakedEDN', ActivePools')
          <= Held(Balances, StakedEDN, ActivePools) + (issued' - issued)
    BY <1>2, <2>7 DEF Held
  <2> QED BY <1>2, <2>1, <2>2, <2>3, <2>8
<1>7. Grows
  BY <1>6 DEF Grows
<1>8. MatchesSound' /\ AddsUp(ActivePools')
  BY <1>2, MatchFrame DEF IInv
<1> QED BY <1>5, <1>7, <1>8, Keeps

\* A stake moves coins from a wallet to the stake of its owner.
LEMMA StakeKeeps ==
  ASSUME IInv, NEW p \in Accounts, NEW x \in Amounts, Stake(p, x)
  PROVE  IInv' /\ Grows
<1> DEFINE b == Paid(p, x)
           d == StakedEDN[p] + x
<1>1. /\ Balances \in [Accounts -> Int] /\ StakedEDN \in [Accounts -> Int]
      /\ ActivePools \in [IDs -> Pool \cup {None}] /\ issued \in Int
      /\ x \in Int /\ d \in Int
      /\ StakedEDN \in [Accounts -> (-MaxStake) .. MaxStake]
  BY TypedMoney, AmountsAreIntegers DEF IInv, TypeOK
<1>2. /\ Accept(p, {x}) /\ (p \in System \/ Balances[p] >= x)
      /\ Balances' = b /\ StakedEDN' = [StakedEDN EXCEPT ![p] = d]
      /\ d \in (-MaxStake) .. MaxStake
      /\ QueueBans' = QueueBans
      /\ ActivePools' = ActivePools /\ TribunalVotes' = TribunalVotes
      /\ UNCHANGED matches
      /\ issued' = IF p \in System THEN issued + x ELSE issued
  BY DEF Stake, Valid, Credit
<1>3. /\ b \in [Accounts -> Int]
      /\ x >= 0 =>
           /\ \A r \in Accounts \ System : b[r] >= 0 \/ b[r] >= Balances[r]
           /\ SumFunction(Funds(b)) <= SumFunction(Funds(Balances))
           /\ p \notin System => SumFunction(Funds(b))
                                   = SumFunction(Funds(Balances)) - x
  BY <1>1, <1>2, PaidIs DEF IInv
<1> HIDE DEF b, d
<1>5. TypeOK'
  <2>1. StakedEDN' \in [Accounts -> (-MaxStake) .. MaxStake]
    BY <1>1, <1>2
  <2> QED BY <1>1, <1>2, <1>3, <2>1, AcceptTyped DEF TypeOK, IInv, matches
<1>6. ASSUME ~ negative'
      PROVE  /\ ~ negative
             /\ StakesPositive(StakedEDN') /\ BetsPositive(ActivePools')
             /\ Covered(Balances', ActivePools')
             /\ Held(Balances', StakedEDN', ActivePools')
                  <= Held(Balances, StakedEDN, ActivePools) + (issued' - issued)
  <2>1. ~ negative /\ x >= 0
    <3>1. Accept(p, {x}) /\ x \in Int /\ TypeOK
      BY <1>1, <1>2 DEF IInv
    <3>2. ~ negative /\ \A y \in {x} : y \in Int => y >= 0
      BY <1>6, <3>1, AcceptSign
    <3> QED BY <3>1, <3>2
  <2>2. /\ StakesPositive(StakedEDN) /\ BetsPositive(ActivePools)
        /\ Covered(Balances, ActivePools)
    BY <2>1 DEF IInv, MoneySound
  <2>3. Covered(b, ActivePools)
    BY <1>1, <1>3, <2>1, <2>2, CoveredFrame
  <2>4. StakesPositive(StakedEDN')
    <3>1. d >= 0
      BY <1>1, <2>1, <2>2 DEF StakesPositive, d
    <3> QED BY <1>1, <1>2, <2>2, <3>1 DEF StakesPositive
  <2> DEFINE f == SumFunction(Funds(Balances))
             g == SumFunction(Funds(b))
             s == SumFunction(StakedEDN)
             t == SumFunction(StakedEDN')
             r == SumFunction(Pots(ActivePools))
             i == issued
             j == issued'
             k == StakedEDN[p]
  <2>5. /\ f \in Int /\ g \in Int /\ s \in Int /\ r \in Int /\ i \in Int
        /\ k \in Int /\ j \in Int
    BY <1>1, <1>2, <1>3, HeldTyped, FundsTyped
  <2>6. t = s - k + (k + x)
    <3>1. t = s - k + d
      BY <1>1, <1>2, AccountsFinite, SumChange
    <3> QED BY <3>1 DEF d
  <2>7. g + x <= f + (j - i)
    <3>1. CASE p \in System
      <4>1. g <= f /\ j = i + x
        BY <1>2, <1>3, <2>1, <3>1
      <4> HIDE DEF f, g, i, j
      <4> QED BY <1>1, <2>5, <4>1
    <3>2. CASE p \notin System
      <4>1. g = f - x /\ j = i
        BY <1>2, <1>3, <2>1, <3>2
      <4> HIDE DEF f, g, i, j
      <4> QED BY <1>1, <2>5, <4>1
    <3> QED BY <3>1, <3>2
  <2>8. g + t + r <= (f + s + r) + (j - i)
    <3> HIDE DEF f, g, s, t, r, i, j, k
    <3> QED BY <1>1, <2>5, <2>6, <2>7
  <2>9. Held(Balances', StakedEDN', ActivePools')
          <= Held(Balances, StakedEDN, ActivePools) + (issued' - issued)
    BY <1>2, <2>8 DEF Held
  <2> QED BY <1>2, <2>1, <2>2, <2>3, <2>4, <2>9
<1>7. Grows
  BY <1>6 DEF Grows
<1>8. MatchesSound' /\ AddsUp(ActivePools')
  BY <1>2, MatchFrame DEF IInv
<1> QED BY <1>5, <1>7, <1>8, Keeps

\* A bet is pooled once.  It is debited once, after the generic debit, and the
\* bettor, who had that much before, owes no more than the bet.
LEMMA PlaceBetKeeps ==
  ASSUME IInv, NEW p \in Accounts, NEW word \in IDs, NEW x \in Amounts,
         PlaceBet(p, word, x)
  PROVE  IInv' /\ Grows
<1> DEFINE bet == [bettor |-> p, amount |-> x, team |-> NoTeam]
           pools == [ActivePools EXCEPT ![word] = PoolWith(word, bet)]
           b == Paid(p, x)
           c == Credit(b, p, -x)
<1>1. /\ Balances \in [Accounts -> Int] /\ StakedEDN \in [Accounts -> Int]
      /\ ActivePools \in [IDs -> Pool \cup {None}] /\ issued \in Int
      /\ x \in Int /\ -x \in Int
  BY TypedMoney, AmountsAreIntegers DEF IInv
<1>2. /\ Accept(p, {x}) /\ (p \in System \/ Balances[p] >= x)
      /\ Balances' = c /\ StakedEDN' = StakedEDN /\ QueueBans' = QueueBans
      /\ ActivePools' = pools /\ TribunalVotes' = TribunalVotes
      /\ UNCHANGED matches
      /\ issued' = IF p \in System THEN issued + x ELSE issued
  BY DEF PlaceBet, Valid, ParsedBet
<1>3. /\ b \in [Accounts -> Int]
      /\ x >= 0 =>
           /\ \A r \in Accounts \ System : b[r] >= 0 \/ b[r] >= Balances[r]
           /\ SumFunction(Funds(b)) <= SumFunction(Funds(Balances))
           /\ p \notin System => SumFunction(Funds(b))
                                   = SumFunction(Funds(Balances)) - x
  BY <1>1, <1>2, PaidIs DEF IInv
<1>4. bet \in Bets /\ bet.team = NoTeam /\ bet.bettor = p /\ bet.amount = x
  BY <1>1 DEF Bets
<1>5. p \notin System => b[p] = Balances[p] + (-x)
  BY <1>1 DEF Paid, Credit
<1> HIDE DEF b, bet
<1>6. /\ c \in [Accounts -> Int] /\ c[p] = b[p] + (-x)
      /\ \A r \in Accounts : r # p => c[r] = b[r]
  <2> DEFINE y == -x
  <2>1. y \in Int
    BY <1>1
  <2> HIDE DEF y
  <2>2. /\ Credit(b, p, y) \in [Accounts -> Int] /\ Credit(b, p, y)[p] = b[p] + y
        /\ \A r \in Accounts : r # p => Credit(b, p, y)[r] = b[r]
    BY <1>3, <2>1, CreditTyped
  <2> QED BY <2>2 DEF y
<1> HIDE DEF c
<1>7. /\ pools \in [IDs -> Pool \cup {None}]
      /\ AddsUp(pools)
      /\ SumFunction(Pots(pools)) = SumFunction(Pots(ActivePools)) + bet.amount
      /\ pools[word] # None /\ pools[word].bets = Append(BetsIn(word), bet)
      /\ BetsIn(word) \in Seq(Bets)
      /\ \A n \in IDs : n # word => pools[n] = ActivePools[n]
      /\ BetsPositive(ActivePools) /\ bet.amount >= 0 => BetsPositive(pools)
  BY <1>4, PoolsWithBet DEF IInv
<1> HIDE DEF pools
<1>8. TypeOK'
  BY <1>1, <1>2, <1>6, <1>7, AcceptTyped DEF TypeOK, IInv, matches
<1>9. ASSUME ~ negative'
      PROVE  /\ ~ negative
             /\ StakesPositive(StakedEDN') /\ BetsPositive(ActivePools')
             /\ Covered(Balances', ActivePools')
             /\ Held(Balances', StakedEDN', ActivePools')
                  <= Held(Balances, StakedEDN, ActivePools) + (issued' - issued)
  <2>1. ~ negative /\ x >= 0 /\ x \in Nat
    <3>1. Accept(p, {x}) /\ x \in Int /\ TypeOK
      BY <1>1, <1>2 DEF IInv
    <3>2. ~ negative /\ \A y \in {x} : y \in Int => y >= 0
      BY <1>9, <3>1, AcceptSign
    <3> QED BY <3>1, <3>2
  <2>2. /\ StakesPositive(StakedEDN) /\ BetsPositive(ActivePools)
        /\ Covered(Balances, ActivePools)
    BY <2>1 DEF IInv, MoneySound
  <2>3. Covered(c, pools)
    <3> SUFFICES ASSUME NEW r \in Accounts \ System, ~ (c[r] >= 0)
                 PROVE  \E k \in IDs :
                          /\ pools[k] # None
                          /\ \E i \in DOMAIN pools[k].bets :
                                /\ pools[k].bets[i].bettor = r
                                /\ c[r] >= - pools[k].bets[i].amount
      BY DEF Covered
    <3> DEFINE s == BetsIn(word)
    <3>1. /\ s \in Seq(Bets) /\ Len(s) \in Nat
          /\ DOMAIN Append(s, bet) = 1 .. (Len(s) + 1)
          /\ DOMAIN s = 1 .. Len(s)
          /\ Append(s, bet)[Len(s) + 1] = bet
          /\ \A i \in 1 .. Len(s) : Append(s, bet)[i] = s[i]
      BY <1>7
    <3>2. CASE r = p
      <4>1. Balances[p] >= x /\ Balances[p] \in Int /\ b[p] = Balances[p] + (-x)
        BY <1>1, <1>2, <1>5, <3>2
      <4>2. c[p] = b[p] + (-x) /\ c[p] >= -x
        BY <1>1, <1>6, <4>1
      <4>3. /\ Len(s) + 1 \in DOMAIN pools[word].bets
            /\ pools[word].bets[Len(s) + 1] = bet
        BY <1>7, <3>1
      <4> QED BY <1>4, <1>7, <3>2, <4>2, <4>3
    <3>3. CASE r # p
      <4>1. c[r] = b[r] /\ b[r] \in Int /\ Balances[r] \in Int
        BY <1>1, <1>3, <1>6, <3>3
      <4>2. b[r] >= Balances[r] /\ ~ (Balances[r] >= 0)
        BY <1>3, <2>1, <4>1
      <4>3. PICK k \in IDs :
               /\ ActivePools[k] # None
               /\ \E i \in DOMAIN ActivePools[k].bets :
                     /\ ActivePools[k].bets[i].bettor = r
                     /\ Balances[r] >= - ActivePools[k].bets[i].amount
        BY <2>2, <4>2 DEF Covered
      <4>4. PICK i \in DOMAIN ActivePools[k].bets :
               /\ ActivePools[k].bets[i].bettor = r
               /\ Balances[r] >= - ActivePools[k].bets[i].amount
        BY <4>3
      <4>5. ActivePools[k].bets[i].amount \in Int
        <5>1. ActivePools[k].bets \in Seq(Bets)
          BY <1>1, <4>3 DEF Pool
        <5>2. ActivePools[k].bets[i] \in Bets
          BY <5>1
        <5> QED BY <5>2 DEF Bets
      <4>6. c[r] >= - ActivePools[k].bets[i].amount
        BY <4>1, <4>2, <4>4, <4>5
      <4>7. CASE k # word
        <5>1. pools[k] = ActivePools[k]
          BY <1>7, <4>7
        <5> QED BY <4>3, <4>4, <4>6, <5>1
      <4>8. CASE k = word
        <5>1. s = ActivePools[k].bets
          BY <4>3, <4>8 DEF BetsIn
        <5>2. i \in 1 .. Len(s) /\ i \in DOMAIN pools[word].bets
              /\ pools[word].bets[i] = s[i]
          BY <1>7, <3>1, <4>4, <5>1
        <5> QED BY <1>7, <4>4, <4>6, <4>8, <5>1, <5>2
      <4> QED BY <4>7, <4>8
    <3> QED BY <3>2, <3>3
  <2> DEFINE f == SumFunction(Funds(Balances))
             g == SumFunction(Funds(b))
             h == SumFunction(Funds(c))
             s == SumFunction(StakedEDN)
             r == SumFunction(Pots(ActivePools))
             t == SumFunction(Pots(pools))
             i == issued
             j == issued'
  <2>4. /\ f \in Int /\ g \in Int /\ h \in Int /\ s \in Int /\ r \in Int
        /\ i \in Int /\ j \in Int
    <3>1. j \in Int
      BY <1>1, <1>2
    <3>2. g \in Int /\ h \in Int
      BY <1>3, <1>6, FundsTyped
    <3> QED BY <1>1, <3>1, <3>2, HeldTyped
  <2>5. t = r + x
    BY <1>4, <1>7
  <2>6. h <= g
    BY <1>3, <2>1, CreditFunds DEF c
  <2>7. g + x <= f + (j - i)
    <3>1. CASE p \in System
      <4>1. g <= f /\ j = i + x
        BY <1>2, <1>3, <2>1, <3>1
      <4> HIDE DEF f, g, i, j
      <4> QED BY <1>1, <2>4, <4>1
    <3>2. CASE p \notin System
      <4>1. g = f - x /\ j = i
        BY <1>2, <1>3, <2>1, <3>2
      <4> HIDE DEF f, g, i, j
      <4> QED BY <1>1, <2>4, <4>1
    <3> QED BY <3>1, <3>2
  <2>8. h + s + t <= (f + s + r) + (j - i)
    <3> HIDE DEF f, g, h, s, r, t, i, j
    <3> QED BY <1>1, <2>4, <2>5, <2>6, <2>7
  <2>9. Held(Balances', StakedEDN', ActivePools')
          <= Held(Balances, StakedEDN, ActivePools) + (issued' - issued)
    BY <1>2, <2>8 DEF Held
  <2> QED BY <1>2, <1>4, <1>7, <2>1, <2>2, <2>3, <2>9
<1>10. Grows
  BY <1>9 DEF Grows
<1>11. MatchesSound' /\ AddsUp(ActivePools')
  BY <1>2, <1>7, MatchFrame DEF IInv
<1> QED BY <1>8, <1>10, <1>11, Keeps

\* What a block costs is attached to it, of either sign.
LEMMA AttachedTyped ==
  ASSUME NEW x \in Attached
  PROVE  x \in Int
BY AmountsAreIntegers

\* Starting a match moves no coin but the fee.
LEMMA StartMatchKeeps ==
  ASSUME IInv, NEW p \in Accounts, NEW m \in IDs, NEW r \in Rosters,
         NEW x \in Attached, StartMatch(p, m, r, x)
  PROVE  IInv' /\ Grows
<1>1. /\ Accept(p, {x}) /\ (p \in System \/ Balances[p] >= x)
      /\ Balances' = Paid(p, x) /\ OpenMatch(p, m, r)
      /\ StakedEDN' = StakedEDN /\ issued' = issued /\ QueueBans' = QueueBans
      /\ ActivePools' = ActivePools /\ TribunalVotes' = TribunalVotes
  BY DEF StartMatch, Valid
<1>2. Balances' \in [Accounts -> Int] /\ Grows
  BY <1>1, AttachedTyped, PaidGrows
<1>3. /\ MatchSessions' \in [IDs -> Session \cup {None}]
      /\ MatchVotes' \in [IDs -> [Accounts -> Ballot \cup {None}] \cup {None}]
      /\ MatchesSound'
  BY <1>1, OpenMatchInv DEF IInv
<1>4. TypeOK'
  BY <1>1, <1>2, <1>3, AcceptTyped DEF TypeOK, IInv
<1> QED BY <1>1, <1>2, <1>3, <1>4, Keeps DEF IInv

\* A block that pays, and touches at most the bans.
LEMMA PlainKeeps ==
  ASSUME IInv, NEW p \in Accounts, NEW x \in Attached, NEW xs, x \in xs,
         Accept(p, xs), p \in System \/ Balances[p] >= x,
         Balances' = Paid(p, x), QueueBans' \in [Accounts -> Int],
         TribunalVotes' \in [Case -> [Accounts -> Verdict \cup {None}]],
         UNCHANGED <<StakedEDN, issued, ActivePools, matches>>
  PROVE  IInv' /\ Grows
<1>1. /\ StakedEDN' = StakedEDN /\ issued' = issued
      /\ ActivePools' = ActivePools /\ UNCHANGED matches
  OBVIOUS
<1>2. Balances' \in [Accounts -> Int] /\ Grows
  BY <1>1, AttachedTyped, PaidGrows
<1>3. MatchesSound'
  BY <1>1, MatchFrame DEF IInv
<1>4. TypeOK'
  BY <1>1, <1>2, AcceptTyped DEF TypeOK, IInv, matches
<1> QED BY <1>1, <1>2, <1>3, <1>4, Keeps DEF IInv

\* What a block of p that costs x has paid before its case is looked at.
LEMMA PaidBefore ==
  ASSUME IInv, NEW p \in Accounts, NEW x \in Int, NEW xs, x \in xs,
         Accept(p, xs), p \in System \/ Balances[p] >= x
  PROVE  /\ Paid(p, x) \in [Accounts -> Int]
         /\ ~ negative' =>
              /\ ~ negative
              /\ StakesPositive(StakedEDN) /\ BetsPositive(ActivePools)
              /\ Covered(Paid(p, x), ActivePools)
              /\ Covered(Balances, ActivePools)
              /\ \A q \in Accounts \ System :
                    Paid(p, x)[q] >= 0 \/ Paid(p, x)[q] >= Balances[q]
              /\ SumFunction(Funds(Paid(p, x))) <= SumFunction(Funds(Balances))
<1> DEFINE b == Paid(p, x)
<1>1. Balances \in [Accounts -> Int] /\ ActivePools \in [IDs -> Pool \cup {None}]
  BY TypedMoney DEF IInv
<1>2. /\ b \in [Accounts -> Int]
      /\ x >= 0 =>
           /\ \A q \in Accounts \ System : b[q] >= 0 \/ b[q] >= Balances[q]
           /\ SumFunction(Funds(b)) <= SumFunction(Funds(Balances))
  BY PaidIs DEF IInv
<1> HIDE DEF b
<1>3. ASSUME ~ negative'
      PROVE  /\ ~ negative
             /\ StakesPositive(StakedEDN) /\ BetsPositive(ActivePools)
             /\ Covered(b, ActivePools)
             /\ Covered(Balances, ActivePools)
             /\ \A q \in Accounts \ System : b[q] >= 0 \/ b[q] >= Balances[q]
             /\ SumFunction(Funds(b)) <= SumFunction(Funds(Balances))
  <2>1. ~ negative /\ \A y \in xs : y \in Int => y >= 0
    BY <1>3, AcceptSign DEF IInv
  <2>2. x >= 0
    BY <2>1
  <2>3. /\ StakesPositive(StakedEDN) /\ BetsPositive(ActivePools)
        /\ Covered(Balances, ActivePools)
    BY <2>1 DEF IInv, MoneySound
  <2>4. Covered(b, ActivePools)
    BY <1>1, <1>2, <2>2, <2>3, CoveredFrame
  <2> QED BY <1>2, <2>1, <2>2, <2>3, <2>4
<1> QED BY <1>2, <1>3 DEF b

\* An abort by the host gives the pool of the match back; by another it does
\* nothing but cost.
LEMMA AbortMatchKeeps ==
  ASSUME IInv, NEW p \in Accounts, NEW m \in IDs, NEW x \in Attached,
         AbortMatch(p, m, x)
  PROVE  IInv' /\ Grows
<1>1. /\ Accept(p, {x}) /\ (p \in System \/ Balances[p] >= x)
      /\ StakedEDN' = StakedEDN /\ issued' = issued /\ QueueBans' = QueueBans
      /\ TribunalVotes' = TribunalVotes
  BY DEF AbortMatch, Valid
<1>2. x \in Int /\ x \in {x}
  BY AttachedTyped
<1>3. CASE ~ IsHost(p, m)
  <2>1. Balances' = Paid(p, x) /\ UNCHANGED <<ActivePools, matches>>
    BY <1>3 DEF AbortMatch
  <2>2. /\ QueueBans' \in [Accounts -> Int]
        /\ TribunalVotes' \in [Case -> [Accounts -> Verdict \cup {None}]]
    BY <1>1 DEF IInv, TypeOK
  <2>3. UNCHANGED <<StakedEDN, issued, ActivePools, matches>>
    BY <1>1, <2>1
  <2> QED BY <1>1, <1>2, <2>1, <2>2, <2>3, PlainKeeps
<1>4. CASE IsHost(p, m)
  <2> DEFINE b == Paid(p, x)
  <2>1. /\ Balances' = AfterAbort(b, m)
        /\ ActivePools' = [ActivePools EXCEPT ![m] = None]
        /\ CloseMatch(m)
    BY <1>4 DEF AbortMatch
  <2>2. /\ b \in [Accounts -> Int]
        /\ ~ negative' =>
             /\ ~ negative /\ Covered(b, ActivePools)
             /\ SumFunction(Funds(b)) <= SumFunction(Funds(Balances))
    BY <1>1, <1>2, PaidBefore
  <2> HIDE DEF b
  <2>3. issued \in Int /\ issued' \in Int
    BY <1>1, TypedMoney DEF IInv
  <2>4. ~ negative' =>
          /\ ~ negative /\ Covered(b, ActivePools)
          /\ SumFunction(Funds(b)) <= SumFunction(Funds(Balances))
                                        + (issued' - issued)
    <3>1. Balances \in [Accounts -> Int]
      BY TypedMoney DEF IInv
    <3>2. SumFunction(Funds(Balances)) \in Int /\ SumFunction(Funds(b)) \in Int
      BY <2>2, <3>1, FundsTyped
    <3> QED BY <1>1, <2>2, <2>3, <3>2
  <2>5. /\ Balances' \in [Accounts -> Int]
        /\ ActivePools' \in [IDs -> Pool \cup {None}]
        /\ AddsUp(ActivePools') /\ Grows
    BY <1>1, <2>1, <2>2, <2>3, <2>4, CloseGrows
  <2>6. /\ MatchSessions' \in [IDs -> Session \cup {None}]
        /\ MatchVotes' \in [IDs -> [Accounts -> Ballot \cup {None}] \cup {None}]
        /\ MatchesSound'
    BY <2>1, CloseMatchInv DEF IInv
  <2>7. TypeOK'
    BY <1>1, <2>3, <2>5, <2>6, AcceptTyped DEF TypeOK, IInv
  <2> QED BY <2>5, <2>6, <2>7, Keeps
<1> QED BY <1>3, <1>4

\* A witness that decides pays the host and gives the pool back; any other
\* pays for its block, and a participant's ballot is kept.
LEMMA WitnessKeeps ==
  ASSUME IInv, NEW p \in Accounts, NEW m \in Matches, NEW ballot \in Ballot,
         NEW w \in Rewards, NEW x \in Attached, Witness(p, m, ballot, w, x)
  PROVE  IInv' /\ Grows
<1> DEFINE decided == HasMajority(Cardinality(Agreeing(p, m, ballot)),
                                  MatchSessions[m].roster)
           xs == {x, w}
<1>0. m \in IDs
  BY DEF IDs
<1>1. /\ Accept(p, xs) /\ (p \in System \/ Balances[p] >= x)
      /\ StakedEDN' = StakedEDN /\ QueueBans' = QueueBans
      /\ TribunalVotes' = TribunalVotes
  BY DEF Witness, Valid
<1>2. x \in Int /\ x \in xs /\ w \in Int /\ w \in xs
  BY AttachedTyped, AmountsAreIntegers
<1>3. \/ /\ ~ IsParticipant(p, m)
         /\ Balances' = Paid(p, x)
         /\ UNCHANGED <<issued, ActivePools, matches>>
      \/ /\ IsParticipant(p, m)
         /\ ~ decided
         /\ Balances' = Paid(p, x)
         /\ MatchVotes' = [MatchVotes EXCEPT ![m][p] = ballot]
         /\ UNCHANGED <<issued, ActivePools, MatchSessions>>
      \/ /\ IsParticipant(p, m)
         /\ decided
         /\ Balances' = Settled(Credit(Paid(p, x), MatchSessions[m].host, w),
                                m, ballot[1])
         /\ issued' = issued + w
         /\ ActivePools' = [ActivePools EXCEPT ![m] = None]
         /\ CloseMatch(m)
  BY Zenon DEF Witness
<1> HIDE DEF xs
<1>4. CASE /\ ~ IsParticipant(p, m)
           /\ Balances' = Paid(p, x)
           /\ UNCHANGED <<issued, ActivePools, matches>>
  <2>1. /\ QueueBans' \in [Accounts -> Int]
        /\ TribunalVotes' \in [Case -> [Accounts -> Verdict \cup {None}]]
    BY <1>1 DEF IInv, TypeOK
  <2>2. UNCHANGED <<StakedEDN, issued, ActivePools, matches>>
    BY <1>1, <1>4
  <2> QED BY <1>1, <1>2, <1>4, <2>1, <2>2, PlainKeeps
<1>5. CASE /\ IsParticipant(p, m)
           /\ ~ decided
           /\ Balances' = Paid(p, x)
           /\ MatchVotes' = [MatchVotes EXCEPT ![m][p] = ballot]
           /\ UNCHANGED <<issued, ActivePools, MatchSessions>>
  <2>1. /\ MatchVotes' \in [IDs -> [Accounts -> Ballot \cup {None}] \cup {None}]
        /\ MatchesSound'
    BY <1>0, <1>5, BallotInv DEF IInv
  <2>2. issued' = issued /\ ActivePools' = ActivePools
        /\ MatchSessions' = MatchSessions
    BY <1>5
  <2>3. Balances' \in [Accounts -> Int] /\ Grows
    BY <1>1, <1>2, <1>5, <2>2, PaidGrows
  <2>4. TypeOK'
    BY <1>1, <2>1, <2>2, <2>3, AcceptTyped DEF TypeOK, IInv
  <2> QED BY <2>1, <2>2, <2>3, <2>4, Keeps DEF IInv
<1>6. CASE /\ IsParticipant(p, m)
           /\ decided
           /\ Balances' = Settled(Credit(Paid(p, x), MatchSessions[m].host, w),
                                  m, ballot[1])
           /\ issued' = issued + w
           /\ ActivePools' = [ActivePools EXCEPT ![m] = None]
           /\ CloseMatch(m)
  <2> DEFINE h == MatchSessions[m].host
             a == Paid(p, x)
             b == Credit(a, h, w)
  <2>1. h \in Accounts
    BY <1>0, <1>6 DEF IInv, TypeOK, IsParticipant, Session
  <2>2. Balances' = AfterAbort(b, m)
    BY <1>0, <1>6, SettledIsRefund DEF IInv
  <2>3. /\ a \in [Accounts -> Int]
        /\ ~ negative' =>
             /\ ~ negative /\ Covered(a, ActivePools)
             /\ SumFunction(Funds(a)) <= SumFunction(Funds(Balances))
    BY <1>1, <1>2, PaidBefore
  <2>4. /\ Balances \in [Accounts -> Int] /\ issued \in Int /\ issued' \in Int
        /\ issued' - issued = w /\ ActivePools \in [IDs -> Pool \cup {None}]
    BY <1>2, <1>6, TypedMoney DEF IInv
  <2> HIDE DEF h, a
  <2>5. /\ b \in [Accounts -> Int] /\ b[h] = a[h] + w
        /\ \A r \in Accounts : r # h => b[r] = a[r]
    BY <1>2, <2>1, <2>3, CreditTyped
  <2>6. ASSUME ~ negative'
        PROVE  /\ ~ negative /\ Covered(b, ActivePools)
               /\ SumFunction(Funds(b)) <= SumFunction(Funds(Balances))
                                             + (issued' - issued)
    <3>1. w >= 0 /\ w \in Nat
      <4>1. \A y \in xs : y \in Int => y >= 0
        BY <1>1, <2>6, AcceptSign DEF IInv
      <4> QED BY <1>2, <4>1
    <3>2. SumFunction(Funds(b)) <= SumFunction(Funds(a)) + w
      BY <2>1, <2>3, <3>1, CreditFunds
    <3>3. Covered(b, ActivePools)
      <4>1. ASSUME NEW r \in Accounts \ System PROVE b[r] >= 0 \/ b[r] >= a[r]
        <5>1. a[r] \in Int /\ b[r] \in Int
          BY <2>3, <2>5
        <5> QED BY <2>5, <3>1, <5>1
      <4> HIDE DEF b
      <4> QED BY <2>3, <2>4, <2>5, <2>6, <4>1, CoveredFrame
    <3>4. /\ SumFunction(Funds(b)) \in Int /\ SumFunction(Funds(a)) \in Int
          /\ SumFunction(Funds(Balances)) \in Int
      <4> HIDE DEF b
      <4> QED BY <2>3, <2>4, <2>5, FundsTyped
    <3>5. ~ negative /\ SumFunction(Funds(a)) <= SumFunction(Funds(Balances))
      BY <2>3, <2>6
    <3> DEFINE f == SumFunction(Funds(Balances))
               g == SumFunction(Funds(a))
               k == SumFunction(Funds(b))
    <3>6. k <= f + w
      <4>1. /\ f \in Int /\ g \in Int /\ k \in Int
            /\ k <= g + w /\ g <= f
        BY <3>2, <3>4, <3>5
      <4> HIDE DEF f, g, k
      <4> QED BY <1>2, <4>1
    <3> HIDE DEF b
    <3> QED BY <2>4, <3>3, <3>5, <3>6
  <2> HIDE DEF b
  <2>7. /\ Balances' \in [Accounts -> Int]
        /\ ActivePools' \in [IDs -> Pool \cup {None}]
        /\ AddsUp(ActivePools') /\ Grows
    BY <1>0, <1>1, <1>6, <2>2, <2>4, <2>5, <2>6, CloseGrows
  <2>8. /\ MatchSessions' \in [IDs -> Session \cup {None}]
        /\ MatchVotes' \in [IDs -> [Accounts -> Ballot \cup {None}] \cup {None}]
        /\ MatchesSound'
    BY <1>0, <1>6, CloseMatchInv DEF IInv
  <2>9. TypeOK'
    BY <1>1, <2>4, <2>7, <2>8, AcceptTyped DEF TypeOK, IInv
  <2> QED BY <2>7, <2>8, <2>9, Keeps
<1> QED BY <1>3, <1>4, <1>5, <1>6

\* A case that closes on wallets b moves stake into wallets, and makes no coin
\* where no stake is negative.
LEMMA VerdictKeeps ==
  ASSUME IInv, NEW p \in Accounts, NEW x \in Int, NEW xs, x \in xs,
         Accept(p, xs),
         NEW c \in Case, NEW ballots, NEW v, NEW w, NEW b \in [Accounts -> Int],
         PayValidators(c, ballots, v, w, b),
         ~ negative' =>
            /\ ~ negative
            /\ StakesPositive(StakedEDN) /\ BetsPositive(ActivePools)
            /\ Covered(b, ActivePools)
            /\ SumFunction(Funds(b)) <= SumFunction(Funds(Balances)),
         QueueBans' \in [Accounts -> Int],
         UNCHANGED <<issued, ActivePools, matches>>
  PROVE  IInv' /\ Grows
<1>1. /\ Balances \in [Accounts -> Int] /\ StakedEDN \in [Accounts -> Int]
      /\ ActivePools \in [IDs -> Pool \cup {None}] /\ issued \in Int
  BY TypedMoney DEF IInv
<1>2. /\ StakedEDN' \in [Accounts -> (-MaxStake) .. MaxStake]
      /\ Balances' \in [Accounts -> Int]
      /\ TribunalVotes' \in [Case -> [Accounts -> Verdict \cup {None}]]
      /\ StakesPositive(StakedEDN) =>
           /\ StakesPositive(StakedEDN')
           /\ \A q \in Accounts : Balances'[q] >= b[q]
  BY PayValidatorsTyped DEF IInv
<1>3. issued' = issued /\ ActivePools' = ActivePools /\ UNCHANGED matches
  OBVIOUS
<1>4. TypeOK'
  BY <1>1, <1>2, <1>3, AcceptTyped DEF TypeOK, IInv, matches
<1>5. ASSUME ~ negative'
      PROVE  /\ ~ negative
             /\ StakesPositive(StakedEDN') /\ BetsPositive(ActivePools')
             /\ Covered(Balances', ActivePools')
             /\ Held(Balances', StakedEDN', ActivePools')
                  <= Held(Balances, StakedEDN, ActivePools) + (issued' - issued)
  <2>1. /\ ~ negative
        /\ StakesPositive(StakedEDN) /\ BetsPositive(ActivePools)
        /\ Covered(b, ActivePools)
        /\ SumFunction(Funds(b)) <= SumFunction(Funds(Balances))
    BY <1>5
  <2> DEFINE n == Balances'
  <2>2. n \in [Accounts -> Int] /\ \A q \in Accounts : n[q] >= b[q]
    BY <1>2, <2>1
  <2>3. Covered(n, ActivePools)
    <3> HIDE DEF n
    <3> QED BY <1>1, <2>1, <2>2, CoveredFrame
  <2>4. SumFunction(Funds(Balances')) + SumFunction(StakedEDN')
          <= SumFunction(Funds(b)) + SumFunction(StakedEDN)
    BY <2>1, PayoutSupply DEF IInv
  <2> DEFINE f == SumFunction(Funds(Balances))
             g == SumFunction(Funds(b))
             h == SumFunction(Funds(Balances'))
             s == SumFunction(StakedEDN)
             t == SumFunction(StakedEDN')
             r == SumFunction(Pots(ActivePools))
             i == issued
  <2>5. /\ f \in Int /\ g \in Int /\ h \in Int /\ s \in Int /\ t \in Int
        /\ r \in Int /\ i \in Int
    <3>1. g \in Int /\ h \in Int
      BY <1>2, FundsTyped
    <3>2. t \in Int
      <4>1. MaxStake \in Nat
        BY AmountsAreIntegers
      <4>2. StakedEDN' \in [Accounts -> Int]
        BY <1>2, <4>1
      <4> QED BY <4>2, AccountsFinite, SumType
    <3> QED BY <1>1, <3>1, <3>2, HeldTyped
  <2>6. g <= f /\ h + t <= g + s
    BY <2>1, <2>4
  <2>7. h + t + r <= (f + s + r) + (i - i)
    <3> HIDE DEF f, g, h, s, t, r, i
    <3> QED BY <2>5, <2>6
  <2>8. Held(Balances', StakedEDN', ActivePools')
          <= Held(Balances, StakedEDN, ActivePools) + (issued' - issued)
    BY <1>3, <2>7 DEF Held
  <2> QED BY <1>2, <1>3, <2>1, <2>3, <2>8
<1>6. Grows
  BY <1>5 DEF Grows
<1>7. MatchesSound' /\ AddsUp(ActivePools')
  BY <1>3, MatchFrame DEF IInv
<1> QED BY <1>4, <1>6, <1>7, Keeps

\* A ballot in a case costs its block, and a verdict may close the case.  A
\* conviction empties the suspect's wallet, which also clears its debt.
LEMMA JudgeKeeps ==
  ASSUME IInv, NEW p \in Accounts, NEW c \in Case, NEW v \in Verdict,
         NEW ts \in Times, NEW x \in Attached, Judge(p, c, v, ts, x)
  PROVE  IInv' /\ Grows
<1> DEFINE ballots == [TribunalVotes[c] EXCEPT ![p] = v]
           a == Paid(p, x)
           suspect == c[2]
           b == [a EXCEPT ![suspect] = 0]
<1>1. /\ Accept(p, {x}) /\ (p \in System \/ Balances[p] >= x)
      /\ issued' = issued /\ ActivePools' = ActivePools /\ UNCHANGED matches
      /\ UNCHANGED <<issued, ActivePools, matches>>
  BY DEF Judge, Valid
<1>2. x \in Int /\ x \in {x}
  BY AttachedTyped
<1>3. /\ a \in [Accounts -> Int]
      /\ ~ negative' =>
           /\ ~ negative
           /\ StakesPositive(StakedEDN) /\ BetsPositive(ActivePools)
           /\ Covered(a, ActivePools) /\ Covered(Balances, ActivePools)
           /\ \A q \in Accounts \ System : a[q] >= 0 \/ a[q] >= Balances[q]
           /\ SumFunction(Funds(a)) <= SumFunction(Funds(Balances))
  BY <1>1, <1>2, PaidBefore
<1>4. ballots \in [Accounts -> Verdict \cup {None}]
  BY DEF IInv, TypeOK
<1>5. suspect \in Accounts /\ ts + TribunalBan \in Int
  BY AccountsFinite, AmountsAreIntegers DEF Case
<1>6. /\ Balances \in [Accounts -> Int] /\ ActivePools \in [IDs -> Pool \cup {None}]
      /\ QueueBans \in [Accounts -> Int]
  BY TypedMoney DEF IInv, TypeOK
<1>7. \/ /\ \A w \in Verdict : ~ Decides(ballots, w)
         /\ Balances' = a
         /\ TribunalVotes' = [TribunalVotes EXCEPT ![c] = ballots]
         /\ UNCHANGED <<StakedEDN, QueueBans>>
      \/ /\ QueueBans' = [QueueBans EXCEPT ![suspect] = ts + TribunalBan]
         /\ PayValidators(c, ballots, "guilty", "innocent", b)
      \/ /\ PayValidators(c, ballots, "innocent", "guilty", a)
         /\ UNCHANGED QueueBans
  BY Zenon DEF Judge
<1> HIDE DEF ballots, a, suspect
<1>8. CASE /\ \A w \in Verdict : ~ Decides(ballots, w)
           /\ Balances' = a
           /\ TribunalVotes' = [TribunalVotes EXCEPT ![c] = ballots]
           /\ UNCHANGED <<StakedEDN, QueueBans>>
  <2>1. /\ QueueBans' \in [Accounts -> Int]
        /\ TribunalVotes' \in [Case -> [Accounts -> Verdict \cup {None}]]
    BY <1>4, <1>6, <1>8 DEF IInv, TypeOK
  <2>2. UNCHANGED <<StakedEDN, issued, ActivePools, matches>>
    BY <1>1, <1>8
  <2> QED BY <1>1, <1>2, <1>8, <2>1, <2>2, PlainKeeps DEF a
<1>9. CASE /\ QueueBans' = [QueueBans EXCEPT ![suspect] = ts + TribunalBan]
           /\ PayValidators(c, ballots, "guilty", "innocent", b)
  <2>1. /\ b \in [Accounts -> Int] /\ b[suspect] = 0
        /\ \A q \in Accounts : q # suspect => b[q] = a[q]
    BY <1>3, <1>5
  <2>2. QueueBans' \in [Accounts -> Int]
    <3> DEFINE until == ts + TribunalBan
    <3>1. until \in Int /\ QueueBans' = [QueueBans EXCEPT ![suspect] = until]
      BY <1>5, <1>9
    <3> HIDE DEF until
    <3> QED BY <1>6, <3>1
  <2>3. SumFunction(Funds(b)) <= SumFunction(Funds(a))
        /\ SumFunction(Funds(a)) \in Int /\ SumFunction(Funds(b)) \in Int
    <3> DEFINE d == 0
    <3>1. d \in Int /\ Positive(d) = 0
      BY DEF Positive
    <3> HIDE DEF d
    <3>2. SumFunction(Funds([a EXCEPT ![suspect] = d]))
             = SumFunction(Funds(a)) - Positive(a[suspect]) + Positive(d)
      BY <1>3, <1>5, <3>1, FundsChange
    <3>3. SumFunction(Funds(a)) \in Int
      BY <1>3, FundsTyped
    <3>4. Positive(a[suspect]) \in Nat
      BY <1>3, <1>5 DEF Positive
    <3>5. b = [a EXCEPT ![suspect] = d]
      BY DEF d
    <3> HIDE DEF b
    <3> QED BY <3>1, <3>2, <3>3, <3>4, <3>5
  <2> HIDE DEF b
  <2>4. ~ negative' =>
          /\ ~ negative
          /\ StakesPositive(StakedEDN) /\ BetsPositive(ActivePools)
          /\ Covered(b, ActivePools)
          /\ SumFunction(Funds(b)) <= SumFunction(Funds(Balances))
    <3> SUFFICES ASSUME ~ negative'
                 PROVE  /\ Covered(b, ActivePools)
                        /\ SumFunction(Funds(b)) <= SumFunction(Funds(Balances))
      BY <1>3
    <3>1. \A q \in Accounts \ System : b[q] >= 0 \/ b[q] >= a[q]
      <4> SUFFICES ASSUME NEW q \in Accounts \ System
                   PROVE  b[q] >= 0 \/ b[q] >= a[q]
        OBVIOUS
      <4>1. a[q] \in Int /\ b[q] \in Int
        BY <1>3, <2>1
      <4>2. b[q] = 0 \/ b[q] = a[q]
        BY <2>1
      <4> QED BY <4>1, <4>2
    <3>2. Covered(b, ActivePools)
      BY <1>3, <1>6, <2>1, <3>1, CoveredFrame
    <3>3. SumFunction(Funds(Balances)) \in Int
      BY <1>6, FundsTyped
    <3> QED BY <1>3, <2>3, <3>2, <3>3
  <2> QED BY <1>1, <1>2, <1>9, <2>1, <2>2, <2>4, VerdictKeeps
<1>10. CASE /\ PayValidators(c, ballots, "innocent", "guilty", a)
            /\ UNCHANGED QueueBans
  <2>1. QueueBans' \in [Accounts -> Int]
    BY <1>6, <1>10
  <2> QED BY <1>1, <1>2, <1>3, <1>10, <2>1, VerdictKeeps
<1> QED BY <1>7, <1>8, <1>9, <1>10

\* The other blocks pay, or panic.
LEMMA PlainActionsKeep ==
  ASSUME IInv, NEW p \in Accounts, NEW x \in Attached,
         \/ Note(p, x)
         \/ JudgeUnsynced(p, x)
         \/ \E m \in Matches, d \in Accounts, ts \in Times : Penalty(p, m, d, ts, x)
  PROVE  IInv' /\ Grows
<1>1. /\ QueueBans \in [Accounts -> Int]
      /\ TribunalVotes \in [Case -> [Accounts -> Verdict \cup {None}]]
  BY DEF IInv, TypeOK
<1>2. CASE Note(p, x)
  <2>1. /\ Accept(p, {x}) /\ (p \in System \/ Balances[p] >= x)
        /\ Balances' = Paid(p, x) /\ x \in {x}
        /\ QueueBans' = QueueBans /\ TribunalVotes' = TribunalVotes
        /\ UNCHANGED <<StakedEDN, issued, ActivePools, matches>>
    BY <1>2 DEF Note, Valid
  <2> QED BY <1>1, <2>1, PlainKeeps
<1>3. CASE \E m \in Matches, d \in Accounts, ts \in Times : Penalty(p, m, d, ts, x)
  <2>1. PICK m \in Matches, d \in Accounts, ts \in Times : Penalty(p, m, d, ts, x)
    BY <1>3
  <2>2. /\ Accept(p, {x}) /\ (p \in System \/ Balances[p] >= x)
        /\ Balances' = Paid(p, x) /\ x \in {x}
        /\ QueueBans' = IF IsHost(p, m)
                        THEN [QueueBans EXCEPT ![d] = ts + DodgeBan]
                        ELSE QueueBans
        /\ TribunalVotes' = TribunalVotes
        /\ UNCHANGED <<StakedEDN, issued, ActivePools, matches>>
    BY <2>1 DEF Penalty, Valid
  <2>3. QueueBans' \in [Accounts -> Int]
    <3> DEFINE until == ts + DodgeBan
    <3>1. until \in Int
      BY AmountsAreIntegers
    <3> HIDE DEF until
    <3>2. [QueueBans EXCEPT ![d] = until] \in [Accounts -> Int]
      BY <1>1, <3>1
    <3> QED BY <1>1, <2>2, <3>2 DEF until
  <2> QED BY <1>1, <2>2, <2>3, PlainKeeps
<1>4. CASE JudgeUnsynced(p, x)
  <2>1. /\ up' = FALSE
        /\ LastIndex' = LastIndex /\ AccountNonces' = AccountNonces
        /\ QueueBans' = QueueBans /\ ActivePools' = ActivePools
        /\ TribunalVotes' = TribunalVotes /\ negative' = negative
        /\ Balances' = Balances /\ StakedEDN' = StakedEDN /\ issued' = issued
        /\ UNCHANGED matches
    BY <1>4 DEF JudgeUnsynced, money
  <2>2. TypeOK'
    BY <2>1 DEF IInv, TypeOK, matches
  <2>3. Held(Balances, StakedEDN, ActivePools) \in Int /\ issued \in Int
    BY TypedMoney, HeldTyped DEF IInv
  <2>4. Grows
    BY <2>1, <2>3 DEF Grows, IInv, MoneySound
  <2>5. MatchesSound' /\ AddsUp(ActivePools')
    BY <2>1, MatchFrame DEF IInv
  <2> QED BY <2>2, <2>4, <2>5, Keeps
<1> QED BY <1>2, <1>3, <1>4

\* A step of any kind keeps the invariant and grows nothing but what it issues.
LEMMA NextKeeps ==
  ASSUME IInv, Next
  PROVE  IInv' /\ Grows
<1>1. ASSUME NEW p \in Accounts, NEW q \in Accounts, NEW x \in Amounts,
             Transfer(p, q, x)
      PROVE  IInv' /\ Grows
  BY <1>1, TransferKeeps
<1>2. ASSUME NEW p \in Accounts, NEW x \in Amounts, Stake(p, x)
      PROVE  IInv' /\ Grows
  BY <1>2, StakeKeeps
<1>3. ASSUME NEW p \in Accounts, NEW word \in IDs, NEW x \in Amounts,
             PlaceBet(p, word, x)
      PROVE  IInv' /\ Grows
  BY <1>3, PlaceBetKeeps
<1>4. ASSUME NEW p \in Accounts, NEW x \in Attached, NEW m \in IDs,
             NEW r \in Rosters, StartMatch(p, m, r, x)
      PROVE  IInv' /\ Grows
  BY <1>4, StartMatchKeeps
<1>5. ASSUME NEW p \in Accounts, NEW x \in Attached, NEW m \in IDs,
             AbortMatch(p, m, x)
      PROVE  IInv' /\ Grows
  BY <1>5, AbortMatchKeeps
<1>6. ASSUME NEW p \in Accounts, NEW x \in Attached, NEW m \in Matches,
             NEW b \in Ballot, NEW w \in Rewards, Witness(p, m, b, w, x)
      PROVE  IInv' /\ Grows
  BY <1>6, WitnessKeeps
<1>7. ASSUME NEW p \in Accounts, NEW x \in Attached, NEW c \in Case,
             NEW v \in Verdict, NEW ts \in Times, Judge(p, c, v, ts, x)
      PROVE  IInv' /\ Grows
  BY <1>7, JudgeKeeps
<1>8. ASSUME NEW p \in Accounts, NEW x \in Attached,
             \/ Note(p, x)
             \/ JudgeUnsynced(p, x)
             \/ \E m \in Matches, d \in Accounts, ts \in Times :
                   Penalty(p, m, d, ts, x)
      PROVE  IInv' /\ Grows
  BY <1>8, PlainActionsKeep
<1> QED BY <1>1, <1>2, <1>3, <1>4, <1>5, <1>6, <1>7, <1>8, Zenon DEF Next

\* Nor does a step that changes nothing.
LEMMA StutterKeeps ==
  ASSUME IInv, UNCHANGED vars
  PROVE  IInv'
<1>1. /\ up' = up /\ LastIndex' = LastIndex /\ AccountNonces' = AccountNonces
      /\ QueueBans' = QueueBans /\ ActivePools' = ActivePools
      /\ TribunalVotes' = TribunalVotes /\ negative' = negative
      /\ Balances' = Balances /\ StakedEDN' = StakedEDN /\ issued' = issued
      /\ UNCHANGED matches
  BY DEF vars, money
<1>2. TypeOK'
  BY <1>1 DEF IInv, TypeOK, matches
<1>3. Held(Balances, StakedEDN, ActivePools) \in Int /\ issued \in Int
  BY TypedMoney, HeldTyped DEF IInv
<1>4. negative \/ Grows
  BY <1>1, <1>3 DEF Grows, IInv, MoneySound
<1>5. Grows
  BY <1>1, <1>4 DEF Grows
<1>6. MatchesSound' /\ AddsUp(ActivePools')
  BY <1>1, MatchFrame DEF IInv
<1> QED BY <1>2, <1>5, <1>6, Keeps

LEMMA Inductive == Spec => []IInv
<1>1. IInv /\ [Next]_vars => IInv'
  BY NextKeeps, StutterKeeps
<1> QED BY <1>1, InitInv, PTL DEF Spec

-----------------------------------------------------------------------------
(* The invariants.                                                         *)

\* Balances, stakes, sessions, votes and pools are always well formed, for
\* amounts of either sign and senders that are exempt from the checks.
THEOREM TypeCorrect == Spec => []TypeOK
<1>1. IInv => TypeOK
  BY DEF IInv
<1> QED BY <1>1, Inductive, PTL

\* A session never lacks its vote map, so that a ballot never hits a nil map.
THEOREM VotesPresent == Spec => []SessionsHaveVotes
<1>1. IInv => SessionsHaveVotes
  BY DEF IInv, MatchesSound
<1> QED BY <1>1, Inductive, PTL

\* Only players of the running roster have a ballot.
THEOREM OnlyPlayersVote == Spec => []VotersInRoster
<1>1. IInv => VotersInRoster
  BY DEF IInv, MatchesSound
<1> QED BY <1>1, Inductive, PTL

\* No match stays open with a majority of its roster behind one ballot.
THEOREM MajorityDecides == Spec => []NoUndecidedMajority
<1>1. IInv => NoUndecidedMajority
  BY DEF IInv, MatchesSound
<1> QED BY <1>1, Inductive, PTL

\* Until an amount is negative, a debt is no more than one of the debtor's
\* open bets, whatever other bets are given back.
THEOREM DebtCovered == Spec => []DebtIsOneOpenBet
<1>1. IInv => DebtIsOneOpenBet
  BY DEF IInv, MoneySound, Covered, DebtIsOneOpenBet
<1> QED BY <1>1, Inductive, PTL

\* Until an amount is negative, wallets, stakes and pools never hold more
\* coins than decided matches and system accounts issued.
THEOREM NoCoinFromNothing == Spec => []SupplyBounded
<1>1. IInv => SupplyBounded
  BY DEF IInv, MoneySound, SupplyBounded
<1> QED BY <1>1, Inductive, PTL

-----------------------------------------------------------------------------
(* Where coins come from.                                                  *)

\* The deciding witness numbers its sender and closes its match.
LEMMA WitnessDecides ==
  ASSUME IInv, NEW p \in Accounts \ System, NEW m \in Matches,
         NEW b \in Ballot, NEW w \in Rewards, NEW x \in Attached,
         Witness(p, m, b, w, x), issued' # issued
  PROVE  /\ AccountNonces'[p] # AccountNonces[p]
         /\ IsParticipant(p, m)
         /\ MatchSessions'[m] = None
         /\ HasMajority(Cardinality({q \in ToSet(MatchSessions[m].roster) :
                                        q = p \/ MatchVotes[m][q] = b}),
                        MatchSessions[m].roster)
<1>0. m \in IDs
  BY DEF IDs
<1>1. /\ IsParticipant(p, m)
      /\ HasMajority(Cardinality(Agreeing(p, m, b)), MatchSessions[m].roster)
      /\ CloseMatch(m)
  BY Zenon DEF Witness
<1>2. MatchSessions'[m] = None
  BY <1>0, <1>1 DEF CloseMatch, IInv, TypeOK
<1>3. AccountNonces'[p] # AccountNonces[p]
  <2>1. AccountNonces' = [AccountNonces EXCEPT ![p] = @ + 1]
    BY DEF Witness, Accept
  <2>2. AccountNonces \in [Accounts -> Nat]
    BY DEF IInv, TypeOK
  <2> QED BY <2>1, <2>2
<1>4. MatchVotes[m] # None
  BY <1>0, <1>1 DEF IInv, MatchesSound, IsParticipant, SessionsHaveVotes
<1>5. Agreeing(p, m, b) = {q \in ToSet(MatchSessions[m].roster) :
                             q = p \/ MatchVotes[m][q] = b}
  BY <1>0, <1>1, <1>4, AgreeingIsRoster DEF IInv, MatchesSound
<1> QED BY <1>1, <1>2, <1>3, <1>5

\* Blocks of system accounts number nobody; the others issue nothing unless
\* they decide a match.
LEMMA IssuedBy ==
  ASSUME IInv, Next, issued' # issued, AccountNonces' # AccountNonces
  PROVE  \E p \in Accounts \ System, m \in Matches, b \in Ballot,
            w \in Rewards, x \in Attached : Witness(p, m, b, w, x)
<1> USE DEF money
<1>1. ASSUME NEW p \in Accounts, NEW q \in Accounts, NEW x \in Amounts,
             Transfer(p, q, x)
      PROVE  FALSE
  BY <1>1 DEF Transfer, Accept
<1>2. ASSUME NEW p \in Accounts, NEW x \in Amounts, Stake(p, x)
      PROVE  FALSE
  BY <1>2 DEF Stake, Accept
<1>3. ASSUME NEW p \in Accounts, NEW word \in IDs, NEW x \in Amounts,
             PlaceBet(p, word, x)
      PROVE  FALSE
  BY <1>3 DEF PlaceBet, Accept
<1>4. ASSUME NEW p \in Accounts, NEW x \in Attached, NEW m \in IDs,
             NEW r \in Rosters, StartMatch(p, m, r, x)
      PROVE  FALSE
  BY <1>4 DEF StartMatch
<1>5. ASSUME NEW p \in Accounts, NEW x \in Attached, NEW m \in IDs,
             AbortMatch(p, m, x)
      PROVE  FALSE
  BY <1>5 DEF AbortMatch
<1>6. ASSUME NEW p \in Accounts, NEW x \in Attached, NEW m \in Matches,
             NEW b \in Ballot, NEW w \in Rewards, Witness(p, m, b, w, x)
      PROVE  p \notin System
  BY <1>6 DEF Witness, Accept
<1>7. ASSUME NEW p \in Accounts, NEW x \in Attached, NEW c \in Case,
             NEW v \in Verdict, NEW ts \in Times, Judge(p, c, v, ts, x)
      PROVE  FALSE
  BY <1>7 DEF Judge
<1>8. ASSUME NEW p \in Accounts, NEW x \in Attached, NEW m \in Matches,
             NEW d \in Accounts, NEW ts \in Times, Penalty(p, m, d, ts, x)
      PROVE  FALSE
  BY <1>8 DEF Penalty
<1>9. ASSUME NEW p \in Accounts, NEW x \in Attached,
             JudgeUnsynced(p, x) \/ Note(p, x)
      PROVE  FALSE
  BY <1>9 DEF JudgeUnsynced, Note
<1>10. \E p \in Accounts, m \in Matches, b \in Ballot, w \in Rewards,
          x \in Attached : Witness(p, m, b, w, x)
  BY <1>1, <1>2, <1>3, <1>4, <1>5, <1>7, <1>8, <1>9, Zenon DEF Next
<1> QED BY <1>6, <1>10

\* Until an amount is negative, coins come from system accounts and from
\* matches that the sender's ballot decides: no transfer, bet, refund, stake or
\* verdict makes one.
THEOREM RewardsAreDecided == Spec => CoinsNeedMajority
<1> DEFINE Decided ==
             \/ AccountNonces' = AccountNonces
             \/ \E m \in Matches, b \in Ballot, p \in Accounts :
                   /\ AccountNonces'[p] # AccountNonces[p]
                   /\ IsParticipant(p, m)
                   /\ MatchSessions'[m] = None
                   /\ HasMajority(
                         Cardinality({q \in ToSet(MatchSessions[m].roster) :
                                         q = p \/ MatchVotes[m][q] = b}),
                         MatchSessions[m].roster)
<1>1. IInv /\ [Next]_vars =>
        [~ negative' /\ Coins' > Coins => Decided]_vars
  <2> SUFFICES ASSUME IInv, Next, ~ negative', Coins' > Coins,
                      AccountNonces' # AccountNonces
               PROVE  Decided
    OBVIOUS
  <2>1. IInv' /\ Grows
    BY NextKeeps
  <2>2. issued' # issued
    <3> SUFFICES ASSUME issued' = issued PROVE FALSE
      OBVIOUS
    <3> DEFINE h == Held(Balances, StakedEDN, ActivePools)
               i == Held(Balances', StakedEDN', ActivePools')
               j == issued
    <3>1. i <= h + (j - j) /\ i > h
      BY <2>1, CoinsAreHeld DEF Grows
    <3>2. h \in Int /\ j \in Int
      BY TypedMoney, HeldTyped DEF IInv
    <3>3. i \in Int
      <4>1. MaxStake \in Nat
        BY AmountsAreIntegers
      <4>2. /\ Balances' \in [Accounts -> Int] /\ StakedEDN' \in [Accounts -> Int]
            /\ ActivePools' \in [IDs -> Pool \cup {None}]
        BY <2>1, <4>1 DEF IInv, TypeOK
      <4> QED BY <4>2, HeldTyped
    <3> HIDE DEF h, i, j
    <3> QED BY <3>1, <3>2, <3>3
  <2>3. PICK p \in Accounts \ System, m \in Matches, b \in Ballot,
             w \in Rewards, x \in Attached : Witness(p, m, b, w, x)
    BY <2>2, IssuedBy
  <2>4. /\ AccountNonces'[p] # AccountNonces[p]
        /\ IsParticipant(p, m)
        /\ MatchSessions'[m] = None
        /\ HasMajority(Cardinality({q \in ToSet(MatchSessions[m].roster) :
                                       q = p \/ MatchVotes[m][q] = b}),
                       MatchSessions[m].roster)
    BY <2>2, <2>3, WitnessDecides
  <2> QED BY <2>4
<1> QED BY <1>1, Inductive, PTL DEF Spec, CoinsNeedMajority

-----------------------------------------------------------------------------
(* What becomes of bets.                                                   *)

\* What BetsOnlyReturned says of one pool.
PoolStays(k) ==
    /\ ActivePools'[k] # None
    /\ IsPrefix(ActivePools[k].bets, ActivePools'[k].bets)

PoolReturned(k) ==
    /\ ActivePools'[k] = None
    /\ MatchSessions[k] # None /\ MatchSessions'[k] = None
    /\ \A p \in Accounts \ {MatchSessions[k].host} :
          AccountNonces'[p] = AccountNonces[p] =>
              Balances'[p] = Balances[p] + Wagered(p, ActivePools[k].bets)

\* A list is a prefix of itself and of itself with one bet more.
LEMMA PrefixOfMore ==
  ASSUME NEW s \in Seq(Bets), NEW bet \in Bets
  PROVE  IsPrefix(s, s) /\ IsPrefix(s, Append(s, bet))
BY DEF IsPrefix

\* A wallet that p's block does not number is not debited by it, or p is it.
LEMMA PaidElsewhere ==
  ASSUME TypeOK, NEW p \in Accounts, NEW x, NEW xs, Accept(p, xs),
         NEW q \in Accounts, AccountNonces'[q] = AccountNonces[q]
  PROVE  Paid(p, x)[q] = Balances[q]
<1>1. CASE p \in System
  BY <1>1 DEF Paid
<1>2. CASE p \notin System
  <2>1. AccountNonces' = [AccountNonces EXCEPT ![p] = @ + 1]
    BY <1>2 DEF Accept
  <2>2. AccountNonces \in [Accounts -> Nat] /\ Balances \in [Accounts -> Int]
    BY DEF TypeOK
  <2>3. q # p
    <3>1. AccountNonces[p] \in Nat /\ AccountNonces'[p] = AccountNonces[p] + 1
      BY <2>1, <2>2
    <3> QED BY <3>1
  <2> QED BY <1>2, <2>2, <2>3 DEF Paid, Credit
<1> QED BY <1>1, <1>2

\* Closing the match gives the bets of its pool back to their bettors.
LEMMA CloseReturns ==
  ASSUME IInv, NEW m \in IDs, NEW p \in Accounts, NEW x, NEW xs, Accept(p, xs),
         NEW b \in [Accounts -> Int],
         \A q \in Accounts \ {MatchSessions[m].host} : b[q] = Paid(p, x)[q],
         Balances' = AfterAbort(b, m), MatchSessions[m] # None, CloseMatch(m),
         ActivePools' = [ActivePools EXCEPT ![m] = None],
         NEW k \in IDs, ActivePools[k] # None
  PROVE  PoolStays(k) \/ PoolReturned(k)
<1>1. ActivePools \in [IDs -> Pool \cup {None}]
  BY TypedMoney DEF IInv
<1>2. ActivePools[k].bets \in Seq(Bets)
  BY <1>1 DEF Pool
<1>3. CASE k # m
  <2>1. ActivePools'[k] = ActivePools[k]
    BY <1>1, <1>3
  <2>2. IsPrefix(ActivePools[k].bets, ActivePools[k].bets)
    BY <1>2 DEF IsPrefix
  <2> QED BY <2>1, <2>2 DEF PoolStays
<1>4. CASE k = m
  <2>1. ActivePools'[m] = None /\ MatchSessions'[m] = None
    BY <1>1 DEF CloseMatch, IInv, TypeOK
  <2>2. \A q \in Accounts :
           AfterAbort(b, m)[q] = b[q] + Wagered(q, ActivePools[m].bets)
    BY <1>4, AfterAbortIs DEF IInv
  <2>3. ASSUME NEW q \in Accounts \ {MatchSessions[m].host},
               AccountNonces'[q] = AccountNonces[q]
        PROVE  Balances'[q] = Balances[q] + Wagered(q, ActivePools[m].bets)
    <3>1. Paid(p, x)[q] = Balances[q]
      BY <2>3, PaidElsewhere DEF IInv
    <3>2. b[q] = Balances[q]
      BY <3>1
    <3> QED BY <2>2, <3>2
  <2> QED BY <1>4, <2>1, <2>3 DEF PoolReturned
<1> QED BY <1>3, <1>4

\* Every step keeps or returns every pool.
LEMMA PoolsKept ==
  ASSUME IInv, Next, NEW k \in IDs, ActivePools[k] # None
  PROVE  PoolStays(k) \/ PoolReturned(k)
<1> USE DEF money
<1>0. ActivePools \in [IDs -> Pool \cup {None}] /\ ActivePools[k].bets \in Seq(Bets)
  <2>1. ActivePools \in [IDs -> Pool \cup {None}]
    BY TypedMoney DEF IInv
  <2> QED BY <2>1 DEF Pool
<1>1. ASSUME ActivePools' = ActivePools PROVE PoolStays(k)
  <2>1. IsPrefix(ActivePools[k].bets, ActivePools[k].bets)
    BY <1>0 DEF IsPrefix
  <2> QED BY <1>1, <2>1 DEF PoolStays
<1>2. ASSUME NEW p \in Accounts, NEW word \in IDs, NEW x \in Amounts,
             PlaceBet(p, word, x)
      PROVE  PoolStays(k)
  <2> DEFINE bet == [bettor |-> p, amount |-> x, team |-> NoTeam]
  <2>1. bet \in Bets /\ bet.team = NoTeam
    BY AmountsAreIntegers DEF Bets
  <2>2. ActivePools' = [ActivePools EXCEPT ![word] = PoolWith(word, bet)]
    BY <1>2 DEF PlaceBet, ParsedBet
  <2> HIDE DEF bet
  <2>3. /\ ActivePools'[word] # None
        /\ ActivePools'[word].bets = Append(BetsIn(word), bet)
        /\ \A n \in IDs : n # word => ActivePools'[n] = ActivePools[n]
    BY <2>1, <2>2, PoolsWithBet DEF IInv
  <2>4. CASE k = word
    <3>1. BetsIn(k) = ActivePools[k].bets
      BY DEF BetsIn
    <3>2. IsPrefix(ActivePools[k].bets, Append(ActivePools[k].bets, bet))
      BY <1>0, <2>1, PrefixOfMore
    <3> QED BY <2>3, <2>4, <3>1, <3>2 DEF PoolStays
  <2>5. CASE k # word
    <3>1. IsPrefix(ActivePools[k].bets, ActivePools[k].bets)
      BY <1>0 DEF IsPrefix
    <3> QED BY <2>3, <2>5, <3>1 DEF PoolStays
  <2> QED BY <2>4, <2>5
<1>3. ASSUME NEW p \in Accounts, NEW x \in Attached, NEW m \in IDs,
             AbortMatch(p, m, x)
      PROVE  PoolStays(k) \/ PoolReturned(k)
  <2>1. CASE ~ IsHost(p, m)
    <3>1. ActivePools' = ActivePools
      BY <1>3, <2>1 DEF AbortMatch
    <3> QED BY <1>1, <3>1
  <2>2. CASE IsHost(p, m)
    <3> DEFINE b == Paid(p, x)
    <3>1. /\ Balances' = AfterAbort(b, m)
          /\ ActivePools' = [ActivePools EXCEPT ![m] = None]
          /\ CloseMatch(m) /\ Accept(p, {x}) /\ MatchSessions[m] # None
          /\ p \in System \/ Balances[p] >= x
      BY <1>3, <2>2 DEF AbortMatch, IsHost, Valid
    <3>2. b \in [Accounts -> Int] /\ x \in Int /\ x \in {x}
      BY <3>1, AttachedTyped, PaidBefore
    <3>3. \A q \in Accounts \ {MatchSessions[m].host} : b[q] = Paid(p, x)[q]
      OBVIOUS
    <3> HIDE DEF b
    <3> QED BY <3>1, <3>2, <3>3, CloseReturns
  <2> QED BY <2>1, <2>2
<1>4. ASSUME NEW p \in Accounts, NEW x \in Attached, NEW m \in Matches,
             NEW ballot \in Ballot, NEW w \in Rewards, Witness(p, m, ballot, w, x)
      PROVE  PoolStays(k) \/ PoolReturned(k)
  <2> DEFINE h == MatchSessions[m].host
             a == Paid(p, x)
             b == Credit(a, h, w)
             xs == {x, w}
  <2>0. m \in IDs /\ x \in Int /\ w \in Int /\ x \in xs
    BY AttachedTyped, AmountsAreIntegers DEF IDs
  <2>1. CASE ActivePools' = ActivePools
    BY <1>1, <2>1
  <2>2. CASE ActivePools' # ActivePools
    <3>1. /\ IsParticipant(p, m)
          /\ Balances' = Settled(b, m, ballot[1])
          /\ ActivePools' = [ActivePools EXCEPT ![m] = None]
          /\ CloseMatch(m)
      BY <1>4, <2>2, Zenon DEF Witness
    <3>2. /\ Accept(p, xs) /\ (p \in System \/ Balances[p] >= x)
          /\ MatchSessions[m] # None
      BY <1>4, <3>1 DEF Witness, Valid, IsParticipant
    <3>3. Balances' = AfterAbort(b, m)
      BY <2>0, <3>1, SettledIsRefund DEF IInv
    <3>4. h \in Accounts
      BY <2>0, <3>2 DEF IInv, TypeOK, Session
    <3> HIDE DEF xs
    <3>5. a \in [Accounts -> Int]
      BY <2>0, <3>2, PaidBefore
    <3> HIDE DEF a
    <3>6. /\ b \in [Accounts -> Int]
          /\ \A q \in Accounts : q # h => b[q] = a[q]
      BY <2>0, <3>4, <3>5, CreditTyped
    <3> HIDE DEF b
    <3>7. \A q \in Accounts \ {MatchSessions[m].host} : b[q] = Paid(p, x)[q]
      BY <3>6 DEF a
    <3>8. b \in [Accounts -> Int] /\ ActivePools[k] # None
      BY <3>6
    <3>9. ActivePools' = [ActivePools EXCEPT ![m] = None] /\ CloseMatch(m)
      BY <3>1
    <3> HIDE DEF h
    <3> QED BY <2>0, <3>2, <3>3, <3>7, <3>8, <3>9, CloseReturns
  <2> QED BY <2>1, <2>2
<1>5. ASSUME NEW p \in Accounts, NEW q \in Accounts, NEW x \in Amounts,
             Transfer(p, q, x)
      PROVE  ActivePools' = ActivePools
  BY <1>5 DEF Transfer
<1>6. ASSUME NEW p \in Accounts, NEW x \in Amounts, Stake(p, x)
      PROVE  ActivePools' = ActivePools
  BY <1>6 DEF Stake
<1>7. ASSUME NEW p \in Accounts, NEW x \in Attached, NEW m \in IDs,
             NEW r \in Rosters, StartMatch(p, m, r, x)
      PROVE  ActivePools' = ActivePools
  BY <1>7 DEF StartMatch
<1>8. ASSUME NEW p \in Accounts, NEW x \in Attached, NEW c \in Case,
             NEW v \in Verdict, NEW ts \in Times, Judge(p, c, v, ts, x)
      PROVE  ActivePools' = ActivePools
  BY <1>8 DEF Judge
<1>9. ASSUME NEW p \in Accounts, NEW x \in Attached, NEW m \in Matches,
             NEW d \in Accounts, NEW ts \in Times, Penalty(p, m, d, ts, x)
      PROVE  ActivePools' = ActivePools
  BY <1>9 DEF Penalty
<1>10. ASSUME NEW p \in Accounts, NEW x \in Attached,
              JudgeUnsynced(p, x) \/ Note(p, x)
       PROVE  ActivePools' = ActivePools
  BY <1>10 DEF JudgeUnsynced, Note
<1> QED BY <1>1, <1>2, <1>3, <1>4, <1>5, <1>6, <1>7, <1>8, <1>9, <1>10, Zenon
        DEF Next

\* A bet is never paid from another: it stays in its pool, or goes back to its
\* bettor when the match the pool is filed under closes.
THEOREM BetsGoBack == Spec => BetsOnlyReturned
<1>1. IInv /\ [Next]_vars =>
        [\A k \in IDs : ActivePools[k] # None =>
            PoolStays(k) \/ PoolReturned(k)]_vars
  BY PoolsKept
<1>2. [\A k \in IDs : ActivePools[k] # None =>
            PoolStays(k) \/ PoolReturned(k)]_vars =>
        [\A k \in IDs : ActivePools[k] # None =>
         LET bets == ActivePools[k].bets
         IN  \/ /\ ActivePools'[k] # None
                /\ IsPrefix(bets, ActivePools'[k].bets)
             \/ /\ ActivePools'[k] = None
                /\ MatchSessions[k] # None /\ MatchSessions'[k] = None
                /\ \A p \in Accounts \ {MatchSessions[k].host} :
                      AccountNonces'[p] = AccountNonces[p] =>
                          Balances'[p] = Balances[p] + Wagered(p, bets)]_vars
  BY Zenon DEF PoolStays, PoolReturned
<1> QED BY <1>1, <1>2, Inductive, PTL DEF Spec, BetsOnlyReturned

-----------------------------------------------------------------------------
(* Validators are slashed by verdicts only.                                *)

\* The verdict that pays v's side and slashes w's: a slashed validator had
\* voted w, its side was outweighed, and the ballot of the deciding validator
\* was not the first, since a lone ballot outweighs nothing of the other side.
LEMMA VerdictSlashes ==
  ASSUME TypeOK, NEW c \in Case, NEW q \in Accounts, NEW v \in Verdict,
         NEW honest \in Verdict, NEW lost \in Verdict, honest # lost,
         NEW ballots, ballots = [TribunalVotes[c] EXCEPT ![q] = v],
         Decides(ballots, honest),
         StakedEDN' = StakesAfter(Side(ballots, lost)),
         TribunalVotes' = [TribunalVotes EXCEPT ![c] = NoVotes],
         NEW p \in Accounts, StakedEDN'[p] < StakedEDN[p]
  PROVE  /\ TribunalVotes'[c] = NoVotes
         /\ TribunalVotes[c] # NoVotes
         /\ ballots[p] = lost /\ lost # None
         /\ Total(StakedEDN, Side(ballots, honest)) >
              Total(StakedEDN, Side(ballots, lost))
<1> DEFINE H == Total(StakedEDN, Side(ballots, honest))
           L == Total(StakedEDN, Side(ballots, lost))
<1>1. TribunalVotes[c] \in [Accounts -> Verdict \cup {None}]
  BY DEF TypeOK
<1>2. TribunalVotes'[c] = NoVotes
  BY DEF TypeOK
<1>3. ballots[p] = lost
  <2>1. StakedEDN[p] \in Int
    BY TypedMoney
  <2> QED BY <2>1 DEF StakesAfter, Side
<1>4. lost # None /\ honest # None
  BY NoneIsNothing
<1>5. H \in Int /\ L \in Int
  <2>1. StakedEDN \in [Accounts -> Int]
    BY TypedMoney
  <2>2. Side(ballots, honest) \in SUBSET Accounts
        /\ Side(ballots, lost) \in SUBSET Accounts
    BY DEF Side
  <2> QED BY <2>1, <2>2, TotalTyped
<1>6. 100 * H > 66 * (H + L) /\ H + L >= TribunalQuorum
  <2> DEFINE G == Total(StakedEDN, Side(ballots, "guilty"))
             I == Total(StakedEDN, Side(ballots, "innocent"))
  <2>1. \/ honest = "guilty" /\ lost = "innocent"
        \/ honest = "innocent" /\ lost = "guilty"
    BY DEF Verdict
  <2>2. 100 * H > 66 * (G + I) /\ G + I >= TribunalQuorum
    BY DEF Decides
  <2>3. \/ G = H /\ I = L
        \/ G = L /\ I = H
    BY <2>1
  <2>4. G + I = H + L
    <3> HIDE DEF H, L, G, I
    <3> QED BY <1>5, <2>3
  <2> QED BY <2>2, <2>4
<1>7. TribunalQuorum \in Nat \ {0}
  BY AmountsAreIntegers
<1>8. H > L
  <2> HIDE DEF H, L
  <2> QED BY <1>5, <1>6, <1>7
<1>9. TribunalVotes[c] # NoVotes
  <2> SUFFICES ASSUME TribunalVotes[c] = NoVotes PROVE FALSE
    OBVIOUS
  <2>1. \A r \in Accounts : ballots[r] = IF r = q THEN v ELSE None
    BY DEF NoVotes
  <2>2. v = lost
    BY <1>3, <1>4, <2>1
  <2>3. Side(ballots, honest) = {}
    BY <1>4, <2>1, <2>2 DEF Side
  <2>4. H = 0
    BY <2>3, TypedMoney, TotalTyped
  <2> HIDE DEF H, L
  <2> QED BY <1>5, <1>6, <1>7, <1>8, <2>4
<1> QED BY <1>2, <1>3, <1>4, <1>8, <1>9

\* What a stake shrinks by otherwise is a negative one of its owner.
OwnDoing(p) ==
    /\ negative' /\ TribunalVotes' = TribunalVotes
    /\ \A q \in Accounts \ {p} : StakedEDN'[q] = StakedEDN[q]

\* No action but a verdict takes from the stake of another.
LEMMA OthersKeepStakes ==
  ASSUME TypeOK, Next, NEW p \in Accounts, StakedEDN'[p] < StakedEDN[p]
  PROVE  \/ OwnDoing(p)
         \/ \E q \in Accounts, c \in Case, v \in Verdict, ts \in Times,
               x \in Attached : Judge(q, c, v, ts, x)
<1> USE DEF money
<1>0. StakedEDN \in [Accounts -> Int]
  BY TypedMoney
<1>1. StakedEDN' # StakedEDN
  <2>1. StakedEDN[p] \in Int
    BY <1>0
  <2> QED BY <2>1
<1>2. ASSUME NEW q \in Accounts, NEW x \in Amounts, Stake(q, x)
      PROVE  OwnDoing(p)
  <2>1. x \in Int /\ StakedEDN[p] \in Int /\ StakedEDN[q] \in Int
    BY <1>0, AmountsAreIntegers
  <2>2. /\ StakedEDN' = [StakedEDN EXCEPT ![q] = StakedEDN[q] + x]
        /\ Accept(q, {x}) /\ TribunalVotes' = TribunalVotes
    BY <1>2 DEF Stake, Credit
  <2>3. \A r \in Accounts : StakedEDN'[r] = IF r = q THEN StakedEDN[q] + x
                                            ELSE StakedEDN[r]
    BY <1>0, <2>2
  <2>4. q = p /\ x < 0
    BY <2>1, <2>3
  <2>5. negative'
    BY <2>2, <2>4 DEF Accept
  <2> QED BY <2>2, <2>3, <2>4, <2>5 DEF OwnDoing
<1>3. ASSUME NEW q \in Accounts, NEW r \in Accounts, NEW x \in Amounts,
             Transfer(q, r, x)
      PROVE  FALSE
  BY <1>1, <1>3 DEF Transfer
<1>4. ASSUME NEW q \in Accounts, NEW word \in IDs, NEW x \in Amounts,
             PlaceBet(q, word, x)
      PROVE  FALSE
  BY <1>1, <1>4 DEF PlaceBet
<1>5. ASSUME NEW q \in Accounts, NEW x \in Attached, NEW m \in IDs,
             NEW r \in Rosters, StartMatch(q, m, r, x)
      PROVE  FALSE
  BY <1>1, <1>5 DEF StartMatch
<1>6. ASSUME NEW q \in Accounts, NEW x \in Attached, NEW m \in IDs,
             AbortMatch(q, m, x)
      PROVE  FALSE
  BY <1>1, <1>6 DEF AbortMatch
<1>7. ASSUME NEW q \in Accounts, NEW x \in Attached, NEW m \in Matches,
             NEW b \in Ballot, NEW w \in Rewards, Witness(q, m, b, w, x)
      PROVE  FALSE
  BY <1>1, <1>7 DEF Witness
<1>8. ASSUME NEW q \in Accounts, NEW x \in Attached, NEW m \in Matches,
             NEW d \in Accounts, NEW ts \in Times, Penalty(q, m, d, ts, x)
      PROVE  FALSE
  BY <1>1, <1>8 DEF Penalty
<1>9. ASSUME NEW q \in Accounts, NEW x \in Attached,
             JudgeUnsynced(q, x) \/ Note(q, x)
      PROVE  FALSE
  BY <1>1, <1>9 DEF JudgeUnsynced, Note
<1> QED BY <1>2, <1>3, <1>4, <1>5, <1>6, <1>7, <1>8, <1>9, Zenon DEF Next

\* A stake shrinks by a negative STAKE_FUNDS of its owner, or in the step that
\* closes a case in which its owner's ballot was outweighed.
THEOREM SlashingIsVerdict == Spec => SlashOnlyOnVerdict
<1> DEFINE Slashed(p) ==
             \E c \in Case :
                /\ TribunalVotes'[c] = NoVotes
                /\ TribunalVotes[c] # NoVotes
                /\ \E q \in Accounts, v \in Verdict :
                      LET ballots == [TribunalVotes[c] EXCEPT ![q] = v]
                      IN  /\ ballots[p] # None
                          /\ \E w \in Verdict \ {ballots[p]} :
                                /\ Decides(ballots, w)
                                /\ Total(StakedEDN, Side(ballots, w)) >
                                     Total(StakedEDN, Side(ballots, ballots[p]))
<1>1. IInv /\ [Next]_vars =>
        [\A p \in Accounts : StakedEDN'[p] < StakedEDN[p] =>
            \/ /\ negative' /\ TribunalVotes' = TribunalVotes
               /\ \A q \in Accounts \ {p} : StakedEDN'[q] = StakedEDN[q]
            \/ Slashed(p)]_vars
  <2> SUFFICES ASSUME TypeOK, Next, NEW p \in Accounts,
                      StakedEDN'[p] < StakedEDN[p], ~ OwnDoing(p)
               PROVE  Slashed(p)
    BY DEF IInv, OwnDoing
  <2>1. PICK q \in Accounts, c \in Case, v \in Verdict, ts \in Times,
             x \in Attached : Judge(q, c, v, ts, x)
    BY OthersKeepStakes
  <2> DEFINE ballots == [TribunalVotes[c] EXCEPT ![q] = v]
  <2>2. \E honest, lost \in Verdict :
           /\ honest # lost /\ Decides(ballots, honest)
           /\ StakedEDN' = StakesAfter(Side(ballots, lost))
           /\ TribunalVotes' = [TribunalVotes EXCEPT ![c] = NoVotes]
    <3>1. StakedEDN' # StakedEDN
      <4>1. StakedEDN[p] \in Int
        BY TypedMoney
      <4> QED BY <4>1
    <3>2. \/ /\ Decides(ballots, "guilty")
             /\ PayValidators(c, ballots, "guilty", "innocent",
                              [Paid(q, x) EXCEPT ![c[2]] = 0])
          \/ /\ Decides(ballots, "innocent")
             /\ PayValidators(c, ballots, "innocent", "guilty", Paid(q, x))
      BY <2>1, <3>1 DEF Judge
    <3> HIDE DEF ballots
    <3> QED BY <3>2 DEF PayValidators, Verdict
  <2>3. PICK honest \in Verdict, lost \in Verdict :
           /\ honest # lost /\ Decides(ballots, honest)
           /\ StakedEDN' = StakesAfter(Side(ballots, lost))
           /\ TribunalVotes' = [TribunalVotes EXCEPT ![c] = NoVotes]
    BY <2>2
  <2>4. /\ TribunalVotes'[c] = NoVotes
        /\ TribunalVotes[c] # NoVotes
        /\ ballots[p] = lost /\ lost # None
        /\ Total(StakedEDN, Side(ballots, honest)) >
             Total(StakedEDN, Side(ballots, lost))
    BY <2>3, VerdictSlashes
  <2> QED BY <2>3, <2>4
<1> QED BY <1>1, Inductive, PTL DEF Spec, SlashOnlyOnVerdict
=============================================================================
