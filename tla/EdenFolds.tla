------------------------------ MODULE EdenFolds ------------------------------
(***************************************************************************)
(* What the folds of the community modules compute, for use in the proofs  *)
(* about the components.  A fold is a function over the subsets of a       *)
(* finite set that is defined by recursion on what is left once the next   *)
(* element is taken out; here such a function is shown to exist, to be the *)
(* only one, and, over a sequence, to run from the left.                   *)
(*                                                                         *)
(* Induction is by the least counterexample: every nonempty set of         *)
(* naturals has a least element.  Operators are turned into functions G,   *)
(* which lemmas can be instantiated with.                                  *)
(***************************************************************************)
EXTENDS Integers, Sequences, FiniteSets, SequencesExt, FiniteSetTheorems,
        WellFoundedInduction, TLAPS

\* Every nonempty set of natural numbers has a least element.
LEMMA LeastNatural ==
    ASSUME NEW T \in SUBSET Nat, T # {}
    PROVE  \E m \in T : \A k \in T : m <= k
<1> DEFINE B == {0 .. t : t \in T}
<1>1. B \subseteq FiniteSubsetsOf(Nat)
  <2>1. ASSUME NEW t \in T PROVE 0 .. t \in SUBSET Nat /\ IsFiniteSet(0 .. t)
    <3>1. t \in Int /\ 0 \in Int OBVIOUS
    <3>2. IsFiniteSet(0 .. t) BY <3>1, FS_Interval, Zenon
    <3> QED BY <3>2
  <2> QED BY <2>1 DEF FiniteSubsetsOf
<1>2. B # {}
  OBVIOUS
<1>3. PICK I \in B : \A J \in B : ~ (<<J, I>> \in StrictSubsetOrdering(Nat))
  BY <1>1, <1>2, FS_StrictSubsetOrderingWellFounded, WFMin, Zenon
<1>4. PICK m \in T : I = 0 .. m
  OBVIOUS
<1>5. ASSUME NEW k \in T, k < m PROVE FALSE
  <2>1. 0 .. k \in B
    OBVIOUS
  <2>2. 0 .. k \subseteq 0 .. m /\ m \in 0 .. m /\ m \notin 0 .. k
    BY <1>5
  <2>3. <<0 .. k, I>> \in StrictSubsetOrdering(Nat)
    BY <2>2, <1>4 DEF StrictSubsetOrdering
  <2> QED BY <2>1, <2>3, <1>3
<1> QED BY <1>5

\* A nonempty set of integers up to n has a greatest element, which Max finds.
LEMMA MaxOfBounded ==
    ASSUME NEW n \in Nat, NEW U \in SUBSET (1 .. n), U # {}
    PROVE  Max(U) \in U /\ \A u \in U : u <= Max(U)
<1> DEFINE T == {n - u : u \in U}
<1>0. \A u \in U : u \in Int /\ n - u \in Nat
  OBVIOUS
<1>1. T \in SUBSET Nat /\ T # {}
  BY <1>0
<1>2. PICK m \in T : \A k \in T : m <= k
  BY <1>1, LeastNatural, Zenon
<1>3. PICK x \in U : m = n - x
  OBVIOUS
<1>4. ASSUME NEW u \in U PROVE x >= u
  <2>1. n - u \in T
    OBVIOUS
  <2>2. n - x <= n - u
    BY <2>1, <1>2, <1>3
  <2> QED BY <2>2, <1>0
<1> QED BY <1>3, <1>4 DEF Max

-----------------------------------------------------------------------------
(* Folds over subsets of a finite set.                                     *)

\* ch names the element to take out of every nonempty subset of D.
IsChoice(ch, D) == \A U \in SUBSET D : U # {} => ch[U] \in U

\* it obeys the recursion of a fold over D, where what it has for less is in A.
FoldsTo(it, D, A, base, ch, G) ==
    \A U \in SUBSET D :
        /\ U = {} => it[U] = base
        /\ U # {} /\ it[U \ {ch[U]}] \in A
              => it[U] = G[ch[U], it[U \ {ch[U]}]]

\* The recursion of a fold has a solution.
LEMMA FoldExists ==
    ASSUME NEW D, IsFiniteSet(D), NEW A, NEW base \in A, NEW ch,
           IsChoice(ch, D), NEW G \in [D \X A -> A]
    PROVE  \E it \in [SUBSET D -> A] : FoldsTo(it, D, A, base, ch, G)
<1> DEFINE UpTo(n, it) == \A U \in SUBSET D : Cardinality(U) <= n =>
               it[U] = IF U = {} THEN base ELSE G[ch[U], it[U \ {ch[U]}]]
           T == {n \in Nat : ~ \E it \in [SUBSET D -> A] : UpTo(n, it)}
<1>1. \A U \in SUBSET D : IsFiniteSet(U) /\ Cardinality(U) \in Nat
                          /\ Cardinality(U) <= Cardinality(D)
  BY FS_Subset, FS_CardinalityType
<1>2. \A U \in SUBSET D : U # {} =>
          /\ ch[U] \in D
          /\ U \ {ch[U]} \in SUBSET D
          /\ Cardinality(U \ {ch[U]}) = Cardinality(U) - 1
  <2> SUFFICES ASSUME NEW U \in SUBSET D, U # {}
               PROVE  /\ ch[U] \in D
                      /\ U \ {ch[U]} \in SUBSET D
                      /\ Cardinality(U \ {ch[U]}) = Cardinality(U) - 1
    OBVIOUS
  <2>1. ch[U] \in U
    BY DEF IsChoice
  <2> QED BY <2>1, <1>1, FS_RemoveElement
<1>3. T = {}
  <2> SUFFICES ASSUME T # {} PROVE FALSE
    OBVIOUS
  <2>0. T \in SUBSET Nat
    OBVIOUS
  <2>1. PICK n \in T : \A k \in T : n <= k
    BY <2>0, LeastNatural, Zenon
  <2>4. n \in Nat
    OBVIOUS
  <2>5. ~ \E it \in [SUBSET D -> A] : UpTo(n, it)
    OBVIOUS
  <2> HIDE DEF T
  <2>2. CASE n = 0
    <3> DEFINE it == [U \in SUBSET D |-> base]
    <3>1. it \in [SUBSET D -> A]
      OBVIOUS
    <3>2. \A U \in SUBSET D : Cardinality(U) <= 0 => U = {}
      <4> SUFFICES ASSUME NEW U \in SUBSET D, Cardinality(U) <= 0 PROVE U = {}
        OBVIOUS
      <4>1. IsFiniteSet(U) /\ Cardinality(U) = 0
        BY <1>1
      <4> QED BY <4>1, FS_EmptySet
    <3>3. UpTo(0, it)
      BY <3>2
    <3> QED BY <3>1, <3>3, <2>2, <2>5
  <2>3. CASE n # 0
    <3>1. n - 1 \in Nat /\ n - 1 \notin T
      <4>1. n - 1 \in Nat /\ ~ n <= n - 1
        BY <2>4, <2>3
      <4> QED BY <4>1, <2>1
    <3>2. PICK it \in [SUBSET D -> A] : UpTo(n - 1, it)
      BY <3>1 DEF T
    <3> DEFINE jt == [U \in SUBSET D |->
                         IF U = {} THEN base ELSE G[ch[U], it[U \ {ch[U]}]]]
    <3>3. jt \in [SUBSET D -> A]
      BY <1>2
    <3>4. ASSUME NEW U \in SUBSET D, Cardinality(U) <= n, U # {}
          PROVE  jt[U] = G[ch[U], jt[U \ {ch[U]}]]
      <4> DEFINE W == U \ {ch[U]}
      <4>1. W \in SUBSET D /\ Cardinality(W) <= n - 1
        <5>1. W \in SUBSET D /\ Cardinality(W) = Cardinality(U) - 1
          BY <1>2, <3>4
        <5>2. Cardinality(U) \in Nat
          BY <1>1
        <5> QED BY <5>1, <5>2, <3>4, <2>4
      <4>2. it[W] = IF W = {} THEN base ELSE G[ch[W], it[W \ {ch[W]}]]
        BY <4>1, <3>2
      <4>3. jt[W] = it[W]
        BY <4>1, <4>2
      <4>4. jt[U] = G[ch[U], it[W]]
        BY <3>4
      <4> QED BY <4>3, <4>4
    <3>5. UpTo(n, jt)
      BY <3>4
    <3> QED BY <3>3, <3>5, <2>5
  <2> QED BY <2>2, <2>3
<1>4. Cardinality(D) \in Nat
  BY FS_CardinalityType
<1>5. PICK it \in [SUBSET D -> A] : UpTo(Cardinality(D), it)
  BY <1>3, <1>4
<1>6. \A U \in SUBSET D :
          it[U] = IF U = {} THEN base ELSE G[ch[U], it[U \ {ch[U]}]]
  BY <1>5, <1>1
<1> QED BY <1>6 DEF FoldsTo

\* Two solutions agree wherever both are defined, and their values are in A.
LEMMA FoldUnique ==
    ASSUME NEW D, IsFiniteSet(D), NEW A, NEW base \in A, NEW ch,
           IsChoice(ch, D), NEW G \in [D \X A -> A],
           NEW E \in SUBSET D, NEW it, NEW jt,
           FoldsTo(it, D, A, base, ch, G), FoldsTo(jt, E, A, base, ch, G)
    PROVE  \A U \in SUBSET E : jt[U] = it[U] /\ jt[U] \in A
<1> DEFINE Bad == {U \in SUBSET E : ~ (jt[U] = it[U] /\ jt[U] \in A)}
           T == {Cardinality(U) : U \in Bad}
<1>1. \A U \in SUBSET E : IsFiniteSet(U) /\ Cardinality(U) \in Nat
  BY FS_Subset, FS_CardinalityType
<1>2. SUFFICES ASSUME Bad # {} PROVE FALSE
  OBVIOUS
<1>3. T \in SUBSET Nat /\ T # {}
  BY <1>1, <1>2
<1>4. PICK m \in T : \A k \in T : m <= k
  BY <1>3, LeastNatural, Zenon
<1>5. PICK U \in Bad : m = Cardinality(U)
  OBVIOUS
<1>6. U # {}
  BY <1>5 DEF FoldsTo
<1>7. ch[U] \in U
  BY <1>6 DEF IsChoice
<1> DEFINE W == U \ {ch[U]}
<1>8. W \in SUBSET E /\ Cardinality(W) = m - 1
  BY <1>7, <1>5, <1>1, FS_RemoveElement
<1>9. W \notin Bad
  <2>1. m - 1 \notin T
    BY <1>4, <1>3
  <2> QED BY <2>1, <1>8
<1>10. jt[W] = it[W] /\ jt[W] \in A
  BY <1>8, <1>9
<1>11. jt[U] = G[ch[U], jt[W]] /\ it[U] = G[ch[U], it[W]]
  BY <1>10, <1>6 DEF FoldsTo
<1>12. G[ch[U], jt[W]] \in A
  BY <1>7, <1>10
<1> QED BY <1>10, <1>11, <1>12

-----------------------------------------------------------------------------
(* Folds over a sequence, last index first, which is from the left.        *)

\* it obeys the recursion of FoldLeft over s, where what it has for less is
\* in A.
RunsOver(it, s, A, base, G) ==
    \A U \in SUBSET DOMAIN s :
        /\ U = {} => it[U] = base
        /\ U # {} /\ it[U \ {Max(U)}] \in A
              => it[U] = G[it[U \ {Max(U)}], s[Max(U)]]

\* F is what a run from the left has at the end of every sequence over B, the
\* recursion of FoldLeft has a solution, and every solution ends with F.
IsLeftFold(F, A, B, base, G) ==
    /\ F \in [Seq(B) -> A]
    /\ F[<< >>] = base
    /\ \A s \in Seq(B), b \in B : F[Append(s, b)] = G[F[s], b]
    /\ \A s \in Seq(B) :
          /\ \E it \in [SUBSET DOMAIN s -> A] : RunsOver(it, s, A, base, G)
          /\ \A it : RunsOver(it, s, A, base, G) => it[DOMAIN s] = F[s]

\* The element FoldLeft takes next is one of the sequence.
LEMMA NextElement ==
    ASSUME NEW B, NEW s \in Seq(B), NEW U \in SUBSET DOMAIN s, U # {}
    PROVE  Max(U) \in U /\ Max(U) \in DOMAIN s /\ s[Max(U)] \in B
<1>1. DOMAIN s = 1 .. Len(s) /\ Len(s) \in Nat
  OBVIOUS
<1>2. Max(U) \in U
  BY <1>1, MaxOfBounded
<1> QED BY <1>1, <1>2

\* FoldLeft over sequences is a run from the left.
LEMMA LeftFold ==
    ASSUME NEW A, NEW B, NEW base \in A, NEW G \in [A \X B -> A]
    PROVE  \E F : IsLeftFold(F, A, B, base, G)
<1> DEFINE H(s) == [x \in (DOMAIN s) \X A |-> G[x[2], s[x[1]]]]
           ch(s) == [U \in SUBSET DOMAIN s |-> Max(U)]
           Sol(s, it) == RunsOver(it, s, A, base, G)
           F == [s \in Seq(B) |->
                    (CHOOSE it : it \in [SUBSET DOMAIN s -> A] /\ Sol(s, it))[DOMAIN s]]
<1>1. ASSUME NEW s \in Seq(B)
      PROVE  /\ DOMAIN s = 1 .. Len(s) /\ Len(s) \in Nat
             /\ IsFiniteSet(DOMAIN s)
             /\ IsChoice(ch(s), DOMAIN s)
             /\ H(s) \in [(DOMAIN s) \X A -> A]
  <2>1. DOMAIN s = 1 .. Len(s) /\ Len(s) \in Nat
    OBVIOUS
  <2>2. IsFiniteSet(1 .. Len(s))
    <3>1. 1 \in Int /\ Len(s) \in Int BY <2>1
    <3> QED BY <3>1, FS_Interval, Zenon
  <2>3. IsChoice(ch(s), DOMAIN s)
    BY <2>1, MaxOfBounded DEF IsChoice
  <2>4. \A x \in (DOMAIN s) \X A : G[x[2], s[x[1]]] \in A
    <3> SUFFICES ASSUME NEW i \in DOMAIN s, NEW a \in A PROVE G[a, s[i]] \in A
      OBVIOUS
    <3>1. s[i] \in B
      OBVIOUS
    <3> QED BY <3>1
  <2> QED BY <2>1, <2>2, <2>3, <2>4
<1>2. ASSUME NEW s \in Seq(B), NEW it, NEW E \in SUBSET DOMAIN s
      PROVE  FoldsTo(it, E, A, base, ch(s), H(s))
                <=> \A U \in SUBSET E :
                       /\ U = {} => it[U] = base
                       /\ U # {} /\ it[U \ {Max(U)}] \in A
                             => it[U] = G[it[U \ {Max(U)}], s[Max(U)]]
  <2>1. \A U \in SUBSET E : ch(s)[U] = Max(U)
    OBVIOUS
  <2>2. \A U \in SUBSET E : U # {} => Max(U) \in DOMAIN s
    BY <1>1, MaxOfBounded
  <2>3. \A U \in SUBSET E : U # {} /\ it[U \ {Max(U)}] \in A
           => H(s)[Max(U), it[U \ {Max(U)}]]
                 = G[it[U \ {Max(U)}], s[Max(U)]]
    BY <2>2
  <2> HIDE DEF H, ch
  <2> QED BY <2>1, <2>3 DEF FoldsTo
<1>3. ASSUME NEW s \in Seq(B)
      PROVE  \E it : it \in [SUBSET DOMAIN s -> A] /\ Sol(s, it)
  <2> HIDE DEF H, ch
  <2>1. PICK it \in [SUBSET DOMAIN s -> A] :
           FoldsTo(it, DOMAIN s, A, base, ch(s), H(s))
    BY <1>1, FoldExists
  <2>2. DOMAIN s \in SUBSET DOMAIN s
    OBVIOUS
  <2>3. RunsOver(it, s, A, base, G)
    BY <2>1, <2>2, <1>2 DEF RunsOver
  <2> QED BY <2>3
<1>4. ASSUME NEW s \in Seq(B), NEW it, Sol(s, it)
      PROVE  it[DOMAIN s] = F[s] /\ F[s] \in A
  <2> DEFINE jt == CHOOSE j : j \in [SUBSET DOMAIN s -> A] /\ Sol(s, j)
  <2> HIDE DEF H, ch
  <2>1. jt \in [SUBSET DOMAIN s -> A] /\ Sol(s, jt)
    BY <1>3, Zenon
  <2>2. F[s] = jt[DOMAIN s]
    OBVIOUS
  <2> HIDE DEF jt, F
  <2>3. /\ FoldsTo(it, DOMAIN s, A, base, ch(s), H(s))
        /\ FoldsTo(jt, DOMAIN s, A, base, ch(s), H(s))
    BY <1>2, <1>4, <2>1 DEF RunsOver
  <2>4. it[DOMAIN s] = jt[DOMAIN s] /\ it[DOMAIN s] \in A
    BY <2>3, <1>1, FoldUnique
  <2> QED BY <2>2, <2>4
<1>5. F \in [Seq(B) -> A]
  <2>1. ASSUME NEW s \in Seq(B) PROVE F[s] \in A
    BY <1>3, <1>4
  <2> QED BY <2>1
<1>6. F[<< >>] = base
  <2>1. << >> \in Seq(B) /\ DOMAIN << >> = {}
    OBVIOUS
  <2>2. PICK it : Sol(<< >>, it)
    BY <2>1, <1>3
  <2>3. it[DOMAIN << >>] = F[<< >>]
    BY <2>1, <2>2, <1>4
  <2>4. it[{}] = base
    BY <2>2, <2>1 DEF RunsOver
  <2> QED BY <2>3, <2>4, <2>1
<1>7. ASSUME NEW s \in Seq(B), NEW b \in B
      PROVE  F[Append(s, b)] = G[F[s], b]
  <2> DEFINE t == Append(s, b)
  <2>1. /\ t \in Seq(B) /\ Len(t) = Len(s) + 1 /\ DOMAIN t = 1 .. Len(s) + 1
        /\ DOMAIN s = 1 .. Len(s) /\ Len(s) \in Nat
        /\ t[Len(s) + 1] = b
        /\ \A i \in DOMAIN s : t[i] = s[i]
    OBVIOUS
  <2>2. PICK it : it \in [SUBSET DOMAIN t -> A] /\ Sol(t, it)
    BY <2>1, <1>3
  <2>3. Max(DOMAIN t) = Len(s) + 1
    <3>1. Max(DOMAIN t) \in DOMAIN t /\ \A u \in DOMAIN t : u <= Max(DOMAIN t)
      <4>1. Len(s) + 1 \in Nat /\ DOMAIN t \in SUBSET (1 .. Len(s) + 1)
            /\ DOMAIN t # {}
        BY <2>1
      <4> QED BY <4>1, MaxOfBounded
    <3>2. Len(s) + 1 \in DOMAIN t
      BY <2>1
    <3> QED BY <3>1, <3>2, <2>1
  <2>4. (DOMAIN t) \ {Len(s) + 1} = DOMAIN s
    BY <2>1
  <2>5. Sol(s, it)
    <3> SUFFICES ASSUME NEW U \in SUBSET DOMAIN s
                 PROVE  /\ U = {} => it[U] = base
                        /\ U # {} /\ it[U \ {Max(U)}] \in A
                              => it[U] = G[it[U \ {Max(U)}], s[Max(U)]]
      BY DEF RunsOver
    <3>1. U \in SUBSET DOMAIN t
      BY <2>1
    <3>2. U # {} => Max(U) \in DOMAIN s
      BY <2>1, MaxOfBounded
    <3> HIDE DEF t
    <3> QED BY <3>1, <3>2, <2>1, <2>2 DEF RunsOver
  <2>6. it[DOMAIN s] = F[s] /\ F[s] \in A /\ it[DOMAIN t] = F[t]
    BY <2>5, <2>2, <2>1, <1>4
  <2> HIDE DEF t, F
  <2>7. it[DOMAIN t] = G[it[DOMAIN s], t[Len(s) + 1]]
    <3>1. DOMAIN t # {}
      BY <2>1
    <3> QED BY <3>1, <2>2, <2>3, <2>4, <2>6 DEF RunsOver
  <2> QED BY <2>6, <2>7, <2>1 DEF t
<1> HIDE DEF F
<1>8. ASSUME NEW s \in Seq(B)
      PROVE  /\ \E it \in [SUBSET DOMAIN s -> A] : RunsOver(it, s, A, base, G)
             /\ \A it : RunsOver(it, s, A, base, G) => it[DOMAIN s] = F[s]
  BY <1>3, <1>4
<1> QED BY <1>5, <1>6, <1>7, <1>8, Zenon DEF IsLeftFold

-----------------------------------------------------------------------------
(* Sums over finite sets.                                                  *)

\* A set of subsets that contains every subset whose parts with one element
\* less it contains, contains all of them.
LEMMA SubsetInduction ==
    ASSUME NEW S, IsFiniteSet(S), NEW Good,
           \A U \in SUBSET S : (\A x \in U : U \ {x} \in Good) => U \in Good
    PROVE  \A U \in SUBSET S : U \in Good
<1> DEFINE Bad == {U \in SUBSET S : U \notin Good}
           T == {Cardinality(U) : U \in Bad}
<1>1. \A U \in SUBSET S : IsFiniteSet(U) /\ Cardinality(U) \in Nat
  BY FS_Subset, FS_CardinalityType
<1> SUFFICES ASSUME Bad # {} PROVE FALSE
  OBVIOUS
<1>2. T \in SUBSET Nat /\ T # {}
  BY <1>1
<1>3. PICK m \in T : \A k \in T : m <= k
  BY <1>2, LeastNatural, Zenon
<1>4. PICK U \in Bad : m = Cardinality(U)
  OBVIOUS
<1>5. ASSUME NEW x \in U PROVE U \ {x} \in Good
  <2>1. U \ {x} \in SUBSET S /\ Cardinality(U \ {x}) = m - 1
    BY <1>4, <1>1, FS_RemoveElement
  <2>2. m - 1 \notin T
    <3>1. m \in Nat
      BY <1>2
    <3>2. ~ m <= m - 1
      BY <3>1
    <3> HIDE DEF T
    <3> QED BY <1>3, <3>2
  <2> QED BY <2>1, <2>2
<1> QED BY <1>5

\* F has the sums of f over the subsets of S.
IsSums(F, S, f) ==
    /\ F \in [SUBSET S -> Int]
    /\ F[{}] = 0
    /\ \A U \in SUBSET S : \A x \in U : F[U] = f[x] + F[U \ {x}]

\* A sum over a finite set takes its elements in any order.
LEMMA SumsOnSet ==
    ASSUME NEW S, IsFiniteSet(S), NEW f, \A x \in S : f[x] \in Int
    PROVE  \E F : IsSums(F, S, f) /\ SumFunctionOnSet(f, S) = F[S]
<1> DEFINE ch == [U \in SUBSET S |-> CHOOSE x \in U : TRUE]
           G == [x \in S \X Int |-> f[x[1]] + x[2]]
           body(it) == [U \in SUBSET S |-> IF U = {} THEN 0
                            ELSE f[CHOOSE x \in U : TRUE]
                                 + it[U \ {CHOOSE x \in U : TRUE}]]
           it == CHOOSE it : it = body(it)
<1>1. IsChoice(ch, S) /\ 0 \in Int /\ G \in [S \X Int -> Int]
  BY DEF IsChoice
<1>2. \A x \in S, i \in Int : G[x, i] = f[x] + i
  OBVIOUS
<1>3. \A U \in SUBSET S : ch[U] = CHOOSE x \in U : TRUE
  OBVIOUS
<1> HIDE DEF G, ch
<1>4. PICK F \in [SUBSET S -> Int] : FoldsTo(F, S, Int, 0, ch, G)
  BY <1>1, FoldExists
<1>5. \A U \in SUBSET S : U # {} =>
          ch[U] \in U /\ F[U] = f[ch[U]] + F[U \ {ch[U]}]
  BY <1>1, <1>2, <1>4 DEF FoldsTo, IsChoice
<1>6. F = body(F)
  <2>1. F[{}] = 0
    BY <1>4 DEF FoldsTo
  <2> QED BY <1>3, <1>4, <1>5, <2>1
<1>7. it = body(it)
  BY <1>6, Zenon
<1>8. SumFunctionOnSet(f, S) = it[S]
  BY DEF SumFunctionOnSet, FoldFunctionOnSet, MapThenFoldSet
<1> HIDE DEF it
<1> DEFINE Same == {U \in SUBSET S : it[U] = F[U]}
<1>15. ASSUME NEW U \in SUBSET S, \A x \in U : U \ {x} \in Same
       PROVE  U \in Same
  <2>1. it[U] = IF U = {} THEN 0 ELSE f[ch[U]] + it[U \ {ch[U]}]
    BY <1>3, <1>7
  <2>2. U = {} => F[U] = 0
    BY <1>4 DEF FoldsTo
  <2>3. U # {} => it[U \ {ch[U]}] = F[U \ {ch[U]}]
    BY <1>5, <1>15
  <2> QED BY <2>1, <2>2, <2>3, <1>5
<1>10. it[S] = F[S]
  <2>1. \A U \in SUBSET S : U \in Same
    <3> HIDE DEF Same
    <3> QED BY <1>15, SubsetInduction
  <2> QED BY <2>1
<1> DEFINE Good == {U \in SUBSET S : \A x \in U : F[U] = f[x] + F[U \ {x}]}
<1>11. ASSUME NEW U \in SUBSET S, \A x \in U : U \ {x} \in Good
       PROVE  U \in Good
  <2> SUFFICES ASSUME NEW x \in U PROVE F[U] = f[x] + F[U \ {x}]
    OBVIOUS
  <2> DEFINE c == ch[U]
  <2>1. c \in U /\ F[U] = f[c] + F[U \ {c}]
    BY <1>5
  <2>2. CASE x = c
    BY <2>1, <2>2
  <2>3. CASE x # c
    <3> HIDE DEF c
    <3>1. /\ U \ {c} \in Good /\ U \ {x} \in Good
          /\ x \in U \ {c} /\ c \in U \ {x}
      BY <1>11, <2>1, <2>3
    <3>2. /\ F[U \ {c}] = f[x] + F[(U \ {c}) \ {x}]
          /\ F[U \ {x}] = f[c] + F[(U \ {x}) \ {c}]
      BY <3>1
    <3> DEFINE W == (U \ {x}) \ {c}
    <3>3. (U \ {c}) \ {x} = W
      OBVIOUS
    <3>4. f[x] \in Int /\ f[c] \in Int /\ F[W] \in Int
      BY <2>1, <1>4
    <3>5. F[U \ {c}] = f[x] + F[W] /\ F[U \ {x}] = f[c] + F[W]
      BY <3>2, <3>3
    <3> HIDE DEF W
    <3> QED BY <2>1, <3>4, <3>5
  <2> QED BY <2>2, <2>3
<1>12. \A U \in SUBSET S : U \in Good
  <2> HIDE DEF Good
  <2> QED BY <1>11, SubsetInduction
<1>13. F[{}] = 0
  BY <1>4 DEF FoldsTo
<1>14. IsSums(F, S, f)
  BY <1>4, <1>12, <1>13 DEF IsSums
<1> QED BY <1>8, <1>10, <1>14

\* The sum of a function is the sum over its domain.
LEMMA SumsExist ==
    ASSUME NEW S, IsFiniteSet(S), NEW f \in [S -> Int]
    PROVE  \E F : IsSums(F, S, f) /\ SumFunction(f) = F[S]
<1>1. DOMAIN f = S /\ \A x \in S : f[x] \in Int
  OBVIOUS
<1>2. SumFunction(f) = SumFunctionOnSet(f, S)
  BY <1>1 DEF SumFunction
<1> QED BY <1>1, <1>2, SumsOnSet

\* A sum of naturals is a natural.
LEMMA SumOfNaturals ==
    ASSUME NEW S, IsFiniteSet(S), NEW f, \A x \in S : f[x] \in Nat
    PROVE  SumFunctionOnSet(f, S) \in Nat
<1>0. \A x \in S : f[x] \in Int
  OBVIOUS
<1>1. PICK F : IsSums(F, S, f) /\ SumFunctionOnSet(f, S) = F[S]
  BY <1>0, SumsOnSet
<1> DEFINE Good == {U \in SUBSET S : F[U] \in Nat}
<1>2. ASSUME NEW U \in SUBSET S, \A x \in U : U \ {x} \in Good
      PROVE  U \in Good
  <2>1. CASE U = {}
    BY <2>1, <1>1 DEF IsSums
  <2>2. CASE U # {}
    <3>1. PICK x \in U : TRUE
      BY <2>2
    <3>2. F[U] = f[x] + F[U \ {x}] /\ F[U \ {x}] \in Nat /\ f[x] \in Nat
      BY <1>1, <1>2 DEF IsSums
    <3> QED BY <3>2
  <2> QED BY <2>1, <2>2
<1>3. \A U \in SUBSET S : U \in Good
  <2> HIDE DEF Good
  <2> QED BY <1>2, SubsetInduction
<1> QED BY <1>1, <1>3

\* A sum is a number.
LEMMA SumType ==
    ASSUME NEW S, IsFiniteSet(S), NEW f \in [S -> Int]
    PROVE  SumFunction(f) \in Int
<1>1. PICK F : IsSums(F, S, f) /\ SumFunction(f) = F[S]
  BY SumsExist
<1> QED BY <1>1 DEF IsSums

\* A sum of larger terms is larger.
LEMMA SumMonotonic ==
    ASSUME NEW S, IsFiniteSet(S), NEW f \in [S -> Int], NEW g \in [S -> Int],
           \A x \in S : f[x] <= g[x]
    PROVE  SumFunction(f) <= SumFunction(g)
<1>1. PICK F : IsSums(F, S, f) /\ SumFunction(f) = F[S]
  BY SumsExist
<1>2. PICK G : IsSums(G, S, g) /\ SumFunction(g) = G[S]
  BY SumsExist
<1> DEFINE Good == {U \in SUBSET S : F[U] <= G[U]}
<1>3. ASSUME NEW U \in SUBSET S, \A x \in U : U \ {x} \in Good
      PROVE  U \in Good
  <2>1. CASE U = {}
    BY <2>1, <1>1, <1>2 DEF IsSums
  <2>2. CASE U # {}
    <3>1. PICK x \in U : TRUE
      BY <2>2
    <3>2. F[U] = f[x] + F[U \ {x}] /\ G[U] = g[x] + G[U \ {x}]
      BY <1>1, <1>2 DEF IsSums
    <3>3. F[U \ {x}] <= G[U \ {x}]
      BY <1>3
    <3>4. /\ f[x] \in Int /\ g[x] \in Int /\ f[x] <= g[x]
          /\ F[U \ {x}] \in Int /\ G[U \ {x}] \in Int
      BY <1>1, <1>2 DEF IsSums
    <3> QED BY <3>2, <3>3, <3>4
  <2> QED BY <2>1, <2>2
<1>4. \A U \in SUBSET S : U \in Good
  <2> HIDE DEF Good
  <2> QED BY <1>3, SubsetInduction
<1> QED BY <1>1, <1>2, <1>4

\* Sums add up term by term.
LEMMA SumAdd ==
    ASSUME NEW S, IsFiniteSet(S), NEW f \in [S -> Int], NEW g \in [S -> Int]
    PROVE  SumFunction([x \in S |-> f[x] + g[x]])
              = SumFunction(f) + SumFunction(g)
<1> DEFINE h == [x \in S |-> f[x] + g[x]]
<1>0. h \in [S -> Int]
  OBVIOUS
<1>1. PICK F : IsSums(F, S, f) /\ SumFunction(f) = F[S]
  BY SumsExist
<1>2. PICK G : IsSums(G, S, g) /\ SumFunction(g) = G[S]
  BY SumsExist
<1>3. PICK H : IsSums(H, S, h) /\ SumFunction(h) = H[S]
  BY <1>0, SumsExist
<1>4. \A x \in S : h[x] = f[x] + g[x]
  OBVIOUS
<1> HIDE DEF h
<1> DEFINE Good == {U \in SUBSET S : H[U] = F[U] + G[U]}
<1>5. ASSUME NEW U \in SUBSET S, \A x \in U : U \ {x} \in Good
      PROVE  U \in Good
  <2>1. CASE U = {}
    BY <2>1, <1>1, <1>2, <1>3 DEF IsSums
  <2>2. CASE U # {}
    <3>1. PICK x \in U : TRUE
      BY <2>2
    <3>2. /\ F[U] = f[x] + F[U \ {x}] /\ G[U] = g[x] + G[U \ {x}]
          /\ H[U] = h[x] + H[U \ {x}]
      BY <1>1, <1>2, <1>3 DEF IsSums
    <3>3. H[U \ {x}] = F[U \ {x}] + G[U \ {x}]
      BY <1>5
    <3>4. /\ f[x] \in Int /\ g[x] \in Int /\ h[x] = f[x] + g[x]
          /\ F[U \ {x}] \in Int /\ G[U \ {x}] \in Int
      BY <1>1, <1>2, <1>4 DEF IsSums
    <3> QED BY <3>2, <3>3, <3>4
  <2> QED BY <2>1, <2>2
<1>6. \A U \in SUBSET S : U \in Good
  <2> HIDE DEF Good
  <2> QED BY <1>5, SubsetInduction
<1>7. SumFunction(h) = SumFunction(f) + SumFunction(g)
  BY <1>1, <1>2, <1>3, <1>6
<1> QED BY <1>7 DEF h

\* A sum of nothing but zeros and one term.
LEMMA SumOne ==
    ASSUME NEW S, IsFiniteSet(S), NEW p \in S, NEW d \in Int
    PROVE  SumFunction([x \in S |-> IF x = p THEN d ELSE 0]) = d
<1> DEFINE f == [x \in S |-> IF x = p THEN d ELSE 0]
<1>0. f \in [S -> Int] /\ \A x \in S : f[x] = IF x = p THEN d ELSE 0
  OBVIOUS
<1>1. PICK F : IsSums(F, S, f) /\ SumFunction(f) = F[S]
  BY <1>0, SumsExist
<1> HIDE DEF f
<1> DEFINE Good == {U \in SUBSET S : F[U] = IF p \in U THEN d ELSE 0}
<1>5. ASSUME NEW U \in SUBSET S, \A x \in U : U \ {x} \in Good
      PROVE  U \in Good
  <2>1. CASE U = {}
    BY <2>1, <1>1 DEF IsSums
  <2>2. CASE U # {}
    <3>1. PICK x \in U : TRUE
      BY <2>2
    <3>2. F[U] = f[x] + F[U \ {x}] /\ F[U \ {x}] \in Int
      BY <1>1 DEF IsSums
    <3>3. F[U \ {x}] = IF p \in U \ {x} THEN d ELSE 0
      BY <1>5
    <3> QED BY <3>2, <3>3, <1>0
  <2> QED BY <2>1, <2>2
<1>6. \A U \in SUBSET S : U \in Good
  <2> HIDE DEF Good
  <2> QED BY <1>5, SubsetInduction
<1>7. SumFunction(f) = d
  BY <1>1, <1>6
<1> QED BY <1>7 DEF f

\* Changing one term changes the sum by as much.
LEMMA SumChange ==
    ASSUME NEW S, IsFiniteSet(S), NEW f \in [S -> Int], NEW p \in S,
           NEW d \in Int
    PROVE  SumFunction([f EXCEPT ![p] = d]) = SumFunction(f) - f[p] + d
<1> DEFINE e == d - f[p]
           g == [x \in S |-> IF x = p THEN e ELSE 0]
           h == [x \in S |-> f[x] + g[x]]
<1>2. g \in [S -> Int] /\ e \in Int /\ f[p] \in Int
  OBVIOUS
<1>1. [f EXCEPT ![p] = d] = h
  <2>1. ASSUME NEW x \in S PROVE [f EXCEPT ![p] = d][x] = f[x] + g[x]
    <3>1. f[x] \in Int /\ g[x] = IF x = p THEN e ELSE 0
      OBVIOUS
    <3>2. [f EXCEPT ![p] = d][x] = IF x = p THEN d ELSE f[x]
      OBVIOUS
    <3> HIDE DEF g
    <3> QED BY <3>1, <3>2, <1>2
  <2> HIDE DEF g
  <2> QED BY <2>1
<1>3. SumFunction(g) = e
  <2> HIDE DEF e
  <2> QED BY <1>2, SumOne
<1>4. SumFunction(f) \in Int
  BY SumType
<1> HIDE DEF g
<1>5. SumFunction(h) = SumFunction(f) + SumFunction(g)
  BY <1>2, SumAdd
<1> DEFINE s == SumFunction(f)
<1>6. s \in Int /\ SumFunction(h) = s + e
  BY <1>3, <1>4, <1>5
<1>7. s + (d - f[p]) = s - f[p] + d
  <2> HIDE DEF s
  <2> QED BY <1>2, <1>6
<1> HIDE DEF h
<1> QED BY <1>1, <1>6, <1>7

\* A sum of zeros is zero.
LEMMA SumZero ==
    ASSUME NEW S, IsFiniteSet(S), NEW f \in [S -> Int], \A x \in S : f[x] = 0
    PROVE  SumFunction(f) = 0
<1>1. PICK F : IsSums(F, S, f) /\ SumFunction(f) = F[S]
  BY SumsExist
<1> DEFINE Good == {U \in SUBSET S : F[U] = 0}
<1>2. ASSUME NEW U \in SUBSET S, \A x \in U : U \ {x} \in Good
      PROVE  U \in Good
  <2>1. CASE U = {}
    BY <2>1, <1>1 DEF IsSums
  <2>2. CASE U # {}
    <3>1. PICK x \in U : TRUE
      BY <2>2
    <3>2. F[U] = f[x] + F[U \ {x}] /\ F[U \ {x}] = 0 /\ f[x] = 0
      BY <1>1, <1>2 DEF IsSums
    <3> QED BY <3>2
  <2> QED BY <2>1, <2>2
<1>3. \A U \in SUBSET S : U \in Good
  <2> HIDE DEF Good
  <2> QED BY <1>2, SubsetInduction
<1> QED BY <1>1, <1>3

\* Scaled terms in order have scaled sums in order.
LEMMA SumScaled ==
    ASSUME NEW S, IsFiniteSet(S), NEW f \in [S -> Int], NEW g \in [S -> Int],
           NEW h \in Int, NEW t \in Int, \A x \in S : h * f[x] <= t * g[x]
    PROVE  h * SumFunction(f) <= t * SumFunction(g)
<1>1. PICK F : IsSums(F, S, f) /\ SumFunction(f) = F[S]
  BY SumsExist
<1>2. PICK G : IsSums(G, S, g) /\ SumFunction(g) = G[S]
  BY SumsExist
<1> DEFINE Good == {U \in SUBSET S : h * F[U] <= t * G[U]}
<1>3. ASSUME NEW U \in SUBSET S, \A x \in U : U \ {x} \in Good
      PROVE  U \in Good
  <2>1. CASE U = {}
    <3>1. F[U] = 0 /\ G[U] = 0
      BY <2>1, <1>1, <1>2 DEF IsSums
    <3> QED BY <3>1
  <2>2. CASE U # {}
    <3>1. PICK x \in U : TRUE
      BY <2>2
    <3> DEFINE a == f[x]
               b == F[U \ {x}]
               c == g[x]
               d == G[U \ {x}]
    <3>2. F[U] = a + b /\ G[U] = c + d
      BY <1>1, <1>2 DEF IsSums
    <3>3. h * a <= t * c /\ h * b <= t * d
      BY <1>3
    <3>4. a \in Int /\ b \in Int /\ c \in Int /\ d \in Int
      BY <1>1, <1>2 DEF IsSums
    <3> HIDE DEF a, b, c, d
    <3>5. h * (a + b) = h * a + h * b /\ t * (c + d) = t * c + t * d
      BY <3>4
    <3>6. h * a \in Int /\ h * b \in Int /\ t * c \in Int /\ t * d \in Int
      BY <3>4
    <3> DEFINE ha == h * a
               hb == h * b
               tc == t * c
               td == t * d
    <3>7. ha + hb <= tc + td
      <4> HIDE DEF ha, hb, tc, td
      <4>1. ha \in Int /\ hb \in Int /\ tc \in Int /\ td \in Int
            /\ ha <= tc /\ hb <= td
        BY <3>3, <3>6 DEF ha, hb, tc, td
      <4> QED BY <4>1
    <3> QED BY <3>2, <3>5, <3>7
  <2> QED BY <2>1, <2>2
<1>4. \A U \in SUBSET S : U \in Good
  <2> HIDE DEF Good
  <2> QED BY <1>3, SubsetInduction
<1> QED BY <1>1, <1>2, <1>4

-----------------------------------------------------------------------------
(* Extremes of finite sets.                                                *)

\* A finite set that is not empty has an element with the highest value.
LEMMA HighestOf ==
    ASSUME NEW S, IsFiniteSet(S), NEW f, \A x \in S : f[x] \in Int, S # {}
    PROVE  \E x \in S : \A y \in S : f[y] <= f[x]
<1> DEFINE Good == {U \in SUBSET S : U = {} \/ \E x \in U : \A y \in U : f[y] <= f[x]}
<1>1. ASSUME NEW U \in SUBSET S, \A x \in U : U \ {x} \in Good
      PROVE  U \in Good
  <2>1. CASE U = {}
    BY <2>1
  <2>2. CASE U # {}
    <3>1. PICK x \in U : TRUE
      BY <2>2
    <3>2. CASE U \ {x} = {}
      <4>1. \A y \in U : y = x
        BY <3>2
      <4>2. f[x] <= f[x]
        BY <3>1
      <4> QED BY <4>1, <4>2, <3>1
    <3>3. CASE U \ {x} # {}
      <4>1. PICK z \in U \ {x} : \A y \in U \ {x} : f[y] <= f[z]
        BY <3>1, <3>3, <1>1
      <4>2. f[x] \in Int /\ f[z] \in Int /\ \A y \in U : f[y] \in Int
        BY <3>1, <4>1
      <4>3. CASE f[x] <= f[z]
        BY <4>1, <4>3
      <4>4. CASE ~ f[x] <= f[z]
        BY <4>1, <4>2, <4>4, <3>1
      <4> QED BY <4>3, <4>4
    <3> QED BY <3>2, <3>3
  <2> QED BY <2>1, <2>2
<1> HIDE DEF Good
<1>2. S \in Good
  BY <1>1, SubsetInduction
<1> QED BY <1>2 DEF Good
=============================================================================
