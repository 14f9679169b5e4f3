---------------------------- MODULE CreditProofs ----------------------------
(***************************************************************************)
(* What each operation on a balance returns: a wallet again, and one whose *)
(* RCH credit is still covered when it was before.  And what the proofs    *)
(* about balances need of sums over rows: SumFunctionOnSet is a fold, and  *)
(* an induction over the finite set it sums is, without an induction rule, *)
(* the choice of a smallest set for which the claim would fail.            *)
(***************************************************************************)
EXTENDS Credit, FiniteSets, Functions, FiniteSetTheorems, WellFoundedInduction, TLAPS

\* A debit the balance covers leaves a wallet, with RCH credit still covered:
\* the trigger consume_rch_credit takes RCH credit first.
LEMMA SpendWallet ==
    ASSUME NEW w \in Wallet, NEW n \in Nat, n <= w.prepaid
    PROVE  Spend(w, n) \in Wallet /\ (Backed(w) => Backed(Spend(w, n)))
  BY DEF Wallet, Spend, Excess, Backed

\* Giving n back, at most n of it as RCH credit, keeps the balance covered.
LEMMA ReturnWallet ==
    ASSUME NEW w \in Wallet, NEW n \in Nat, NEW r \in Nat
    PROVE  /\ Return(w, n, r) \in Wallet
           /\ Backed(w) /\ r <= n => Backed(Return(w, n, r))
  BY DEF Wallet, Return, Backed

\* Arriving credit pays debt first and never makes debt or balance negative.
LEMMA DepositWallet ==
    ASSUME NEW w \in Wallet, NEW n \in Nat, NEW fromRch \in BOOLEAN
    PROVE  /\ Deposit(w, n, fromRch) \in Wallet
           /\ Backed(w) => Backed(Deposit(w, n, fromRch))
           /\ Deposit(w, n, fromRch).prepaid - Deposit(w, n, fromRch).debt
                = w.prepaid - w.debt + n
  BY DEF Wallet, Deposit, DebtPaid, Least, Backed

\* A reversal takes exactly n: from the balance first, the rest becomes debt.
LEMMA TakeBackWallet ==
    ASSUME NEW w \in Wallet, NEW n \in Nat
    PROVE  /\ TakeBack(w, n) \in Wallet
           /\ Backed(w) => Backed(TakeBack(w, n))
           /\ TakeBack(w, n).prepaid - TakeBack(w, n).debt = w.prepaid - w.debt - n
  BY DEF Wallet, TakeBack, Spend, Owe, Least, Excess, Backed

\* Settling USD usage charges exactly `actual` against balance, hold and debt,
\* and returns no more RCH credit than the hold still had.
LEMMA SettleUsdWallet ==
    ASSUME NEW w \in Wallet, NEW amount \in Nat, NEW heldRch \in Nat,
           NEW actual \in Nat
    PROVE  /\ SettleUsd(w, amount, heldRch, actual) \in Wallet
           /\ Backed(w) /\ heldRch <= amount
                => Backed(SettleUsd(w, amount, heldRch, actual))
           /\ SettleUsd(w, amount, heldRch, actual).prepaid
                - SettleUsd(w, amount, heldRch, actual).debt
                = w.prepaid - w.debt + amount - actual
  BY DEF Wallet, SettleUsd, Excess, Backed

-----------------------------------------------------------------------------
(* Sums over rows *)

\* Among natural numbers there is a least one.
LEMMA LeastNumber ==
  ASSUME NEW T, T \subseteq Nat, T # {}
  PROVE  \E n \in T : \A m \in T : ~(m < n)
<1>1. IsWellFoundedOn(OpToRel(<, Nat), Nat)
  BY NatLessThanWellFounded
<1>2. \E n \in T : \A m \in T : <<m, n>> \notin OpToRel(<, Nat)
  BY <1>1, WFMin
<1>3. QED
  BY <1>2 DEF OpToRel

\* Of finite sets too, some have no smaller one among them.
LEMMA LeastSet ==
  ASSUME NEW S, IsFiniteSet(S), NEW T, T \subseteq SUBSET S, T # {}
  PROVE  \E s \in T : \A t \in T : ~(Cardinality(t) < Cardinality(s))
<1>. DEFINE sizes == {Cardinality(s) : s \in T}
<1>1. sizes \subseteq Nat
  BY FS_Subset, FS_CardinalityType
<1>2. PICK n \in sizes : \A m \in sizes : ~(m < n)
  BY <1>1, LeastNumber
<1>3. QED
  BY <1>2

Pick(s) == CHOOSE x \in s : TRUE

\* g is the sum of f over each subset of S, as the fold computes it.
Sums(f, S, g) ==
    g = [s \in SUBSET S |-> IF s = {} THEN 0 ELSE f[Pick(s)] + g[s \ {Pick(s)}]]

LEMMA SumIsFold ==
  ASSUME NEW f, NEW S
  PROVE  SumFunctionOnSet(f, S) = (CHOOSE g : Sums(f, S, g))[S]
  BY DEF SumFunctionOnSet, FoldFunctionOnSet, MapThenFoldSet, Pick, Sums

LEMMA Picked ==
  ASSUME NEW s, s # {}
  PROVE  Pick(s) \in s
  BY DEF Pick

LEMMA SmallerWithout ==
  ASSUME NEW S, IsFiniteSet(S), NEW s \in SUBSET S, NEW x \in s
  PROVE  /\ IsFiniteSet(s) /\ Cardinality(s) \in Nat
         /\ s \ {x} \in SUBSET S
         /\ Cardinality(s \ {x}) = Cardinality(s) - 1
         /\ Cardinality(s \ {x}) \in Nat
<1>1. IsFiniteSet(s)
  BY FS_Subset
<1>2. IsFiniteSet(s \ {x}) /\ Cardinality(s \ {x}) = Cardinality(s) - 1
  BY <1>1, FS_RemoveElement
<1>3. QED
  BY <1>1, <1>2, FS_CardinalityType

LEMMA SumsExist ==
  ASSUME NEW f, NEW S, IsFiniteSet(S)
  PROVE  \E g : Sums(f, S, g)
<1>. DEFINE small(n) == {s \in SUBSET S : Cardinality(s) <= n}
            sums(n, g) == g = [s \in small(n) |->
                                 IF s = {} THEN 0 ELSE f[Pick(s)] + g[s \ {Pick(s)}]]
            bad == {n \in Nat : ~ \E g : sums(n, g)}
<1>1. sums(0, [s \in small(0) |-> 0])
  <2>1. \A s \in small(0) : s = {}
    BY FS_EmptySet, FS_Subset, FS_CardinalityType
  <2>2. QED
    BY <2>1
<1>2. ASSUME NEW n \in Nat, NEW g, sums(n, g)
      PROVE  \E h : sums(n + 1, h)
  <2>. DEFINE h == [s \in small(n + 1) |->
                      IF s = {} THEN 0 ELSE f[Pick(s)] + g[s \ {Pick(s)}]]
  <2>1. \A s \in small(n + 1) : s # {} => s \ {Pick(s)} \in small(n)
    BY Picked, SmallerWithout
  <2>2. \A s \in small(n) : s \in small(n + 1)
    BY FS_Subset, FS_CardinalityType
  <2>3. \A s \in small(n) : h[s] = g[s]
    BY <1>2, <2>2
  <2>4. \A s \in small(n + 1) : h[s] = IF s = {} THEN 0 ELSE f[Pick(s)] + h[s \ {Pick(s)}]
    BY <2>1, <2>3
  <2>5. sums(n + 1, h)
    BY <2>4
  <2>6. QED
    BY <2>5
<1>3. bad = {}
  <2>. SUFFICES ASSUME bad # {} PROVE FALSE
    OBVIOUS
  <2>1. PICK n \in bad : \A m \in bad : ~(m < n)
    BY LeastNumber
  <2>2. n # 0
    BY <1>1
  <2>3. n - 1 \in Nat /\ n - 1 \notin bad
    <3>1. n \in Nat
      BY <2>1
    <3>2. n - 1 \in Nat /\ n - 1 < n
      BY <3>1, <2>2
    <3>. HIDE DEF bad
    <3>. QED
      BY <2>1, <3>2
  <2>4. PICK g : sums(n - 1, g)
    BY <2>3
  <2>5. \E h : sums(n - 1 + 1, h)
    <3>. HIDE DEF sums
    <3>. QED
      BY <1>2, <2>3, <2>4
  <2>6. n - 1 + 1 = n
    BY <2>3
  <2>7. QED
    <3>. HIDE DEF sums
    <3>. QED
      BY <2>5, <2>6
<1>4. Cardinality(S) \in Nat /\ small(Cardinality(S)) = SUBSET S
  BY FS_Subset, FS_CardinalityType
<1>5. PICK g : sums(Cardinality(S), g)
  BY <1>3, <1>4
<1>6. QED
  BY <1>4, <1>5 DEF Sums

LEMMA SumsAgree ==
  ASSUME NEW f, NEW S, IsFiniteSet(S), NEW T \in SUBSET S,
         NEW g, Sums(f, S, g), NEW h, Sums(f, T, h)
  PROVE  \A s \in SUBSET T : g[s] = h[s]
<1>. DEFINE bad == {s \in SUBSET T : g[s] # h[s]}
<1>. SUFFICES ASSUME bad # {} PROVE FALSE
  OBVIOUS
<1>0. IsFiniteSet(T)
  BY FS_Subset
<1>1. PICK s \in bad : \A t \in bad : ~(Cardinality(t) < Cardinality(s))
  BY <1>0, LeastSet
<1>2. s # {}
  BY DEF Sums
<1>3. /\ s \ {Pick(s)} \in SUBSET T
      /\ Cardinality(s \ {Pick(s)}) < Cardinality(s)
  BY <1>0, <1>2, Picked, SmallerWithout
<1>4. g[s \ {Pick(s)}] = h[s \ {Pick(s)}]
  BY <1>1, <1>3
<1>5. s \in SUBSET T /\ s \in SUBSET S
  OBVIOUS
<1>6. g[s] = f[Pick(s)] + g[s \ {Pick(s)}] /\ h[s] = f[Pick(s)] + h[s \ {Pick(s)}]
  BY <1>2, <1>5 DEF Sums
<1>7. QED
  BY <1>4, <1>6

LEMMA SumEmpty ==
  ASSUME NEW f
  PROVE  SumFunctionOnSet(f, {}) = 0
<1>1. PICK g : Sums(f, {}, g)
  BY SumsExist, FS_EmptySet
<1>2. Sums(f, {}, CHOOSE h : Sums(f, {}, h))
  BY <1>1
<1>3. QED
  BY <1>2, SumIsFold DEF Sums

LEMMA SumPicked ==
  ASSUME NEW f, NEW S, IsFiniteSet(S), S # {}
  PROVE  SumFunctionOnSet(f, S) = f[Pick(S)] + SumFunctionOnSet(f, S \ {Pick(S)})
<1>. DEFINE T == S \ {Pick(S)}
            g == CHOOSE it : Sums(f, S, it)
            h == CHOOSE it : Sums(f, T, it)
<1>1. T \in SUBSET S /\ IsFiniteSet(T)
  BY FS_Subset
<1>2. Sums(f, S, g) /\ Sums(f, T, h)
  BY <1>1, SumsExist
<1>3. g[T] = h[T]
  <2>. HIDE DEF T, g, h
  <2>. QED
    BY <1>1, <1>2, SumsAgree
<1>4. g[S] = f[Pick(S)] + g[T]
  <2>. HIDE DEF g, h
  <2>. QED
    BY <1>2 DEF Sums
<1>5. QED
  BY <1>3, <1>4, SumIsFold

\* The sum is a number.
LEMMA SumType ==
  ASSUME NEW f, NEW S, IsFiniteSet(S), \A x \in S : f[x] \in Int
  PROVE  SumFunctionOnSet(f, S) \in Int
<1>. DEFINE bad == {s \in SUBSET S : SumFunctionOnSet(f, s) \notin Int}
<1>1. bad = {}
  <2>. SUFFICES ASSUME bad # {} PROVE FALSE
    OBVIOUS
  <2>1. PICK s \in bad : \A t \in bad : ~(Cardinality(t) < Cardinality(s))
    BY LeastSet
  <2>2. s # {}
    BY SumEmpty
  <2>3. /\ s \ {Pick(s)} \in SUBSET S /\ IsFiniteSet(s)
        /\ Cardinality(s \ {Pick(s)}) < Cardinality(s)
    BY <2>2, Picked, SmallerWithout
  <2>4. SumFunctionOnSet(f, s \ {Pick(s)}) \in Int
    BY <2>1, <2>3
  <2>5. f[Pick(s)] \in Int
    BY <2>2, Picked
  <2>6. QED
    BY <2>2, <2>3, <2>4, <2>5, SumPicked
<1>2. QED
  BY <1>1

\* Which element is taken out first does not matter.
LEMMA SumWithout ==
  ASSUME NEW f, NEW S, IsFiniteSet(S), \A x \in S : f[x] \in Int, NEW e \in S
  PROVE  SumFunctionOnSet(f, S) = f[e] + SumFunctionOnSet(f, S \ {e})
<1>. DEFINE total(s) == SumFunctionOnSet(f, s)
            bad == {s \in SUBSET S : \E x \in s : total(s) # f[x] + total(s \ {x})}
<1>1. bad = {}
  <2>. SUFFICES ASSUME bad # {} PROVE FALSE
    OBVIOUS
  <2>1. PICK s \in bad : \A t \in bad : ~(Cardinality(t) < Cardinality(s))
    BY LeastSet
  <2>2. PICK x \in s : total(s) # f[x] + total(s \ {x})
    OBVIOUS
  <2>. DEFINE p == Pick(s)
  <2>3. s \in SUBSET S /\ IsFiniteSet(s) /\ p \in s
    BY FS_Subset, Picked
  <2>4. total(s) = f[p] + total(s \ {p})
    BY <2>2, <2>3, SumPicked
  <2>5. p # x
    BY <2>2, <2>4
  <2>6. /\ s \ {p} \in SUBSET S /\ Cardinality(s \ {p}) < Cardinality(s) /\ x \in s \ {p}
        /\ s \ {x} \in SUBSET S /\ Cardinality(s \ {x}) < Cardinality(s) /\ p \in s \ {x}
    BY <2>3, <2>5, SmallerWithout
  <2>7. s \ {p} \notin bad /\ s \ {x} \notin bad
    BY <2>1, <2>6
  <2>8. /\ total(s \ {p}) = f[x] + total((s \ {p}) \ {x})
        /\ total(s \ {x}) = f[p] + total((s \ {x}) \ {p})
    BY <2>6, <2>7
  <2>9. (s \ {p}) \ {x} = (s \ {x}) \ {p}
    OBVIOUS
  <2>10. f[x] \in Int /\ f[p] \in Int /\ total((s \ {x}) \ {p}) \in Int
    <3>1. (s \ {x}) \ {p} \in SUBSET S /\ IsFiniteSet((s \ {x}) \ {p})
      BY <2>3, FS_Subset
    <3>2. QED
      BY <3>1, <2>3, SumType
  <2>11. total((s \ {p}) \ {x}) = total((s \ {x}) \ {p})
    BY <2>9
  <2>12. QED
    <3>. HIDE DEF bad, p
    <3>. QED
      BY <2>2, <2>4, <2>8, <2>10, <2>11
<1>2. QED
  BY <1>1

LEMMA SumWith ==
  ASSUME NEW f, NEW S, IsFiniteSet(S), \A x \in S : f[x] \in Int, NEW e, e \notin S, f[e] \in Int
  PROVE  SumFunctionOnSet(f, S \cup {e}) = f[e] + SumFunctionOnSet(f, S)
<1>1. IsFiniteSet(S \cup {e}) /\ (S \cup {e}) \ {e} = S
  BY FS_AddElement
<1>2. QED
  BY <1>1, SumWithout

\* Only the summands matter.
LEMMA SumSame ==
  ASSUME NEW f, NEW g, NEW S, IsFiniteSet(S), \A x \in S : f[x] = g[x]
  PROVE  SumFunctionOnSet(f, S) = SumFunctionOnSet(g, S)
<1>. DEFINE bad == {s \in SUBSET S : SumFunctionOnSet(f, s) # SumFunctionOnSet(g, s)}
<1>1. bad = {}
  <2>. SUFFICES ASSUME bad # {} PROVE FALSE
    OBVIOUS
  <2>1. PICK s \in bad : \A t \in bad : ~(Cardinality(t) < Cardinality(s))
    BY LeastSet
  <2>2. s # {}
    BY SumEmpty
  <2>3. /\ s \ {Pick(s)} \in SUBSET S /\ IsFiniteSet(s)
        /\ Cardinality(s \ {Pick(s)}) < Cardinality(s)
    BY <2>2, Picked, SmallerWithout
  <2>4. SumFunctionOnSet(f, s \ {Pick(s)}) = SumFunctionOnSet(g, s \ {Pick(s)})
    BY <2>1, <2>3
  <2>5. f[Pick(s)] = g[Pick(s)]
    BY <2>2, Picked
  <2>6. QED
    BY <2>2, <2>3, <2>4, <2>5, SumPicked
<1>2. QED
  BY <1>1

\* A sum changes by what one summand changes.
LEMMA SumChanged ==
  ASSUME NEW f, NEW g, NEW S, IsFiniteSet(S), NEW e \in S,
         \A x \in S : f[x] \in Int /\ g[x] \in Int,
         \A x \in S \ {e} : g[x] = f[x]
  PROVE  SumFunctionOnSet(g, S) = SumFunctionOnSet(f, S) + g[e] - f[e]
<1>1. IsFiniteSet(S \ {e})
  BY FS_Subset
<1>2. SumFunctionOnSet(g, S \ {e}) = SumFunctionOnSet(f, S \ {e})
  BY <1>1, SumSame
<1>3. /\ SumFunctionOnSet(f, S) = f[e] + SumFunctionOnSet(f, S \ {e})
      /\ SumFunctionOnSet(g, S) = g[e] + SumFunctionOnSet(g, S \ {e})
  BY SumWithout
<1>4. SumFunctionOnSet(f, S \ {e}) \in Int
  BY <1>1, SumType
<1>5. QED
  BY <1>2, <1>3, <1>4

\* More rows, no smaller a sum.
LEMMA SumGrows ==
  ASSUME NEW f, NEW S, IsFiniteSet(S), \A x \in S : f[x] \in Nat, NEW T \in SUBSET S
  PROVE  /\ SumFunctionOnSet(f, T) \in Nat
         /\ SumFunctionOnSet(f, T) <= SumFunctionOnSet(f, S)
<1>. DEFINE total(s) == SumFunctionOnSet(f, s)
            bad == {s \in SUBSET S : \E t \in SUBSET s : ~(total(t) \in Nat /\ total(t) <= total(s))}
<1>1. bad = {}
  <2>. SUFFICES ASSUME bad # {} PROVE FALSE
    OBVIOUS
  <2>1. PICK s \in bad : \A t \in bad : ~(Cardinality(t) < Cardinality(s))
    <3>1. bad \subseteq SUBSET S
      OBVIOUS
    <3>. HIDE DEF bad
    <3>2. QED
      BY <3>1, LeastSet
  <2>2. PICK t \in SUBSET s : ~(total(t) \in Nat /\ total(t) <= total(s))
    OBVIOUS
  <2>3. IsFiniteSet(s) /\ s \in SUBSET S
    BY FS_Subset
  <2>4. total(s) \in Int
    BY <2>3, SumType
  <2>5. s # {}
    BY <2>2, SumEmpty
  <2>6. ASSUME NEW x \in s
        PROVE  /\ s \ {x} \in SUBSET S /\ s \ {x} \notin bad
               /\ total(s) = f[x] + total(s \ {x}) /\ f[x] \in Nat
               /\ total(s \ {x}) \in Nat
    <3>1. s \ {x} \in SUBSET S /\ Cardinality(s \ {x}) < Cardinality(s)
      BY <2>3, SmallerWithout
    <3>2. s \ {x} \notin bad
      BY <2>1, <3>1
    <3>3. total(s) = f[x] + total(s \ {x})
      BY <2>3, SumWithout
    <3>4. total(s \ {x}) \in Nat
      BY <3>1, <3>2
    <3>5. QED
      BY <3>1, <3>2, <3>3, <3>4, <2>3
  <2>7. total(s) \in Nat
    <3>1. PICK x : x \in s
      BY <2>5
    <3>2. total(s) = f[x] + total(s \ {x}) /\ f[x] \in Nat /\ total(s \ {x}) \in Nat
      BY <3>1, <2>6
    <3>. HIDE DEF bad
    <3>3. QED
      BY <3>2
  <2>8. t # s
    BY <2>2, <2>7, <2>4
  <2>9. PICK x \in s : x \notin t
    BY <2>8
  <2>10. t \in SUBSET (s \ {x})
    BY <2>9
  <2>11. total(t) \in Nat /\ total(t) <= total(s \ {x})
    BY <2>6, <2>10
  <2>12. total(s) = f[x] + total(s \ {x}) /\ f[x] \in Nat /\ total(s \ {x}) \in Nat
    BY <2>6
  <2>13. QED
    <3>. HIDE DEF bad
    <3>. QED
      BY <2>2, <2>11, <2>12
<1>2. QED
  BY <1>1

\* A sum of nothings.
LEMMA SumZero ==
  ASSUME NEW f, NEW S, IsFiniteSet(S), \A x \in S : f[x] = 0
  PROVE  SumFunctionOnSet(f, S) = 0
<1>. DEFINE bad == {s \in SUBSET S : SumFunctionOnSet(f, s) # 0}
<1>1. bad = {}
  <2>. SUFFICES ASSUME bad # {} PROVE FALSE
    OBVIOUS
  <2>1. PICK s \in bad : \A t \in bad : ~(Cardinality(t) < Cardinality(s))
    BY LeastSet
  <2>2. s # {}
    BY SumEmpty
  <2>3. /\ s \ {Pick(s)} \in SUBSET S /\ IsFiniteSet(s)
        /\ Cardinality(s \ {Pick(s)}) < Cardinality(s)
    BY <2>2, Picked, SmallerWithout
  <2>4. SumFunctionOnSet(f, s \ {Pick(s)}) = 0
    BY <2>1, <2>3
  <2>5. f[Pick(s)] = 0
    BY <2>2, Picked
  <2>6. QED
    BY <2>2, <2>3, <2>4, <2>5, SumPicked
<1>2. QED
  BY <1>1
=============================================================================
