---------------------------- MODULE MarketProofs ----------------------------
(***************************************************************************)
(* Theorems about the atomic market, for any accounts, players, keys,      *)
(* quantities, prices and supply: tokens are conserved, and the history    *)
(* explains every balance and every holding.  Both are sums, so the module *)
(* begins with what sums over finite sets are.  Induction goes by the      *)
(* smallest counterexample, which the well-foundedness of finite subsets   *)
(* provides.                                                               *)
(***************************************************************************)
EXTENDS Market, TLAPS, FiniteSetTheorems, WellFoundedInduction

-----------------------------------------------------------------------------
(* Sums over finite sets *)

\* Every family of subsets of a finite set has a smallest member.
LEMMA SmallestSubset ==
    ASSUME NEW S, IsFiniteSet(S), NEW F \in SUBSET (SUBSET S), F # {}
    PROVE  \E T \in F : \A U \in F : U \subseteq T => U = T
<1>1. F \subseteq FiniteSubsetsOf(S)
    BY FS_FiniteSubsetsOfFinite
<1>2. IsWellFoundedOn(StrictSubsetOrdering(S), FiniteSubsetsOf(S))
    BY FS_StrictSubsetOrderingWellFounded
<1>3. \E T \in F : \A U \in F : ~ (<<U, T>> \in StrictSubsetOrdering(S))
    BY <1>1, <1>2, WFMin
<1> QED
    BY <1>3 DEF StrictSubsetOrdering

\* The element a sum starts with.
Pick(s) == CHOOSE x \in s : TRUE

\* g holds the sum of f over each subset of S.
Sums(f, S, g) ==
    g = [s \in SUBSET S |-> IF s = {} THEN 0 ELSE f[Pick(s)] + g[s \ {Pick(s)}]]

SumsOver(f, S) == CHOOSE g : Sums(f, S, g)

LEMMA SumIsSums ==
    ASSUME NEW f, NEW S
    PROVE  SumFunctionOnSet(f, S) = SumsOver(f, S)[S]
BY DEF SumFunctionOnSet, FoldFunctionOnSet, MapThenFoldSet, SumsOver, Sums, Pick

LEMMA PickType ==
    ASSUME NEW s, s # {}
    PROVE  Pick(s) \in s /\ s \ {Pick(s)} \subseteq s /\ s \ {Pick(s)} # s
BY DEF Pick

LEMMA SumsUnique ==
    ASSUME NEW f, NEW S, IsFiniteSet(S), NEW g, NEW h, Sums(f, S, g), Sums(f, S, h)
    PROVE  g = h
<1> DEFINE F == {s \in SUBSET S : g[s] # h[s]}
<1>1. ASSUME F # {} PROVE FALSE
    <2>1. PICK s \in F : \A u \in F : u \subseteq s => u = s
        <3>1. F \in SUBSET (SUBSET S)
            OBVIOUS
        <3> HIDE DEF F
        <3> QED
            BY <1>1, <3>1, SmallestSubset
    <2>2. s # {}
        BY <2>1 DEF Sums
    <2>3. s \ {Pick(s)} \in (SUBSET S) \ F
        BY <2>1, <2>2, PickType
    <2> QED
        BY <2>1, <2>2, <2>3 DEF Sums
<1> QED
    BY <1>1 DEF Sums

LEMMA SumsRestrict ==
    ASSUME NEW f, NEW S, NEW T \in SUBSET S, NEW g, Sums(f, S, g),
           NEW h, h = [s \in SUBSET T |-> g[s]]
    PROVE  Sums(f, T, h)
<1>1. ASSUME NEW s \in SUBSET T
      PROVE  h[s] = IF s = {} THEN 0 ELSE f[Pick(s)] + h[s \ {Pick(s)}]
    BY DEF Sums
<1> QED
    BY <1>1 DEF Sums

LEMMA SumsStep ==
    ASSUME NEW f, NEW S, IsFiniteSet(S), \E g : Sums(f, S, g), S # {}
    PROVE  SumsOver(f, S)[S] = f[Pick(S)] + SumsOver(f, S \ {Pick(S)})[S \ {Pick(S)}]
<1> DEFINE g == SumsOver(f, S)
           T == S \ {Pick(S)}
           h == [s \in SUBSET T |-> g[s]]
<1>1. Sums(f, S, g)
    BY DEF SumsOver
<1>2. T \in SUBSET S /\ IsFiniteSet(T)
    BY FS_Subset
<1>3. Sums(f, T, h)
    <2>1. h = [s \in SUBSET T |-> g[s]]
        OBVIOUS
    <2> HIDE DEF g, T, h
    <2> QED
        BY <1>1, <1>2, <2>1, SumsRestrict
<1>4. Sums(f, T, SumsOver(f, T))
    BY <1>3 DEF SumsOver
<1>5. SumsOver(f, T) = h
    BY <1>2, <1>3, <1>4, SumsUnique
<1>6. g[S] = f[Pick(S)] + g[T]
    BY <1>1 DEF Sums
<1> QED
    BY <1>5, <1>6

LEMMA SumsExist ==
    ASSUME NEW f, NEW S, IsFiniteSet(S)
    PROVE  \E g : Sums(f, S, g)
<1> DEFINE F == {T \in SUBSET S : ~ \E g : Sums(f, T, g)}
<1>1. ASSUME F # {} PROVE FALSE
    <2>1. PICK T \in F : \A u \in F : u \subseteq T => u = T
        <3>1. F \in SUBSET (SUBSET S)
            OBVIOUS
        <3> HIDE DEF F
        <3> QED
            BY <1>1, <3>1, SmallestSubset
    <2> DEFINE V(s) == SumsOver(f, s)[s]
               g == [s \in SUBSET T |-> IF s = {} THEN 0 ELSE f[Pick(s)] + V(s \ {Pick(s)})]
    <2>2. ASSUME NEW u \in SUBSET T, u # T
          PROVE  g[u] = V(u)
        <3>1. IsFiniteSet(u) /\ \E h : Sums(f, u, h)
            BY <2>1, <2>2, FS_Subset
        <3>2. CASE u = {}
            <4>1. Sums(f, u, SumsOver(f, u))
                BY <3>1 DEF SumsOver
            <4> QED
                BY <3>2, <4>1 DEF Sums
        <3>3. CASE u # {}
            BY <3>1, <3>3, SumsStep
        <3> QED
            BY <3>2, <3>3
    <2>3. ASSUME NEW s \in SUBSET T, s # {}
          PROVE  g[s] = f[Pick(s)] + g[s \ {Pick(s)}]
        <3>1. s \ {Pick(s)} \in SUBSET T /\ s \ {Pick(s)} # T
            BY <2>3, PickType
        <3> QED
            BY <2>2, <2>3, <3>1
    <2>4. Sums(f, T, g)
        BY <2>3 DEF Sums
    <2> QED
        BY <2>1, <2>4
<1> QED
    BY <1>1

\* A sum is the element it starts with plus the sum over the others.
LEMMA SumRecursion ==
    ASSUME NEW f, NEW S, IsFiniteSet(S)
    PROVE  SumFunctionOnSet(f, S) =
             IF S = {} THEN 0 ELSE f[Pick(S)] + SumFunctionOnSet(f, S \ {Pick(S)})
<1>1. \E g : Sums(f, S, g)
    BY SumsExist
<1>2. CASE S = {}
    <2>1. Sums(f, S, SumsOver(f, S))
        BY <1>1 DEF SumsOver
    <2> QED
        BY <1>2, <2>1, SumIsSums DEF Sums
<1>3. CASE S # {}
    BY <1>1, <1>3, SumsStep, SumIsSums
<1> QED
    BY <1>2, <1>3

LEMMA SumType ==
    ASSUME NEW f, NEW S, IsFiniteSet(S), \A x \in S : f[x] \in Int
    PROVE  SumFunctionOnSet(f, S) \in Int
<1> DEFINE F == {T \in SUBSET S : SumFunctionOnSet(f, T) \notin Int}
<1>1. ASSUME F # {} PROVE FALSE
    <2>1. PICK T \in F : \A u \in F : u \subseteq T => u = T
        <3>1. F \in SUBSET (SUBSET S)
            OBVIOUS
        <3> HIDE DEF F
        <3> QED
            BY <1>1, <3>1, SmallestSubset
    <2>2. IsFiniteSet(T)
        BY <2>1, FS_Subset
    <2>3. T # {}
        <3>1. SumFunctionOnSet(f, T) # 0
            BY <2>1
        <3> QED
            BY <2>2, <3>1, SumRecursion
    <2>4. Pick(T) \in S /\ T \ {Pick(T)} \in (SUBSET S) \ F
        BY <2>1, <2>3, PickType
    <2> QED
        BY <2>1, <2>2, <2>3, <2>4, SumRecursion
<1> QED
    BY <1>1

\* Any element may be taken out of a sum.
LEMMA SumWithout ==
    ASSUME NEW f, NEW S, IsFiniteSet(S), \A x \in S : f[x] \in Int
    PROVE  \A x \in S : SumFunctionOnSet(f, S) = f[x] + SumFunctionOnSet(f, S \ {x})
<1> DEFINE Splits(T) ==
               \A x \in T : SumFunctionOnSet(f, T) = f[x] + SumFunctionOnSet(f, T \ {x})
           F == {T \in SUBSET S : ~Splits(T)}
<1>1. ASSUME F # {} PROVE FALSE
    <2>1. PICK T \in F : \A u \in F : u \subseteq T => u = T
        <3>1. F \in SUBSET (SUBSET S)
            OBVIOUS
        <3> HIDE DEF F
        <3> QED
            BY <1>1, <3>1, SmallestSubset
    <2>2. PICK x \in T : SumFunctionOnSet(f, T) # f[x] + SumFunctionOnSet(f, T \ {x})
        BY <2>1
    <2> DEFINE y == Pick(T)
    <2>3. y \in T
        BY <2>2, PickType
    <2>4. SumFunctionOnSet(f, T) = f[y] + SumFunctionOnSet(f, T \ {y})
        BY <2>1, <2>2, FS_Subset, SumRecursion
    <2>5. x # y
        BY <2>2, <2>4
    <2>6. SumFunctionOnSet(f, T \ {y}) = f[x] + SumFunctionOnSet(f, (T \ {y}) \ {x})
        <3>1. T \ {y} \in (SUBSET S) \ F /\ x \in T \ {y}
            BY <2>1, <2>3, <2>5
        <3> QED
            BY <3>1
    <2>7. SumFunctionOnSet(f, T \ {x}) = f[y] + SumFunctionOnSet(f, (T \ {x}) \ {y})
        <3>1. T \ {x} \in (SUBSET S) \ F /\ y \in T \ {x}
            BY <2>1, <2>2, <2>3, <2>5
        <3> QED
            BY <3>1
    <2>8. (T \ {y}) \ {x} = (T \ {x}) \ {y}
        OBVIOUS
    <2>9. SumFunctionOnSet(f, (T \ {x}) \ {y}) \in Int /\ f[x] \in Int /\ f[y] \in Int
        <3>1. (T \ {x}) \ {y} \in SUBSET S /\ x \in S /\ y \in S
            BY <2>1, <2>2, <2>3
        <3>2. IsFiniteSet((T \ {x}) \ {y})
            BY <3>1, FS_Subset
        <3> QED
            BY <3>1, <3>2, SumType
    <2> DEFINE rest == SumFunctionOnSet(f, (T \ {x}) \ {y})
    <2>10. /\ SumFunctionOnSet(f, T) = f[y] + (f[x] + rest)
           /\ f[x] + SumFunctionOnSet(f, T \ {x}) = f[x] + (f[y] + rest)
        BY <2>4, <2>6, <2>7, <2>8
    <2>11. \A a, b, c \in Int : a + (b + c) = b + (a + c)
        OBVIOUS
    <2> QED
        BY <2>2, <2>9, <2>10, <2>11
<1> QED
    BY <1>1

\* A sum is of what the function has on the set.
LEMMA SumCongruence ==
    ASSUME NEW f, NEW g, NEW S, IsFiniteSet(S), \A x \in S : f[x] = g[x]
    PROVE  SumFunctionOnSet(f, S) = SumFunctionOnSet(g, S)
<1> DEFINE F == {T \in SUBSET S : SumFunctionOnSet(f, T) # SumFunctionOnSet(g, T)}
<1>1. ASSUME F # {} PROVE FALSE
    <2>1. PICK T \in F : \A u \in F : u \subseteq T => u = T
        <3>1. F \in SUBSET (SUBSET S)
            OBVIOUS
        <3> HIDE DEF F
        <3> QED
            BY <1>1, <3>1, SmallestSubset
    <2>2. IsFiniteSet(T)
        BY <2>1, FS_Subset
    <2>3. T # {}
        BY <2>1, <2>2, SumRecursion
    <2>4. Pick(T) \in S /\ T \ {Pick(T)} \in (SUBSET S) \ F
        BY <2>1, <2>3, PickType
    <2> QED
        BY <2>1, <2>2, <2>3, <2>4, SumRecursion
<1> QED
    BY <1>1

LEMMA SumZero ==
    ASSUME NEW f, NEW S, IsFiniteSet(S), \A x \in S : f[x] = 0
    PROVE  SumFunctionOnSet(f, S) = 0
<1> DEFINE F == {T \in SUBSET S : SumFunctionOnSet(f, T) # 0}
<1>1. ASSUME F # {} PROVE FALSE
    <2>1. PICK T \in F : \A u \in F : u \subseteq T => u = T
        <3>1. F \in SUBSET (SUBSET S)
            OBVIOUS
        <3> HIDE DEF F
        <3> QED
            BY <1>1, <3>1, SmallestSubset
    <2>2. IsFiniteSet(T)
        BY <2>1, FS_Subset
    <2>3. T # {}
        BY <2>1, <2>2, SumRecursion
    <2>4. Pick(T) \in S /\ T \ {Pick(T)} \in (SUBSET S) \ F
        BY <2>1, <2>3, PickType
    <2> QED
        BY <2>1, <2>2, <2>3, <2>4, SumRecursion
<1> QED
    BY <1>1

\* What changes at one index changes the sum.
LEMMA SumChange ==
    ASSUME NEW S, IsFiniteSet(S), NEW x \in S,
           NEW f \in [S -> Int], NEW g \in [S -> Int],
           \A y \in S \ {x} : f[y] = g[y]
    PROVE  SumFunctionOnSet(g, S) = SumFunctionOnSet(f, S) + (g[x] - f[x])
<1> DEFINE R == S \ {x}
<1>1. IsFiniteSet(R)
    BY FS_Subset
<1>2. SumFunctionOnSet(f, R) = SumFunctionOnSet(g, R) /\ SumFunctionOnSet(f, R) \in Int
    BY <1>1, SumCongruence, SumType
<1>3. /\ SumFunctionOnSet(f, S) = f[x] + SumFunctionOnSet(f, R)
      /\ SumFunctionOnSet(g, S) = g[x] + SumFunctionOnSet(g, R)
    BY SumWithout
<1> HIDE DEF R
<1> QED
    BY <1>2, <1>3

\* A function on one more index has that much more of a sum.
LEMMA SumExtend ==
    ASSUME NEW n \in Nat, NEW f \in [1 .. n -> Int], NEW g \in [1 .. n + 1 -> Int],
           \A k \in 1 .. n : f[k] = g[k]
    PROVE  SumFunction(g) = SumFunction(f) + g[n + 1]
<1>1. /\ IsFiniteSet(1 .. n) /\ IsFiniteSet(1 .. n + 1)
      /\ (1 .. n + 1) \ {n + 1} = 1 .. n /\ n + 1 \in 1 .. n + 1
    <2>1. IsFiniteSet(1 .. n) /\ IsFiniteSet(1 .. n + 1)
        BY FS_Interval
    <2> QED
        BY <2>1
<1>2. SumFunctionOnSet(g, 1 .. n + 1) = g[n + 1] + SumFunctionOnSet(g, (1 .. n + 1) \ {n + 1})
    BY <1>1, SumWithout
<1>3. SumFunctionOnSet(g, 1 .. n) = SumFunctionOnSet(f, 1 .. n)
    BY <1>1, SumCongruence
<1>4. SumFunctionOnSet(f, 1 .. n) \in Int
    BY <1>1, SumType
<1>5. SumFunction(f) = SumFunctionOnSet(f, 1 .. n) /\ SumFunction(g) = SumFunctionOnSet(g, 1 .. n + 1)
    <2>1. DOMAIN f = 1 .. n /\ DOMAIN g = 1 .. n + 1
        OBVIOUS
    <2> QED
        BY <2>1 DEF SumFunction
<1>6. g[n + 1] \in Int
    BY <1>1
<1>7. SumFunctionOnSet(g, 1 .. n + 1) = g[n + 1] + SumFunctionOnSet(f, 1 .. n)
    BY <1>1, <1>2, <1>3
<1> QED
    BY <1>4, <1>5, <1>6, <1>7

-----------------------------------------------------------------------------
(* The rules of one trade *)

\* An amount is a natural number.
LEMMA TotalType ==
    ASSUME NEW t \in Terms, NEW q \in Quote
    PROVE  Total(t, q) \in Nat
<1>1. t.quantity \in Nat
    BY MarketAssumption DEF Terms
<1>2. q.price \in Nat
    BY DEF Quote
<1> QED
    BY <1>1, <1>2 DEF Total

\* Both parties of a trade are accounts, and they differ.
LEMMA PartiesType ==
    ASSUME NEW t \in Terms, NEW r \in Users, t.user # r
    PROVE  /\ Payer(t, r) \in Users
           /\ Payee(t, r) \in Users
           /\ Payer(t, r) # Payee(t, r)
BY DEF Terms, Payer, Payee

\* Moving an amount that the payer has keeps every balance a natural number.
LEMMA PaidType ==
    ASSUME NEW b \in [Users -> Nat], NEW from \in Users, NEW to \in Users, from # to,
           NEW amount \in Nat, b[from] >= amount
    PROVE  Paid(b, from, to, amount) \in [Users -> Nat]
BY DEF Paid

\* An accepted verdict means the payer has the credits and the payee the tokens.
LEMMA VerdictOk ==
    ASSUME NEW t \in Terms, NEW r \in Users, t.user # r,
           NEW b \in [Users -> Nat], NEW h \in [Users -> Nat], NEW q \in Quote,
           Verdict(t, r, b, h, q) = "ok"
    PROVE  b[Payer(t, r)] >= Total(t, q) /\ h[Payee(t, r)] >= t.quantity
<1>1. t.quantity \in Nat /\ Total(t, q) \in Nat
    BY MarketAssumption, TotalType DEF Terms
<1>2. Payer(t, r) \in Users /\ Payee(t, r) \in Users
    BY PartiesType
<1>3. ~(b[Payer(t, r)] < Total(t, q)) /\ ~(h[Payee(t, r)] < t.quantity)
    BY DEF Verdict
<1> QED
    BY <1>1, <1>2, <1>3

\* Tokens that move from one account to another stay in the market.
LEMMA PaidConserves ==
    ASSUME NEW h \in [Users -> Nat], NEW from \in Users, NEW to \in Users, from # to,
           NEW amount \in Nat
    PROVE  TotalHeld(Paid(h, from, to, amount)) = TotalHeld(h)
<1> DEFINE less == [h EXCEPT ![from] = @ - amount]
           moved == [less EXCEPT ![to] = @ + amount]
<1>1. /\ h \in [Users -> Int] /\ less \in [Users -> Int] /\ moved \in [Users -> Int]
      /\ less[from] = h[from] - amount /\ moved[to] = less[to] + amount
      /\ \A u \in Users \ {from} : h[u] = less[u]
      /\ \A u \in Users \ {to} : less[u] = moved[u]
    OBVIOUS
<1>2. IsFiniteSet(Users)
    BY MarketAssumption
<1>3. Paid(h, from, to, amount) = moved
    BY DEF Paid
<1> HIDE DEF less, moved
<1>4. SumFunctionOnSet(less, Users) = SumFunctionOnSet(h, Users) + (less[from] - h[from])
    BY <1>1, <1>2, SumChange
<1>5. SumFunctionOnSet(moved, Users) = SumFunctionOnSet(less, Users) + (moved[to] - less[to])
    BY <1>1, <1>2, SumChange
<1>6. SumFunctionOnSet(h, Users) \in Int /\ h[from] \in Int /\ less[to] \in Int
    BY <1>1, <1>2, SumType
<1> QED
    BY <1>1, <1>3, <1>4, <1>5, <1>6 DEF TotalHeld

\* What is issued to one account is the supply.
LEMMA IssuedConserves ==
    ASSUME NEW u \in Users
    PROVE  TotalHeld([v \in Users |-> IF v = u THEN Supply ELSE 0]) = Supply
<1> DEFINE nothing == [v \in Users |-> 0]
           all == [v \in Users |-> IF v = u THEN Supply ELSE 0]
<1>1. /\ nothing \in [Users -> Int] /\ all \in [Users -> Int] /\ IsFiniteSet(Users)
      /\ nothing[u] = 0 /\ all[u] = Supply /\ Supply \in Int
      /\ \A v \in Users : nothing[v] = 0
      /\ \A v \in Users \ {u} : nothing[v] = all[v]
    BY MarketAssumption
<1> HIDE DEF nothing, all
<1>2. SumFunctionOnSet(all, Users) = SumFunctionOnSet(nothing, Users) + (all[u] - nothing[u])
    BY <1>1, SumChange
<1>3. SumFunctionOnSet(nothing, Users) = 0
    BY <1>1, SumZero
<1> QED
    BY <1>1, <1>2, <1>3 DEF TotalHeld, all

-----------------------------------------------------------------------------
(* The operations *)

\* What an exchange does to the types of the rows.
LEMMA ExchangeType ==
    ASSUME MarketTypeOK, NEW t \in Terms, recipient \in Users, Exchange(t)
    PROVE  MarketTypeOK'
<1> DEFINE p == t.player
           from == Payee(t, recipient)
           to == Payer(t, recipient)
<1> USE DEF MarketTypeOK, Exchange
<1>1. p \in Players /\ quote[p] \in Quote /\ holding[p] \in [Users -> Nat]
      /\ t.quantity \in Nat
    BY MarketAssumption DEF Terms
<1>2. from \in Users /\ to \in Users /\ from # to
    BY PartiesType
<1>3. balance[to] >= Total(t, quote[p]) /\ holding[p][from] >= t.quantity
    BY <1>1, VerdictOk
<1>4. Paid(balance, to, from, Total(t, quote[p])) \in [Users -> Nat]
    BY <1>1, <1>2, <1>3, PaidType, TotalType
<1>5. Paid(holding[p], from, to, t.quantity) \in [Users -> Nat]
    BY <1>1, <1>2, <1>3, PaidType
<1>6. balance' \in [Users -> Nat]
    BY <1>4
<1>7. holding' \in [Players -> [Users -> Nat]]
    BY <1>5
<1>8. [terms |-> t, quote |-> quote[p]] \in Trade
    BY <1>1 DEF Trade
<1>9. trades' \in Seq(Trade)
    BY <1>8
<1> QED
    BY <1>6, <1>7, <1>9

\* A completed trade spends its own request key and no other.
LEMMA ExchangePrevious ==
    ASSUME MarketTypeOK, NEW t \in Terms, Exchange(t), NEW u,
           Previous(u) = {}, ~SameRequest(t, u)
    PROVE  Previous(u)' = {}
<1>1. trades' = Append(trades, [terms |-> t, quote |-> quote[t.player]])
      /\ trades \in Seq(Trade)
    BY DEF Exchange, MarketTypeOK
<1>2. ASSUME NEW n \in DOMAIN trades' PROVE ~SameRequest(trades'[n].terms, u)
    <2>1. CASE n \in DOMAIN trades
        BY <1>1, <2>1 DEF Previous
    <2>2. CASE n = Len(trades) + 1
        BY <1>1, <2>2
    <2> QED
        BY <1>1, <2>1, <2>2
<1> QED
    BY <1>2 DEF Previous

\* What each trade moved for one account, and for one account and player.
CreditFlows(u) == [n \in DOMAIN trades |-> CreditFlow(trades[n], recipient, u)]
TokenFlows(p, u) == [n \in DOMAIN trades |-> TokenFlow(trades[n], recipient, p, u)]

LEMMA FlowType ==
    ASSUME NEW t \in Trade, NEW r, NEW p, NEW u
    PROVE  CreditFlow(t, r, u) \in Int /\ TokenFlow(t, r, p, u) \in Int
<1>1. t.terms \in Terms /\ t.quote \in Quote
    BY DEF Trade
<1>2. Total(t.terms, t.quote) \in Int /\ t.terms.quantity \in Int
    <2>1. Total(t.terms, t.quote) \in Nat
        BY <1>1, TotalType
    <2>2. t.terms.quantity \in Nat
        BY <1>1, MarketAssumption DEF Terms
    <2> QED
        BY <2>1, <2>2
<1> QED
    BY <1>2 DEF CreditFlow, TokenFlow

\* What the trades moved adds up to an integer.
LEMMA FlowSumsType ==
    ASSUME trades \in Seq(Trade), NEW p, NEW u
    PROVE  SumFunction(CreditFlows(u)) \in Int /\ SumFunction(TokenFlows(p, u)) \in Int
<1>1. IsFiniteSet(DOMAIN trades)
    BY FS_Interval
<1>2. \A n \in DOMAIN trades : /\ CreditFlow(trades[n], recipient, u) \in Int
                               /\ TokenFlow(trades[n], recipient, p, u) \in Int
    BY FlowType
<1>3. /\ DOMAIN CreditFlows(u) = DOMAIN trades
      /\ DOMAIN TokenFlows(p, u) = DOMAIN trades
      /\ \A n \in DOMAIN trades : CreditFlows(u)[n] \in Int /\ TokenFlows(p, u)[n] \in Int
    BY <1>2 DEF CreditFlows, TokenFlows
<1>4. /\ SumFunctionOnSet(CreditFlows(u), DOMAIN trades) \in Int
      /\ SumFunctionOnSet(TokenFlows(p, u), DOMAIN trades) \in Int
    BY <1>1, <1>3, SumType
<1> QED
    BY <1>3, <1>4 DEF SumFunction

\* One more trade moves that much more.
LEMMA FlowsAfterTrade ==
    ASSUME trades \in Seq(Trade), NEW trade \in Trade, trades' = Append(trades, trade),
           UNCHANGED recipient, NEW p, NEW u
    PROVE  /\ SumFunction(CreditFlows(u))'
                = SumFunction(CreditFlows(u)) + CreditFlow(trade, recipient, u)
           /\ SumFunction(TokenFlows(p, u))'
                = SumFunction(TokenFlows(p, u)) + TokenFlow(trade, recipient, p, u)
<1> DEFINE n == Len(trades)
<1>1. /\ n \in Nat /\ DOMAIN trades = 1 .. n /\ DOMAIN trades' = 1 .. n + 1
      /\ trades'[n + 1] = trade
      /\ \A k \in 1 .. n : trades'[k] = trades[k]
      /\ \A k \in 1 .. n : trades[k] \in Trade
      /\ \A k \in 1 .. n + 1 : trades'[k] \in Trade
    OBVIOUS
<1>2. /\ CreditFlows(u) \in [1 .. n -> Int] /\ CreditFlows(u)' \in [1 .. n + 1 -> Int]
      /\ \A k \in 1 .. n : CreditFlows(u)[k] = CreditFlows(u)'[k]
      /\ CreditFlows(u)'[n + 1] = CreditFlow(trade, recipient, u)
    <2>1. /\ CreditFlows(u) = [k \in 1 .. n |-> CreditFlow(trades[k], recipient, u)]
          /\ CreditFlows(u)' = [k \in 1 .. n + 1 |-> CreditFlow(trades'[k], recipient, u)]
        BY <1>1 DEF CreditFlows
    <2>2. /\ \A k \in 1 .. n : CreditFlow(trades[k], recipient, u) \in Int
          /\ \A k \in 1 .. n + 1 : CreditFlow(trades'[k], recipient, u) \in Int
        BY <1>1, FlowType
    <2> QED
        BY <1>1, <2>1, <2>2
<1>3. /\ TokenFlows(p, u) \in [1 .. n -> Int] /\ TokenFlows(p, u)' \in [1 .. n + 1 -> Int]
      /\ \A k \in 1 .. n : TokenFlows(p, u)[k] = TokenFlows(p, u)'[k]
      /\ TokenFlows(p, u)'[n + 1] = TokenFlow(trade, recipient, p, u)
    <2>1. /\ TokenFlows(p, u) = [k \in 1 .. n |-> TokenFlow(trades[k], recipient, p, u)]
          /\ TokenFlows(p, u)' = [k \in 1 .. n + 1 |-> TokenFlow(trades'[k], recipient, p, u)]
        BY <1>1 DEF TokenFlows
    <2>2. /\ \A k \in 1 .. n : TokenFlow(trades[k], recipient, p, u) \in Int
          /\ \A k \in 1 .. n + 1 : TokenFlow(trades'[k], recipient, p, u) \in Int
        BY <1>1, FlowType
    <2> QED
        BY <1>1, <2>1, <2>2
<1> HIDE DEF n
<1>4. SumFunction(CreditFlows(u)') = SumFunction(CreditFlows(u)) + CreditFlows(u)'[n + 1]
    BY <1>1, <1>2, SumExtend
<1>5. SumFunction(TokenFlows(p, u)') = SumFunction(TokenFlows(p, u)) + TokenFlows(p, u)'[n + 1]
    BY <1>1, <1>3, SumExtend
<1> QED
    BY <1>2, <1>3, <1>4, <1>5

-----------------------------------------------------------------------------
(* The inductive invariant *)

\* Nothing has been issued, and the opening credits are what everyone has.
LEMMA MarketInitInvariant ==
    ASSUME MarketInit
    PROVE  MarketInv
<1> USE DEF MarketInit
<1>1. MarketTypeOK
    BY MarketAssumption DEF MarketTypeOK, Quote, NoQuote
<1>2. IssuedToRecipient /\ TradedIssued /\ SupplyConserved /\ RequestCompletesOnce
    BY MarketAssumption
       DEF IssuedToRecipient, TradedIssued, SupplyConserved, RequestCompletesOnce
<1>3. ASSUME NEW u \in Users PROVE SumFunction(CreditFlows(u)) = 0
    <2>1. DOMAIN CreditFlows(u) = {}
        BY DEF CreditFlows
    <2>2. SumFunctionOnSet(CreditFlows(u), {}) = 0
        BY FS_EmptySet, SumZero
    <2> QED
        BY <2>1, <2>2 DEF SumFunction
<1>4. HistoryExplainsHoldings
    BY <1>3, MarketAssumption DEF HistoryExplainsHoldings, CreditFlows
<1> QED
    BY <1>1, <1>2, <1>4 DEF MarketInv

\* The two halves of HistoryExplainsHoldings, with their sums named.
LEMMA HistoryParts ==
    HistoryExplainsHoldings
      <=> /\ \A u \in Users :
               balance[u] = OpeningCredit[u] + SumFunction(CreditFlows(u))
          /\ \A p \in issued, u \in Users :
               holding[p][u] = (IF u = recipient THEN Supply ELSE 0)
                                 + SumFunction(TokenFlows(p, u))
BY DEF HistoryExplainsHoldings, CreditFlows, TokenFlows

LEMMA IssueInvariant ==
    ASSUME MarketInv, NEW p \in Players, NEW u \in Users, Issue(p, u)
    PROVE  MarketInv'
<1> DEFINE all == [v \in Users |-> IF v = u THEN Supply ELSE 0]
<1> USE DEF MarketInv, Issue
<1>1. MarketTypeOK'
    <2>1. all \in [Users -> Nat]
        BY MarketAssumption
    <2>2. InitialQuote \in Quote
        BY DEF InitialQuote, Quote
    <2> QED
        BY <2>1, <2>2 DEF MarketTypeOK
<1>2. IssuedToRecipient'
    BY DEF IssuedToRecipient
\* Tokens change hands only once somebody is the recipient.
<1>3. trades # <<>> => recipient = u
    <2>1. CASE trades # <<>>
        <3>1. 1 \in DOMAIN trades
            BY <2>1 DEF MarketTypeOK
        <3>2. issued # {}
            BY <3>1 DEF TradedIssued
        <3> QED
            BY <3>2, MarketAssumption DEF IssuedToRecipient
    <2> QED
        BY <2>1
<1>4. \A n \in DOMAIN trades : recipient = u /\ trades[n].terms.player # p
    BY <1>3 DEF TradedIssued, MarketTypeOK
<1>5. TradedIssued'
    BY <1>4 DEF TradedIssued
<1>6. SupplyConserved'
    <2>1. TotalHeld(all) = Supply
        BY IssuedConserves
    <2>2. holding'[p] = all /\ \A s \in issued : holding'[s] = holding[s]
        BY DEF MarketTypeOK
    <2> HIDE DEF all
    <2> QED
        BY <2>1, <2>2 DEF SupplyConserved
<1>7. RequestCompletesOnce'
    BY DEF RequestCompletesOnce
<1>8. ASSUME NEW v \in Users PROVE SumFunction(CreditFlows(v))' = SumFunction(CreditFlows(v))
    BY <1>4 DEF CreditFlows
<1>9. ASSUME NEW s \in issued, NEW v \in Users
      PROVE  SumFunction(TokenFlows(s, v))' = SumFunction(TokenFlows(s, v))
    BY <1>4 DEF TokenFlows
<1>10. ASSUME NEW v \in Users PROVE SumFunction(TokenFlows(p, v))' = 0
    <2>1. TokenFlows(p, v)' = [n \in DOMAIN trades |-> 0]
        BY <1>4 DEF TokenFlows, TokenFlow
    <2>2. IsFiniteSet(DOMAIN trades)
        BY FS_Interval DEF MarketTypeOK
    <2> DEFINE g == TokenFlows(p, v)'
    <2>3. DOMAIN g = DOMAIN trades /\ \A n \in DOMAIN trades : g[n] = 0
        BY <2>1
    <2> HIDE DEF g
    <2>4. SumFunctionOnSet(g, DOMAIN trades) = 0
        BY <2>2, <2>3, SumZero
    <2>5. SumFunction(g) = 0
        BY <2>3, <2>4 DEF SumFunction
    <2> QED
        BY <2>5 DEF g
<1>11. HistoryExplainsHoldings'
    <2>1. ASSUME NEW v \in Users
          PROVE  balance'[v] = OpeningCredit[v] + SumFunction(CreditFlows(v))'
        BY <1>8, HistoryParts
    <2>2. ASSUME NEW s \in issued', NEW v \in Users
          PROVE  holding'[s][v] = (IF v = recipient' THEN Supply ELSE 0)
                                    + SumFunction(TokenFlows(s, v))'
        <3>1. CASE s = p
            <4>1. holding'[s][v] = IF v = u THEN Supply ELSE 0
                BY <3>1 DEF MarketTypeOK
            <4> QED
                BY <1>10, <3>1, <4>1, MarketAssumption
        <3>2. CASE s # p
            <4>1. s \in issued /\ holding'[s] = holding[s]
                BY <3>2 DEF MarketTypeOK
            <4>2. recipient = u
                BY <4>1, MarketAssumption DEF IssuedToRecipient
            <4> QED
                BY <1>9, <4>1, <4>2, HistoryParts
        <3> QED
            BY <3>1, <3>2
    <2> QED
        BY <2>1, <2>2 DEF HistoryExplainsHoldings, CreditFlows, TokenFlows
<1> QED
    BY <1>1, <1>2, <1>5, <1>6, <1>7, <1>11

LEMMA ConfirmInvariant ==
    ASSUME MarketInv, NEW p \in Players, NEW price \in Prices, ConfirmQuote(p, price)
    PROVE  MarketInv'
<1> USE DEF MarketInv, ConfirmQuote
<1>1. MarketTypeOK'
    <2>1. price \in Nat /\ quote[p].sequence + 1 \in Nat
        BY MarketAssumption DEF MarketTypeOK, Quote
    <2>2. [sequence |-> quote[p].sequence + 1, price |-> price] \in Quote
        BY <2>1 DEF Quote
    <2> QED
        BY <2>2 DEF MarketTypeOK
<1>2. IssuedToRecipient' /\ TradedIssued' /\ SupplyConserved' /\ RequestCompletesOnce'
    BY DEF IssuedToRecipient, TradedIssued, SupplyConserved, RequestCompletesOnce
<1>3. HistoryExplainsHoldings'
    BY DEF HistoryExplainsHoldings
<1> QED
    BY <1>1, <1>2, <1>3

LEMMA ExchangeInvariant ==
    ASSUME MarketInv, NEW t \in Terms, ExchangeOnce(t)
    PROVE  MarketInv'
<1> DEFINE p == t.player
           q == quote[p]
           r == recipient
           payer == Payer(t, r)
           payee == Payee(t, r)
           trade == [terms |-> t, quote |-> q]
<1> USE DEF MarketInv, ExchangeOnce
<1>1. /\ p \in Players /\ t.user \in Users /\ p \in issued /\ t.user # r
      /\ r \in Users
    BY DEF Exchange, Terms, IssuedToRecipient
<1>2. MarketTypeOK'
    BY <1>1, ExchangeType
<1>3. /\ q \in Quote /\ trade \in Trade /\ holding[p] \in [Users -> Nat]
      /\ payer \in Users /\ payee \in Users /\ payer # payee
      /\ t.quantity \in Nat /\ Total(t, q) \in Nat
    <2>1. q \in Quote /\ holding[p] \in [Users -> Nat]
        BY <1>1 DEF MarketTypeOK
    <2>2. trade \in Trade
        BY <2>1 DEF Trade
    <2>3. payer \in Users /\ payee \in Users /\ payer # payee
        BY <1>1, PartiesType
    <2>4. t.quantity \in Nat
        BY MarketAssumption DEF Terms
    <2> QED
        BY <2>1, <2>2, <2>3, <2>4, TotalType
<1>4. /\ balance' = Paid(balance, payer, payee, Total(t, q))
      /\ holding' = [holding EXCEPT ![p] = Paid(@, payee, payer, t.quantity)]
      /\ trades' = Append(trades, trade)
      /\ recipient' = recipient /\ issued' = issued /\ quote' = quote
    BY DEF Exchange
<1>5. IssuedToRecipient'
    BY <1>4 DEF IssuedToRecipient
<1>6. TradedIssued'
    <2>1. ASSUME NEW n \in DOMAIN trades'
          PROVE  trades'[n].terms.player \in issued /\ trades'[n].terms.user # recipient
        <3>1. CASE n \in DOMAIN trades
            BY <1>4, <3>1 DEF TradedIssued, MarketTypeOK
        <3>2. CASE n = Len(trades) + 1
            BY <1>1, <1>4, <3>2 DEF MarketTypeOK
        <3> QED
            BY <1>4, <3>1, <3>2 DEF MarketTypeOK
    <2> QED
        BY <1>4, <2>1 DEF TradedIssued
<1>7. SupplyConserved'
    <2>1. TotalHeld(Paid(holding[p], payee, payer, t.quantity)) = TotalHeld(holding[p])
        BY <1>3, PaidConserves
    <2>2. \A s \in issued :
             holding'[s] = IF s = p THEN Paid(holding[p], payee, payer, t.quantity)
                                    ELSE holding[s]
        BY <1>4 DEF MarketTypeOK
    <2> QED
        BY <1>1, <1>4, <2>1, <2>2 DEF SupplyConserved
<1>8. RequestCompletesOnce'
    <2> SUFFICES ASSUME NEW m \in DOMAIN trades', NEW n \in DOMAIN trades',
                        SameRequest(trades'[m].terms, trades'[n].terms)
                 PROVE  m = n
        BY DEF RequestCompletesOnce, SameRequest
    <2>1. /\ \A k \in DOMAIN trades : trades'[k] = trades[k] /\ ~SameRequest(trades[k].terms, t)
          /\ trades'[Len(trades) + 1].terms = t
        BY <1>4 DEF MarketTypeOK, Previous
    <2>2. \A k \in DOMAIN trades' : k \in DOMAIN trades \/ k = Len(trades) + 1
        BY <1>4 DEF MarketTypeOK
    <2>3. CASE m \in DOMAIN trades /\ n \in DOMAIN trades
        BY <2>1, <2>3 DEF RequestCompletesOnce, SameRequest
    <2>4. CASE m = Len(trades) + 1 /\ n \in DOMAIN trades
        BY <2>1, <2>4 DEF SameRequest
    <2>5. CASE m \in DOMAIN trades /\ n = Len(trades) + 1
        BY <2>1, <2>5
    <2> QED
        BY <2>2, <2>3, <2>4, <2>5
<1>9. ASSUME NEW u \in Users
      PROVE  balance'[u] = OpeningCredit[u] + SumFunction(CreditFlows(u))'
    <2>1. SumFunction(CreditFlows(u))' = SumFunction(CreditFlows(u)) + CreditFlow(trade, r, u)
        BY <1>3, <1>4, FlowsAfterTrade DEF MarketTypeOK
    <2>2. CreditFlow(trade, r, u) = (IF payee = u THEN Total(t, q) ELSE 0)
                                      - (IF payer = u THEN Total(t, q) ELSE 0)
        BY DEF CreditFlow
    <2>3. balance'[u] = balance[u] + CreditFlow(trade, r, u)
        BY <1>3, <1>4, <2>2 DEF Paid, MarketTypeOK
    <2>4. balance[u] = OpeningCredit[u] + SumFunction(CreditFlows(u))
        BY HistoryParts
    <2>5. OpeningCredit[u] \in Int /\ CreditFlow(trade, r, u) \in Int
          /\ SumFunction(CreditFlows(u)) \in Int
        <3>1. SumFunction(CreditFlows(u)) \in Int
            BY FlowSumsType DEF MarketTypeOK
        <3> QED
            BY <1>3, <3>1, FlowType, MarketAssumption
    <2> QED
        BY <2>1, <2>3, <2>4, <2>5
<1>10. ASSUME NEW s \in issued, NEW u \in Users
       PROVE  holding'[s][u] = (IF u = recipient THEN Supply ELSE 0)
                                 + SumFunction(TokenFlows(s, u))'
    <2>1. SumFunction(TokenFlows(s, u))'
             = SumFunction(TokenFlows(s, u)) + TokenFlow(trade, r, s, u)
        BY <1>3, <1>4, FlowsAfterTrade DEF MarketTypeOK
    <2>2. TokenFlow(trade, r, s, u)
             = IF p # s THEN 0 ELSE (IF payer = u THEN t.quantity ELSE 0)
                                      - (IF payee = u THEN t.quantity ELSE 0)
        BY DEF TokenFlow
    <2>3. holding'[s][u] = holding[s][u] + TokenFlow(trade, r, s, u)
        BY <1>3, <1>4, <2>2 DEF Paid, MarketTypeOK
    <2>4. holding[s][u] = (IF u = recipient THEN Supply ELSE 0) + SumFunction(TokenFlows(s, u))
        BY HistoryParts
    <2>5. TokenFlow(trade, r, s, u) \in Int /\ SumFunction(TokenFlows(s, u)) \in Int
          /\ Supply \in Int
        <3>1. SumFunction(TokenFlows(s, u)) \in Int
            BY FlowSumsType DEF MarketTypeOK
        <3> QED
            BY <1>3, <3>1, FlowType, MarketAssumption
    <2> QED
        BY <2>1, <2>3, <2>4, <2>5
<1>11. HistoryExplainsHoldings'
    <2>1. issued' = issued /\ recipient' = recipient
        BY <1>4
    <2>2. \A u \in Users : balance'[u] = OpeningCredit[u]
             + SumFunction([n \in DOMAIN trades' |-> CreditFlow(trades'[n], recipient', u)])
        BY <1>9, <2>1 DEF CreditFlows
    <2>3. \A s \in issued', u \in Users :
             holding'[s][u] = (IF u = recipient' THEN Supply ELSE 0)
                 + SumFunction([n \in DOMAIN trades' |-> TokenFlow(trades'[n], recipient', s, u)])
        BY <1>10, <2>1 DEF TokenFlows
    <2> QED
        BY <2>2, <2>3 DEF HistoryExplainsHoldings
<1> QED
    BY <1>2, <1>5, <1>6, <1>7, <1>8, <1>11

-----------------------------------------------------------------------------
(* The theorems *)

LEMMA MarketInductive ==
    MarketInv /\ [MarketNext]_marketVars => MarketInv'
<1> SUFFICES ASSUME MarketInv, [MarketNext]_marketVars
             PROVE  MarketInv'
    OBVIOUS
<1>1. ASSUME NEW p \in Players, NEW u \in Users, Issue(p, u) PROVE MarketInv'
    BY <1>1, IssueInvariant
<1>2. ASSUME NEW p \in Players, NEW price \in Prices, ConfirmQuote(p, price) PROVE MarketInv'
    BY <1>2, ConfirmInvariant
<1>3. ASSUME NEW t \in Terms, ExchangeOnce(t) PROVE MarketInv'
    BY <1>3, ExchangeInvariant
<1>4. CASE UNCHANGED marketVars
    <2> USE <1>4 DEF marketVars, MarketInv
    <2>1. MarketTypeOK' /\ IssuedToRecipient' /\ TradedIssued'
        BY DEF MarketTypeOK, IssuedToRecipient, TradedIssued
    <2>2. SupplyConserved' /\ RequestCompletesOnce'
        BY DEF SupplyConserved, RequestCompletesOnce
    <2>3. HistoryExplainsHoldings'
        BY DEF HistoryExplainsHoldings
    <2> QED
        BY <2>1, <2>2, <2>3
<1> QED
    BY <1>1, <1>2, <1>3, <1>4 DEF MarketNext

\* The market keeps its invariant: every part of it holds in every state.
THEOREM MarketInvariant == MarketSpec => []MarketInv
<1>1. MarketInit => MarketInv
    BY MarketInitInvariant
<1> QED
    BY <1>1, MarketInductive, PTL DEF MarketSpec

\* Whatever is issued, bought and sold, every issued player has exactly the
\* supply of tokens (market_supply_conserved).
THEOREM TokensAreConserved == MarketSpec => []SupplyConserved
<1>1. MarketInv => SupplyConserved
    BY DEF MarketInv
<1> QED
    BY <1>1, MarketInvariant, PTL

\* The retained ledger entries and token transfers add up to every balance and
\* every holding (adjust_balance! and receive_tokens! lose nothing).
THEOREM HistoryAddsUp == MarketSpec => []HistoryExplainsHoldings
<1>1. MarketInv => HistoryExplainsHoldings
    BY DEF MarketInv
<1> QED
    BY <1>1, MarketInvariant, PTL

=============================================================================
