-------------------------- MODULE LockOrderProofs ---------------------------
(***************************************************************************)
(* Why no transactions wait in a circle, for any number of sessions,       *)
(* players, accounts and orders, as long as publications bring no new      *)
(* player: every plan takes its locks in the order of their ranks, so each *)
(* member of a circle would wait for a lock of a higher rank than the      *)
(* member before it, and the ranks are bounded.                            *)
(***************************************************************************)
EXTENDS LockOrder, TLAPS, FiniteSetTheorems, SequenceTheorems

Rank(l) ==
    CASE l.table = "pass"        -> l.id
      [] l.table = "order"       -> Bound + l.id
      [] l.table = "init"        -> 2 * Bound + l.id
      [] l.table = "player"      -> 3 * Bound + l.id
      [] l.table = "calculation" -> 4 * Bound + l.id
      [] l.table = "account"     -> 5 * Bound + l.id

Ascending(plan) == \A i, j \in 1 .. Len(plan) : i < j => Rank(plan[i]) < Rank(plan[j])

\* A bounded set of naturals has a greatest element.
LEMMA GreatestElement ==
    ASSUME NEW M \in Nat, NEW T \in SUBSET (0 .. M), T # {}
    PROVE  \E x \in T : \A y \in T : y <= x
<1> DEFINE From == {x .. M : x \in T}
<1>1. From \subseteq FiniteSubsetsOf(0 .. M)
  <2>1. \A x \in T : x .. M \subseteq 0 .. M /\ IsFiniteSet(x .. M)
    BY FS_Interval
  <2>2. QED
    BY <2>1 DEF FiniteSubsetsOf
<1>2. PICK F \in From : \A G \in From : ~(<<G, F>> \in StrictSubsetOrdering(0 .. M))
  <2>1. IsWellFoundedOn(StrictSubsetOrdering(0 .. M), FiniteSubsetsOf(0 .. M))
    BY FS_StrictSubsetOrderingWellFounded
  <2>2. From # {}
    OBVIOUS
  <2>3. QED
    BY <1>1, <2>1, <2>2, WFMin, ZenonT(30)
<1>3. PICK x \in T : F = x .. M
  OBVIOUS
<1>4. ASSUME NEW y \in T, y > x
      PROVE  FALSE
  <2>1. y .. M \subseteq x .. M /\ y .. M # x .. M
    BY <1>4
  <2>2. y .. M \in SUBSET (0 .. M) /\ x .. M \in SUBSET (0 .. M)
    OBVIOUS
  <2>3. <<y .. M, x .. M>> \in StrictSubsetOrdering(0 .. M)
    BY <2>1, <2>2 DEF StrictSubsetOrdering
  <2>4. y .. M \in From
    OBVIOUS
  <2>5. QED
    BY <2>3, <2>4, <1>2, <1>3, Zenon
<1>5. QED
  BY <1>4

LEMMA RankBounded == \A l \in Lock : Rank(l) \in 0 .. 6 * Bound
BY LockOrderAssumption DEF Lock, Rank

\* The rows a plan may name, and their ranks.
LEMMA RowRanks ==
    /\ PassRow \in Lock /\ Rank(PassRow) = 0
    /\ InitializationRow \in Lock /\ Rank(InitializationRow) = 2 * Bound
    /\ \A o \in Orders : OrderRow(o) \in Lock /\ Rank(OrderRow(o)) = Bound + o
    /\ \A p \in Players : PlayerRow(p) \in Lock /\ Rank(PlayerRow(p)) = 3 * Bound + p
    /\ \A c \in Calculations : CalculationRow(c) \in Lock /\ Rank(CalculationRow(c)) = 4 * Bound + c
    /\ \A u \in Accounts : /\ AccountRow(u) \in Lock /\ Rank(AccountRow(u)) = 5 * Bound + u
                           /\ KeyShare("account", u) \in Lock
                           /\ Rank(KeyShare("account", u)) = 5 * Bound + u
BY LockOrderAssumption
   DEF Lock, Rank, PassRow, InitializationRow, OrderRow, PlayerRow, CalculationRow,
       AccountRow, KeyShare, Exclusive

LEMMA RowIds ==
    /\ Bound \in Nat \ {0}
    /\ \A i \in Players \cup Accounts \cup Orders \cup Calculations : i \in 0 .. Bound - 1
BY LockOrderAssumption

Ordered(plan) == plan \in Seq(Lock) /\ Ascending(plan)

LEMMA SettlementsOrdered ==
    \A s \in Settlements :
        /\ Ordered(s) /\ Len(s) = 3
        /\ \A i \in 1 .. 3 : Rank(s[i]) >= 3 * Bound
<1> SUFFICES ASSUME NEW p \in Players, NEW u \in Accounts, NEW v \in Accounts, u < v
             PROVE  LET s == <<PlayerRow(p), AccountRow(u), AccountRow(v)>>
                    IN  /\ Ordered(s) /\ Len(s) = 3
                        /\ \A i \in 1 .. 3 : Rank(s[i]) >= 3 * Bound
  BY DEF Settlements
<1> QED
  BY RowRanks, RowIds DEF Ordered, Ascending

\* Two ordered plans, the ranks of one below those of the other, make a plan.
LEMMA Joined ==
    ASSUME NEW q, NEW s, Ordered(q), Ordered(s),
           \A i \in 1 .. Len(q), j \in 1 .. Len(s) : Rank(q[i]) < Rank(s[j])
    PROVE  Ordered(q \o s)
<1> DEFINE plan == q \o s
           m == Len(q)
           n == Len(s)
<1>1. q \in Seq(Lock) /\ s \in Seq(Lock) /\ m \in Nat /\ n \in Nat
  BY DEF Ordered
<1>2. /\ plan \in Seq(Lock) /\ Len(plan) = m + n
      /\ \A i \in 1 .. m + n : plan[i] = IF i <= m THEN q[i] ELSE s[i - m]
  BY <1>1, ConcatProperties
<1>3. /\ \A i, j \in 1 .. m : i < j => Rank(q[i]) < Rank(q[j])
      /\ \A i, j \in 1 .. n : i < j => Rank(s[i]) < Rank(s[j])
      /\ \A i \in 1 .. m, j \in 1 .. n : Rank(q[i]) < Rank(s[j])
  BY DEF Ordered, Ascending
<1> HIDE DEF plan, m, n
<1>4. ASSUME NEW i \in 1 .. m + n, NEW j \in 1 .. m + n, i < j
      PROVE  Rank(plan[i]) < Rank(plan[j])
  <2>1. CASE j <= m
    BY <2>1, <1>1, <1>2, <1>3, <1>4
  <2>2. CASE i <= m /\ j > m
    <3>1. plan[i] = q[i] /\ plan[j] = s[j - m] /\ i \in 1 .. m /\ j - m \in 1 .. n
      BY <2>2, <1>1, <1>2
    <3>2. QED
      BY <3>1, <1>3
  <2>3. CASE i > m
    <3>1. plan[i] = s[i - m] /\ plan[j] = s[j - m]
      BY <2>3, <1>1, <1>2, <1>4
    <3>2. i - m \in 1 .. n /\ j - m \in 1 .. n /\ i - m < j - m
      BY <2>3, <1>1, <1>4
    <3>3. QED
      BY <3>1, <3>2, <1>3
  <2>4. QED
    BY <2>1, <2>2, <2>3, <1>1
<1>5. Ordered(plan)
  BY <1>2, <1>4 DEF Ordered, Ascending
<1>6. QED
  BY <1>5 DEF plan

LEMMA EvaluationsOrdered == \A plan \in Evaluations : Ordered(plan)
<1>1. ASSUME NEW q, NEW s \in Settlements, Ordered(q),
             \A i \in 1 .. Len(q) : Rank(q[i]) < 3 * Bound
      PROVE  Ordered(q \o s)
  <2>1. \A i \in 1 .. Len(q), j \in 1 .. Len(s) : Rank(q[i]) < Rank(s[j])
    <3>1. ASSUME NEW i \in 1 .. Len(q), NEW j \in 1 .. Len(s)
          PROVE  Rank(q[i]) < Rank(s[j])
      <4>1. Rank(q[i]) < 3 * Bound /\ q[i] \in Lock
        BY <1>1 DEF Ordered
      <4>2. Rank(s[j]) >= 3 * Bound /\ s[j] \in Lock
        BY SettlementsOrdered DEF Ordered
      <4>3. QED
        BY <4>1, <4>2, RankBounded, RowIds
    <3>2. QED
      BY <3>1
  <2>2. QED
    BY <1>1, <2>1, SettlementsOrdered, Joined
<1>2. ASSUME NEW o \in Orders, NEW s \in Settlements
      PROVE  Ordered(<<OrderRow(o)>> \o s)
  <2>1. /\ Ordered(<<OrderRow(o)>>)
        /\ \A i \in 1 .. Len(<<OrderRow(o)>>) : Rank(<<OrderRow(o)>>[i]) < 3 * Bound
    BY RowRanks, RowIds DEF Ordered, Ascending
  <2>2. QED
    BY <2>1, <1>1
<1>3. ASSUME NEW o \in Orders, NEW s \in Settlements
      PROVE  Ordered(<<PassRow, OrderRow(o)>> \o s)
  <2> DEFINE q == <<PassRow, OrderRow(o)>>
  <2>1. Ordered(q) /\ \A i \in 1 .. Len(q) : Rank(q[i]) < 3 * Bound
    BY RowRanks, RowIds DEF Ordered, Ascending
  <2>2. QED
    BY <2>1, <1>1
<1> DEFINE OrderLocks == {<<PassRow, OrderRow(o)>> : o \in Orders} \cup {<<OrderRow(o)>> : o \in Orders}
<1>4. ASSUME NEW q \in OrderLocks, NEW s \in Settlements
      PROVE  Ordered(q \o s)
  <2>1. (\E o \in Orders : q = <<PassRow, OrderRow(o)>>) \/ (\E o \in Orders : q = <<OrderRow(o)>>)
    OBVIOUS
  <2>2. QED
    BY <2>1, <1>2, <1>3
<1> HIDE DEF OrderLocks
<1>5. Evaluations = {qs[1] \o qs[2] : qs \in OrderLocks \X Settlements}
  BY DEF Evaluations, OrderLocks
<1>6. QED
  BY <1>4, <1>5

LEMMA SeasonRowsOrdered == \A plan \in SeasonRows : Ordered(plan)
<1> DEFINE N == Cardinality(Players)
<1>1. N \in Nat
  BY LockOrderAssumption, FS_CardinalityType
<1> SUFFICES ASSUME NEW q \in [1 .. N -> Players],
                    \A i, j \in 1 .. N : i < j => q[i] < q[j]
             PROVE  Ordered([i \in 1 .. N |-> PlayerRow(q[i])])
  BY DEF SeasonRows
<1> DEFINE plan == [i \in 1 .. N |-> PlayerRow(q[i])]
<1> HIDE DEF N
<1>2. plan \in [1 .. N -> Lock]
  BY RowRanks
<1>3. plan \in Seq(Lock) /\ Len(plan) = N
  BY <1>2, <1>1
<1>4. \A i \in 1 .. N : Rank(plan[i]) = 3 * Bound + q[i] /\ q[i] \in Int
  BY RowRanks, RowIds
<1> HIDE DEF plan
<1>5. Ascending(plan)
  BY <1>3, <1>4, RowIds DEF Ascending
<1>6. QED
  BY <1>3, <1>5 DEF Ordered, plan

\* Every plan takes its locks in ascending order of their ranks.
LEMMA PlansOrdered ==
    ASSUME FreshPlayers = FALSE
    PROVE  \A plan \in Plans : Ordered(plan)
<1>1. \A plan \in Issuances : Ordered(plan)
  <2>1. ASSUME NEW p \in Players, NEW u \in Accounts
        PROVE  Ordered(<<InitializationRow, PlayerRow(p), KeyShare("account", u)>>)
    BY RowRanks, RowIds DEF Ordered, Ascending
  <2>2. QED
    BY <2>1 DEF Issuances
<1>2. \A plan \in OrderCommands : Ordered(plan)
  <2>1. \A l \in Lock : Ordered(<<l>>)
    BY DEF Ordered, Ascending
  <2>2. ASSUME NEW p \in Players, NEW u \in Accounts
        PROVE  Ordered(<<PlayerRow(p), KeyShare("account", u)>>)
    BY RowRanks, RowIds DEF Ordered, Ascending
  <2>3. QED
    BY <2>1, <2>2, RowRanks DEF OrderCommands
<1>3. \A plan \in CalculationSteps : Ordered(plan)
  <2>1. \A l \in Lock : Ordered(<<l>>)
    BY DEF Ordered, Ascending
  <2>2. ASSUME NEW p \in Players, NEW c \in Calculations
        PROVE  Ordered(<<PlayerRow(p), CalculationRow(c)>>)
    BY RowRanks, RowIds DEF Ordered, Ascending
  <2>3. QED
    BY <2>1, <2>2, RowRanks DEF CalculationSteps
<1>4. \A plan \in Publications : Ordered(plan)
  BY SeasonRowsOrdered DEF Publications
<1>5. QED
  BY <1>1, <1>2, <1>3, <1>4, SettlementsOrdered, EvaluationsOrdered DEF Plans

-----------------------------------------------------------------------------
(* The states *)

\* Every session runs a plan of the code and holds a prefix of it.
THEOREM TypeCorrect == Spec => []TypeOK
<1>1. Init => TypeOK
  BY DEF Init, TypeOK, Idle
<1>2. TypeOK /\ [Next]_session => TypeOK'
  <2> SUFFICES ASSUME TypeOK, [Next]_session
               PROVE  TypeOK'
    OBVIOUS
  <2>1. ASSUME NEW s \in Sessions, NEW plan \in Plans, Begin(s, plan)
        PROVE  TypeOK'
    BY <2>1 DEF Begin, TypeOK, Idle
  <2>2. ASSUME NEW s \in Sessions, Take(s)
        PROVE  TypeOK'
    BY <2>2 DEF Take, Waiting, TypeOK
  <2>3. ASSUME NEW s \in Sessions, End(s)
        PROVE  TypeOK'
    BY <2>3 DEF End, TypeOK, Idle
  <2>4. CASE UNCHANGED session
    BY <2>4 DEF TypeOK
  <2>5. QED
    BY <2>1, <2>2, <2>3, <2>4 DEF Next
<1>3. QED
  BY <1>1, <1>2, PTL DEF Spec

LEMMA SessionsOrdered ==
    ASSUME FreshPlayers = FALSE, TypeOK, NEW s \in Sessions
    PROVE  Ordered(session[s].plan)
<1>1. Ordered(<<>>)
  BY DEF Ordered, Ascending
<1>2. session[s].plan \in Plans \cup {<<>>}
  BY DEF TypeOK
<1>3. QED
  BY <1>1, <1>2, PlansOrdered

\* A session that waits for another wants a lock of a lower rank than the other
\* wants, if the other waits too.
LEMMA WaitingAscends ==
    ASSUME FreshPlayers = FALSE, TypeOK, NEW s \in Sessions, NEW t \in Sessions,
           WaitsFor(s, t), Waiting(t)
    PROVE  Rank(Wanted(s)) < Rank(Wanted(t))
<1>1. Ordered(session[s].plan) /\ Ordered(session[t].plan)
  BY SessionsOrdered
<1>2. PICK i \in 1 .. session[t].taken : Conflict(Wanted(s), session[t].plan[i])
  BY DEF WaitsFor, Held
<1>3. Rank(Wanted(s)) = Rank(session[t].plan[i])
  BY <1>2 DEF Conflict, Rank
<1>4. Rank(session[t].plan[i]) < Rank(Wanted(t))
  BY <1>1 DEF Ordered, Ascending, Wanted, Waiting, TypeOK
<1>5. QED
  BY <1>3, <1>4

\* As long as publications bring no new player, no transactions of the market
\* ever wait for each other in a circle, however many run.
THEOREM NoDeadlock ==
    ASSUME FreshPlayers = FALSE
    PROVE  Spec => []NoWaitCycle
<1>1. TypeOK => NoWaitCycle
  <2> SUFFICES ASSUME TypeOK, NEW D \in SUBSET Sessions, D # {},
                      \A s \in D : \E t \in D : WaitsFor(s, t)
               PROVE  FALSE
    BY DEF NoWaitCycle
  <2> DEFINE Ranks == {Rank(Wanted(s)) : s \in D}
  <2>1. \A s \in D : Wanted(s) \in Lock
    <3> SUFFICES ASSUME NEW s \in D
                 PROVE  Wanted(s) \in Lock
      OBVIOUS
    <3>1. Waiting(s)
      BY DEF WaitsFor
    <3>2. session[s].plan \in Seq(Lock) /\ session[s].taken \in Nat
      <4>1. session[s].plan \in Seq(Lock)
        BY SessionsOrdered DEF Ordered
      <4>2. Len(session[s].plan) \in Nat /\ session[s].taken \in 0 .. Len(session[s].plan)
        BY <4>1 DEF TypeOK
      <4>3. QED
        BY <4>1, <4>2
    <3>3. QED
      BY <3>1, <3>2 DEF Waiting, Wanted
  <2>2. Ranks \in SUBSET (0 .. 6 * Bound) /\ Ranks # {} /\ 6 * Bound \in Nat
    BY <2>1, RankBounded, RowIds
  <2>3. PICK s \in D : \A t \in D : Rank(Wanted(t)) <= Rank(Wanted(s))
    BY <2>2, GreatestElement
  <2>4. PICK t \in D : WaitsFor(s, t)
    OBVIOUS
  <2>5. Rank(Wanted(s)) < Rank(Wanted(t))
    BY <2>4, WaitingAscends DEF WaitsFor
  <2>6. QED
    BY <2>1, <2>3, <2>5, RankBounded
<1>2. QED
  BY <1>1, TypeCorrect, PTL

=============================================================================
