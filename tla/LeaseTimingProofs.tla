------------------------- MODULE LeaseTimingProofs --------------------------
(***************************************************************************)
(* The reaper and the takeover, for every setting of the timings that the  *)
(* startup check accepts: no takeover is pre-empted where a shortened      *)
(* backoff is absorbed, and two ways of setting the timings so that it is. *)
(*                                                                         *)
(* The backoff curve is a recursive function.  What it computes is proved  *)
(* by looking at the least delivery at which it would be wrong, which      *)
(* needs no induction rule: only that a set of naturals has a least        *)
(* element.                                                                *)
(***************************************************************************)
EXTENDS LeaseTiming, WellFoundedInduction, TLAPS

-----------------------------------------------------------------------------
(* Numbers.                                                                *)

\* A set of naturals has a least element.
LEMMA LeastNatural ==
    ASSUME NEW S \in SUBSET Nat, S # {}
    PROVE  \E n \in S : \A m \in S : n <= m
<1> DEFINE R == OpToRel(<, Nat)
<1>1. IsWellFoundedOn(R, Nat) BY NatLessThanWellFounded
<1>2. R = {ss \in Nat \X Nat : ss[1] < ss[2]} BY Zenon DEF OpToRel
<1> HIDE DEF R
<1>3. PICK n \in S : \A m \in S : ~ (<<m, n>> \in R) BY <1>1, WFMin
<1>4. \A m \in S : ~ (m < n) BY <1>2, <1>3
<1> QED BY <1>4

\* A curve that starts at base and climbs by step.
Curve(g, lo, hi, base, step) ==
    g = [n \in lo .. hi |-> IF n = lo THEN base ELSE g[n - 1] + step[n - 1]]

\* Such a curve exists, however long it is.
LEMMA CurveExists ==
    ASSUME NEW lo \in Nat, NEW hi \in Nat, NEW base \in Int, NEW step \in [Nat -> Int]
    PROVE  \E g : Curve(g, lo, hi, base, step)
<1> DEFINE UpTo(g, k) ==
             /\ g \in [lo .. k -> Int]
             /\ g = [n \in lo .. k |-> IF n = lo THEN base ELSE g[n - 1] + step[n - 1]]
           Bad == {k \in Nat : ~ \E g : UpTo(g, k)}
<1>1. ASSUME NEW b \in Bad, \A k \in Bad : b <= k PROVE FALSE
  <2>1. CASE b < lo
    <3> DEFINE g == [n \in lo .. b |-> base]
    <3>1. lo .. b = {} BY <2>1
    <3>2. UpTo(g, b) BY <3>1
    <3> QED BY <3>2
  <2>2. CASE b = lo
    <3> DEFINE g == [n \in lo .. b |-> base]
    <3>1. UpTo(g, b) BY <2>2
    <3> QED BY <3>1
  <2>3. CASE b > lo
    <3>0. b \in Nat /\ b - 1 \in Nat /\ ~ (b <= b - 1) BY <2>3
    <3>1. b - 1 \notin Bad
      <4> HIDE DEF Bad
      <4> QED BY <1>1, <3>0
    <3>2. PICK f : UpTo(f, b - 1) BY <3>0, <3>1
    <3> DEFINE g == [n \in lo .. b |-> IF n = b THEN f[b - 1] + step[b - 1] ELSE f[n]]
    <3>3. b - 1 \in lo .. (b - 1) /\ f[b - 1] \in Int /\ step[b - 1] \in Int
      <4>1. b - 1 \in lo .. (b - 1) BY <2>3, <3>0
      <4> QED BY <3>0, <3>2, <4>1
    <3>4. g \in [lo .. b -> Int] BY <3>2, <3>3
    <3>5. ASSUME NEW n \in lo .. b
          PROVE  g[n] = IF n = lo THEN base ELSE g[n - 1] + step[n - 1]
      <4>1. CASE n = b BY <2>3, <3>3, <4>1
      <4>2. CASE n # b
        <5>1. n \in lo .. (b - 1) BY <4>2
        <5>2. f[n] = IF n = lo THEN base ELSE f[n - 1] + step[n - 1] BY <3>2, <5>1
        <5>3. n # lo => g[n - 1] = f[n - 1] BY <5>1
        <5> QED BY <4>2, <5>2, <5>3
      <4> QED BY <4>1, <4>2
    <3>6. UpTo(g, b) BY <3>4, <3>5
    <3> QED BY <3>6
  <2> QED BY <2>1, <2>2, <2>3
<1>2. Bad = {} BY <1>1, LeastNatural
<1>3. \E g : UpTo(g, hi) BY <1>2
<1> QED BY <1>3 DEF Curve

\* Its values are numbers.
LEMMA CurveTyped ==
    ASSUME NEW lo \in Nat, NEW hi \in Nat, NEW base \in Int, NEW step \in [Nat -> Int],
           NEW g, Curve(g, lo, hi, base, step)
    PROVE  g \in [lo .. hi -> Int]
<1> DEFINE Bad == {n \in lo .. hi : g[n] \notin Int}
<1>1. ASSUME NEW b \in Bad, \A n \in Bad : b <= n PROVE FALSE
  <2>1. b \in lo .. hi /\ b \in Nat OBVIOUS
  <2>2. g[b] = IF b = lo THEN base ELSE g[b - 1] + step[b - 1] BY <2>1 DEF Curve
  <2>3. b # lo => b - 1 \in lo .. hi /\ b - 1 \in Nat /\ ~ (b <= b - 1) BY <2>1
  <2>4. b # lo => b - 1 \notin Bad
    <3> HIDE DEF Bad
    <3> QED BY <1>1, <2>3
  <2>5. b # lo => g[b - 1] \in Int /\ step[b - 1] \in Int BY <2>3, <2>4
  <2> QED BY <2>2, <2>5
<1>2. Bad = {}
  <2>1. Bad \in SUBSET Nat OBVIOUS
  <2> HIDE DEF Bad
  <2> QED BY <1>1, <2>1, LeastNatural
<1> QED BY <1>2 DEF Curve

\* The exponents that occur.
LEMMA PowerPositive ==
    ASSUME NEW k \in 0 .. 9
    PROVE  2 ^ k \in Nat \ {0}
<1>0. CASE k = 0 BY <1>0
<1>1. CASE k = 1 BY <1>1
<1>2. CASE k = 2 BY <1>2
<1>3. CASE k = 3 BY <1>3
<1>4. CASE k = 4 BY <1>4
<1>5. CASE k = 5 BY <1>5
<1>6. CASE k = 6 BY <1>6
<1>7. CASE k = 7 BY <1>7
<1>8. CASE k = 8 BY <1>8
<1>9. CASE k = 9 BY <1>9
<1> QED BY <1>0, <1>1, <1>2, <1>3, <1>4, <1>5, <1>6, <1>7, <1>8, <1>9

\* One of finitely many numbers is the greatest.
LEMMA GreatestExists ==
    ASSUME NEW f, NEW top \in Nat, NEW S \in SUBSET (1 .. top), S # {},
           \A d \in 1 .. top : f[d] \in Int
    PROVE  \E d \in S : \A e \in S : f[e] <= f[d]
<1> DEFINE Tops(T) == \E d \in T : \A e \in T : f[e] <= f[d]
           Bad == {k \in 0 .. top : \E T \in SUBSET (1 .. k) : T # {} /\ ~ Tops(T)}
<1>1. ASSUME NEW b \in Bad, \A k \in Bad : b <= k PROVE FALSE
  <2>1. PICK T \in SUBSET (1 .. b) : T # {} /\ ~ Tops(T) OBVIOUS
  <2>2. b \in T
    <3> SUFFICES ASSUME b \notin T PROVE FALSE OBVIOUS
    <3>1. b \in Nat /\ b <= top /\ b # 0
      <4>1. b \in Nat /\ b <= top OBVIOUS
      <4>2. 1 .. 0 = {} OBVIOUS
      <4> QED BY <2>1, <4>1, <4>2
    <3>2. b - 1 \in 0 .. top /\ ~ (b <= b - 1) BY <3>1
    <3>3. T \in SUBSET (1 .. (b - 1)) BY <2>1, <3>1
    <3>4. b - 1 \in Bad BY <2>1, <3>2, <3>3
    <3> HIDE DEF Bad
    <3> QED BY <1>1, <3>2, <3>4
  <2>3. b \in 1 .. top /\ f[b] \in Int BY <2>1, <2>2
  <2> DEFINE U == T \ {b}
  <2>4. U # {}
    <3>1. U = {} => T = {b} BY <2>2
    <3>2. Tops({b}) BY <2>3
    <3> QED BY <2>1, <3>1, <3>2
  <2>5. Tops(U)
    <3>1. b - 1 \in 0 .. top /\ ~ (b <= b - 1) BY <2>3
    <3>2. U \in SUBSET (1 .. (b - 1)) BY <2>1, <2>3
    <3>3. b - 1 \notin Bad
      <4> HIDE DEF Bad
      <4> QED BY <1>1, <3>1
    <3> HIDE DEF U, Tops
    <3> QED BY <2>4, <3>1, <3>2, <3>3
  <2>6. PICK d \in U : \A e \in U : f[e] <= f[d] BY <2>5
  <2>7. f[d] \in Int /\ \A e \in T : f[e] \in Int BY <2>1, <2>3
  <2>8. CASE f[b] <= f[d] BY <2>1, <2>6, <2>8
  <2>9. CASE f[d] <= f[b]
    <3>1. \A e \in T : f[e] <= f[b] BY <2>3, <2>6, <2>7, <2>9
    <3> QED BY <2>1, <2>2, <3>1
  <2> QED BY <2>3, <2>7, <2>8, <2>9
<1>2. Bad = {}
  <2>1. Bad \in SUBSET Nat OBVIOUS
  <2> HIDE DEF Bad
  <2> QED BY <1>1, <2>1, LeastNatural
<1> QED BY <1>2

\* The smaller of two numbers.
LEMMA MinOfTwo ==
    ASSUME NEW i \in Int, NEW j \in Int
    PROVE  Min({i, j}) = IF i <= j THEN i ELSE j
BY DEF Min

\* The greater of two numbers.
LEMMA MaxOfTwo ==
    ASSUME NEW i \in Int, NEW j \in Int
    PROVE  Max({i, j}) = IF i <= j THEN j ELSE i
BY DEF Max

\* Min of a set of naturals is in it and below all of it.
LEMMA MinIsLeast ==
    ASSUME NEW S \in SUBSET Nat, S # {}
    PROVE  Min(S) \in S /\ \A n \in S : Min(S) <= n
BY LeastNatural DEF Min

-----------------------------------------------------------------------------
(* The arithmetic.                                                         *)

\* A backoff is positive and no longer than the ceiling.
LEMMA BackoffBounds ==
    ASSUME NEW n \in Nat \ {0}
    PROVE  Backoff(n) \in Nat \ {0} /\ Backoff(n) <= NAK_CEILING
<1> DEFINE k == Min({n, 10}) - 1
<1>1. k \in 0 .. 9 BY MinOfTwo
<1> HIDE DEF k
<1>2. 2 ^ k \in Nat \ {0} BY <1>1, PowerPositive
<1> DEFINE x == 2 ^ k
<1> HIDE DEF x
<1>3. Min({NAK_CEILING, x}) \in Nat \ {0} /\ Min({NAK_CEILING, x}) <= NAK_CEILING
  BY <1>2, MinOfTwo, TimingAssumption DEF x
<1> QED BY <1>3 DEF Backoff, k, x

\* Jitter takes something off a backoff and adds nothing.
LEMMA NakBounds ==
    ASSUME NEW n \in Nat \ {0}
    PROVE  /\ Min(lockContentionNak(n)) \in Nat
           /\ \A d \in lockContentionNak(n) :
                 d \in Nat /\ Min(lockContentionNak(n)) <= d /\ d <= Backoff(n)
<1>1. Backoff(n) \in Nat \ {0} BY BackoffBounds
<1>2. Backoff(n) \in lockContentionNak(n) BY <1>1 DEF lockContentionNak
<1>3. lockContentionNak(n) \in SUBSET Nat BY DEF lockContentionNak
<1>4. \A d \in lockContentionNak(n) : d <= Backoff(n) BY <1>1 DEF lockContentionNak
<1> QED BY <1>2, <1>3, <1>4, MinIsLeast

\* The curve without jitter is what its definition says.
LEMMA AttemptAtUnfolds ==
    ASSUME NEW d \in Nat, NEW m \in Nat
    PROVE  /\ AttemptAt(d, m) \in [(d + 1) .. m -> Int]
           /\ \A n \in (d + 1) .. m :
                 AttemptAt(d, m)[n] = IF n = d + 1 THEN ACK_WAIT
                                      ELSE AttemptAt(d, m)[n - 1] + Backoff(n - 1)
<1> DEFINE lo == d + 1
           step == [k \in Nat |-> IF k = 0 THEN 0 ELSE Backoff(k)]
           Solves(g) ==
               g = [n \in lo .. m |-> IF n = lo THEN ACK_WAIT ELSE g[n - 1] + Backoff(n - 1)]
           at == AttemptAt(d, m)
<1>1. step \in [Nat -> Int] BY BackoffBounds
<1>2. lo \in Nat /\ ACK_WAIT \in Int BY TimingAssumption
<1>3. \A n \in lo .. m : n # lo => step[n - 1] = Backoff(n - 1) OBVIOUS
<1>4. at = CHOOSE g : Solves(g) BY DEF AttemptAt
<1> HIDE DEF step, lo, at
<1>5. PICK g : Curve(g, lo, m, ACK_WAIT, step) BY <1>1, <1>2, CurveExists
<1>6. \A h : Solves(h) <=> Curve(h, lo, m, ACK_WAIT, step) BY <1>3 DEF Curve
<1>7. Solves(at)
  <2> HIDE DEF Solves
  <2> QED BY <1>4, <1>5, <1>6
<1>8. at \in [lo .. m -> Int] BY <1>1, <1>2, <1>6, <1>7, CurveTyped
<1>9. \A n \in lo .. m : at[n] = IF n = lo THEN ACK_WAIT ELSE at[n - 1] + Backoff(n - 1)
  BY <1>7
<1> QED BY <1>8, <1>9 DEF lo, at

\* So is the one on the lower edge.
LEMMA EarliestAtUnfolds ==
    ASSUME NEW d \in Nat, NEW m \in Nat
    PROVE  /\ EarliestAt(d, m) \in [(d + 1) .. m -> Int]
           /\ \A n \in (d + 1) .. m :
                 EarliestAt(d, m)[n] = IF n = d + 1 THEN ACK_WAIT - PROGRESS
                                       ELSE EarliestAt(d, m)[n - 1] + Min(lockContentionNak(n - 1))
<1> DEFINE lo == d + 1
           base == ACK_WAIT - PROGRESS
           step == [k \in Nat |-> IF k = 0 THEN 0 ELSE Min(lockContentionNak(k))]
           Solves(g) ==
               g = [n \in lo .. m |-> IF n = lo THEN base
                                     ELSE g[n - 1] + Min(lockContentionNak(n - 1))]
           at == EarliestAt(d, m)
<1>1. step \in [Nat -> Int] BY NakBounds
<1>2. lo \in Nat /\ base \in Int BY TimingAssumption
<1>3. \A n \in lo .. m : n # lo => step[n - 1] = Min(lockContentionNak(n - 1)) OBVIOUS
<1>4. at = CHOOSE g : Solves(g) BY DEF EarliestAt
<1> HIDE DEF step, lo, base, at
<1>5. PICK g : Curve(g, lo, m, base, step) BY <1>1, <1>2, CurveExists
<1>6. \A h : Solves(h) <=> Curve(h, lo, m, base, step) BY <1>3 DEF Curve
<1>7. Solves(at)
  <2> HIDE DEF Solves
  <2> QED BY <1>4, <1>5, <1>6
<1>8. at \in [lo .. m -> Int] BY <1>1, <1>2, <1>6, <1>7, CurveTyped
<1>9. \A n \in lo .. m : at[n] = IF n = lo THEN base
                                 ELSE at[n - 1] + Min(lockContentionNak(n - 1))
  BY <1>7
<1> QED BY <1>8, <1>9 DEF lo, base, at

\* The redelivery ceiling is clamped.
LEMMA BudgetBounds ==
    ASSUME NEW n \in Nat
    PROVE  resolveTaskDeliveryBudget(n) \in 3 .. 100
<1> DEFINE k == Max({3, n})
<1>1. k \in Nat /\ k >= 3 BY MaxOfTwo
<1> HIDE DEF k
<1>2. Min({100, k}) = IF 100 <= k THEN 100 ELSE k BY <1>1, MinOfTwo
<1>3. Min({100, k}) \in 3 .. 100 BY <1>1, <1>2
<1> QED BY <1>3 DEF resolveTaskDeliveryBudget, MIN_TASK_MAX_DELIVER, MAX_TASK_MAX_DELIVER, k

\* Within the clamp the guard steps in on the delivery before the last.
LEMMA PoisonIsLastButOne ==
    ASSUME NEW m \in 3 .. 100
    PROVE  poisonDeliveryOf(m) = m - 1
<1>1. Max({3, m}) = m BY MaxOfTwo
<1>2. Min({100, m}) = m BY MinOfTwo
<1> QED BY <1>1, <1>2
        DEF poisonDeliveryOf, resolveTaskDeliveryBudget, MIN_TASK_MAX_DELIVER, MAX_TASK_MAX_DELIVER

\* The takeover after one death lands at some time.
LEMMA TakeoverTyped ==
    ASSUME NEW ttl \in Nat, NEW m \in Nat, NEW d \in Nat, d < m
    PROVE  resolveLockBlockedTakeover(ttl, m, d).at \in Int
<1> DEFINE at == AttemptAt(d, m)
           S == {m} \cup {k \in DOMAIN at : at[k] >= ttl}
<1>1. at \in [(d + 1) .. m -> Int] BY AttemptAtUnfolds
<1>2. resolveLockBlockedTakeover(ttl, m, d).at = at[Min(S)] BY DEF resolveLockBlockedTakeover
<1> HIDE DEF at
<1>3. S \in SUBSET ((d + 1) .. m) /\ S # {} BY <1>1
<1>4. S \in SUBSET Nat BY <1>3
<1> HIDE DEF S
<1>5. Min(S) \in (d + 1) .. m BY <1>3, <1>4, MinIsLeast
<1> QED BY <1>1, <1>2, <1>5

\* The worst takeover is the takeover after some death.
LEMMA WorstIsOne ==
    ASSUME NEW ttl \in Nat, NEW m \in 3 .. 100
    PROVE  \E d \in 1 .. (m - 2) :
               worstLockBlockedTakeover(ttl, m) = resolveLockBlockedTakeover(ttl, m, d)
<1> DEFINE deaths == 1 .. Max({1, poisonDeliveryOf(m) - 1})
           R(d) == resolveLockBlockedTakeover(ttl, m, d)
           takeovers == {R(d) : d \in deaths}
           reached == {t \in takeovers : t.reachable}
           top == CHOOSE t \in reached : \A u \in reached : u.at <= t.at
<1>0. m \in Nat OBVIOUS
<1>1. deaths = 1 .. (m - 2)
  <2>1. poisonDeliveryOf(m) - 1 = m - 2 BY PoisonIsLastButOne
  <2>2. m - 2 \in Int /\ 1 <= m - 2 OBVIOUS
  <2> DEFINE k == m - 2
  <2> HIDE DEF k
  <2>3. Max({1, k}) = k BY <2>2, MaxOfTwo DEF k
  <2> QED BY <2>1, <2>3 DEF k
<1> HIDE DEF deaths
<1>2. \A d \in deaths : R(d).at \in Int
  <2> SUFFICES ASSUME NEW d \in deaths PROVE R(d).at \in Int OBVIOUS
  <2>1. d \in Nat /\ d < m BY <1>1
  <2> QED BY <1>0, <2>1, TakeoverTyped
<1>3. 1 \in deaths BY <1>1
<1>4. worstLockBlockedTakeover(ttl, m) = IF reached = {} THEN R(1) ELSE top
  BY DEF worstLockBlockedTakeover, deaths
<1> HIDE DEF R
<1>5. CASE reached = {}
  <2>1. worstLockBlockedTakeover(ttl, m) = R(1) BY <1>4, <1>5
  <2> QED BY <1>1, <1>3, <2>1 DEF R
<1>6. CASE reached # {}
  <2> DEFINE f == [d \in deaths |-> R(d).at]
             S == {d \in deaths : R(d).reachable}
  <2>1. S # {} BY <1>6
  <2>2. S \in SUBSET (1 .. (m - 2)) /\ m - 2 \in Nat /\ \A d \in 1 .. (m - 2) : f[d] \in Int
    BY <1>1, <1>2
  <2>3. PICK d \in S : \A e \in S : f[e] <= f[d]
    <3> HIDE DEF f, S
    <3> QED BY <2>1, <2>2, GreatestExists
  <2>4. R(d) \in reached /\ \A u \in reached : u.at <= R(d).at BY <2>3
  <2>5. top \in reached
    <3> HIDE DEF reached
    <3> QED BY <2>4
  <2>6. worstLockBlockedTakeover(ttl, m) = top BY <1>4, <1>6
  <2>7. PICK e \in deaths : top = R(e) BY <2>5
  <2> QED BY <1>1, <2>6, <2>7 DEF R
<1> QED BY <1>5, <1>6

\* So it lands at some time too.
LEMMA WorstTyped ==
    ASSUME NEW ttl \in Nat, NEW m \in 3 .. 100
    PROVE  worstLockBlockedTakeover(ttl, m).at \in Int
<1>1. PICK d \in 1 .. (m - 2) :
          worstLockBlockedTakeover(ttl, m) = resolveLockBlockedTakeover(ttl, m, d)
  BY WorstIsOne
<1>2. m \in Nat /\ d \in Nat /\ d < m OBVIOUS
<1> QED BY <1>1, <1>2, TakeoverTyped

\* What the startup check has made sure of.
LEMMA AcceptedTiming ==
    ASSUME NEW t \in Timings
    PROVE  LET worst == worstLockBlockedTakeover(t.lockTtl, t.maxDeliver)
           IN  /\ t \in [lockTtl : LockTtls, maxDeliver : Nat, grace : Nat]
               /\ t.maxDeliver \in 3 .. 100
               /\ poisonDeliveryOf(t.maxDeliver) = t.maxDeliver - 1
               /\ worst.at \in Int
               /\ effectiveRunLeaseTtl \in Nat /\ HEARTBEAT < effectiveRunLeaseTtl
               /\ effectiveRunLeaseTtl + t.grace - HEARTBEAT > ACK_WAIT
               /\ effectiveRunLeaseTtl + t.grace - HEARTBEAT >= worst.at + TICK
<1> DEFINE ttl == t.lockTtl
           m == t.maxDeliver
           worst == worstLockBlockedTakeover(ttl, m)
           eff == effectiveRunLeaseTtl
<1>1. PICK k \in LockTtls, n \in MaxDelivers :
          LET b == resolveTaskDeliveryBudget(n)
          IN  t = [lockTtl |-> k, maxDeliver |-> b, grace |-> resolveLeaseReapGrace(k, b)]
  BY DEF Timings
<1>2. TimingAccepted(ttl, m) BY DEF Timings
<1>3. ttl \in LockTtls /\ ttl \in Nat BY <1>1, TimingAssumption
<1>4. m \in 3 .. 100 BY <1>1, BudgetBounds, TimingAssumption
<1>5. t = [lockTtl |-> ttl, maxDeliver |-> m, grace |-> resolveLeaseReapGrace(ttl, m)] BY <1>1
<1> HIDE DEF ttl, m
<1>6. worst.at \in Int BY <1>3, <1>4, WorstTyped
<1>7. eff \in Nat BY MinOfTwo, TimingAssumption DEF effectiveRunLeaseTtl
<1> DEFINE x == worst.at + TICK + HEARTBEAT - eff
<1> HIDE DEF worst, eff
<1>8. TICK \in Nat /\ HEARTBEAT \in Nat \ {0} /\ ACK_WAIT \in Nat BY TimingAssumption
<1>9. x \in Int BY <1>6, <1>7, <1>8
<1> HIDE DEF x
<1>10. Max({1, x}) \in Nat BY <1>9, MaxOfTwo
<1>11. resolveLeaseReapGrace(ttl, m) = Max({1, x}) BY DEF resolveLeaseReapGrace, x, worst, eff
<1>12. t.grace \in Nat /\ t.grace = resolveLeaseReapGrace(ttl, m) BY <1>5, <1>10, <1>11
<1>13. t \in [lockTtl : LockTtls, maxDeliver : Nat, grace : Nat]
  BY <1>3, <1>4, <1>5, <1>12
<1>14. /\ 3 * HEARTBEAT <= eff
       /\ eff + t.grace - HEARTBEAT > ACK_WAIT
       /\ eff + t.grace - HEARTBEAT >= worst.at + TICK
  BY <1>2, <1>12 DEF TimingAccepted, worst, eff
<1>15. HEARTBEAT < eff BY <1>7, <1>8, <1>14
<1> QED BY <1>4, <1>6, <1>7, <1>13, <1>14, <1>15, PoisonIsLastButOne DEF ttl, m, worst, eff

-----------------------------------------------------------------------------
(* The inductive invariant.                                                *)

Absorbed == JitterIsAbsorbed(timing.lockTtl, timing.maxDeliver)
Latest == AttemptAt(died, timing.maxDeliver)
Earliest == EarliestAt(died, timing.maxDeliver)

\* The sweep that reaps comes after the ack wait and after the latest takeover.
SweptLast ==
    /\ verdict > ACK_WAIT
    /\ verdict > worstLockBlockedTakeover(timing.lockTtl, timing.maxDeliver).at + TICK

\* A delivery comes between the two edges of the curve.
OnTheCurve == Earliest[delivery] <= due /\ due <= Latest[delivery]

\* After the first, it was put off by one that met the lock.
PutOff ==
    delivery > died + 1 =>
        /\ Earliest[delivery - 1] < timing.lockTtl
        /\ due <= Min({Latest[delivery - 1], timing.lockTtl - 1}) + Backoff(delivery - 1)

\* A run reaped while its message is still queued is past the guard.
ReapedIsPastGuard ==
    message = "queued" => row = "running" \/ (row = "reaped" /\ (Absorbed => delivery > Poison))

TInv ==
    /\ timing \in Timings
    /\ TypeOK
    /\ lock <= timing.lockTtl
    /\ SweptLast
    /\ OnTheCurve
    /\ PutOff
    /\ ReapedIsPastGuard
    /\ Absorbed => TakeoverIsNeverPreempted

-----------------------------------------------------------------------------
(* The steps.                                                              *)

\* The invariant holds when the worker dies.
LEMMA InitTimely == Init => TInv
<1> SUFFICES ASSUME Init PROVE TInv OBVIOUS
<1> DEFINE m == timing.maxDeliver
           worst == worstLockBlockedTakeover(timing.lockTtl, m)
           eff == effectiveRunLeaseTtl
<1>1. /\ timing \in [lockTtl : LockTtls, maxDeliver : Nat, grace : Nat]
      /\ m \in 3 .. 100 /\ Poison = m - 1 /\ worst.at \in Int
      /\ eff \in Nat /\ HEARTBEAT < eff
      /\ eff + timing.grace - HEARTBEAT > ACK_WAIT
      /\ eff + timing.grace - HEARTBEAT >= worst.at + TICK
  BY AcceptedTiming DEF Init, Poison
<1>2. /\ HEARTBEAT \in Nat /\ TICK \in Nat /\ ACK_WAIT \in Nat /\ REFRESH \in Nat
      /\ PROGRESS \in 0 .. ACK_WAIT /\ REFRESH <= timing.lockTtl /\ timing.lockTtl \in Nat
  BY <1>1, TimingAssumption
<1> HIDE DEF m, worst, eff
<1>3. died \in 1 .. (m - 2) /\ delivery = died + 1 /\ delivery \in (died + 1) .. m
  BY <1>1 DEF Init
<1>4. PICK lapse \in (eff - HEARTBEAT) .. eff, late \in 1 .. TICK :
          verdict = lapse + timing.grace + late
  BY DEF Init, eff
<1>5. /\ verdict \in Nat /\ verdict > ACK_WAIT /\ verdict > worst.at + TICK
  BY <1>1, <1>2, <1>4
<1>6. due \in Nat /\ ACK_WAIT - PROGRESS <= due /\ due <= ACK_WAIT
  BY <1>2 DEF Init
<1>7. lock \in Nat /\ lock <= timing.lockTtl BY <1>2 DEF Init
<1>8. TypeOK BY <1>1, <1>3, <1>5, <1>6, <1>7 DEF TypeOK, Init, RowStates, MessageStates, m
<1>9. OnTheCurve
  <2>1. m \in Nat /\ died \in Nat BY <1>1, <1>3
  <2>2. Latest[delivery] = ACK_WAIT BY <1>3, <2>1, AttemptAtUnfolds DEF Latest, m
  <2>3. Earliest[delivery] = ACK_WAIT - PROGRESS BY <1>3, <2>1, EarliestAtUnfolds DEF Earliest, m
  <2> QED BY <1>6, <2>2, <2>3 DEF OnTheCurve
<1>10. PutOff BY <1>3 DEF PutOff
<1>11. SweptLast BY <1>5 DEF SweptLast, worst, m
<1>12. ReapedIsPastGuard /\ TakeoverIsNeverPreempted
  BY DEF Init, ReapedIsPastGuard, TakeoverIsNeverPreempted
<1> QED BY <1>7, <1>8, <1>9, <1>10, <1>11, <1>12 DEF TInv, Init

\* The numbers of a state that satisfies the invariant.
LEMMA StateNumbers ==
    ASSUME TInv
    PROVE  LET m == timing.maxDeliver
               worst == worstLockBlockedTakeover(timing.lockTtl, m)
           IN  /\ m \in 3 .. 100 /\ poisonDeliveryOf(m) = m - 1 /\ Poison = m - 1
               /\ worst.at \in Int
               /\ died \in 1 .. (m - 2) /\ delivery \in (died + 1) .. m
               /\ due \in Nat /\ lock \in Nat /\ verdict \in Nat /\ timing.lockTtl \in Nat
               /\ ACK_WAIT \in Nat /\ TICK \in Nat
<1> DEFINE m == timing.maxDeliver
<1>1. /\ m \in 3 .. 100 /\ poisonDeliveryOf(m) = m - 1 /\ timing.lockTtl \in LockTtls
      /\ worstLockBlockedTakeover(timing.lockTtl, m).at \in Int
  BY AcceptedTiming DEF TInv
<1>2. /\ died \in 1 .. (Poison - 1) /\ delivery \in (died + 1) .. m
      /\ due \in Nat /\ lock \in Nat /\ verdict \in Nat
  BY DEF TInv, TypeOK
<1>3. timing.lockTtl \in Nat /\ ACK_WAIT \in Nat /\ TICK \in Nat BY <1>1, TimingAssumption
<1>4. Poison = m - 1 BY <1>1 DEF Poison
<1>5. (m - 1) - 1 = m - 2 BY <1>1
<1> QED BY <1>1, <1>2, <1>3, <1>4, <1>5

\* The two edges of the curve, from one delivery to the next.
LEMMA CurveStep ==
    ASSUME TInv, NEW n \in (died + 1) .. timing.maxDeliver
    PROVE  /\ Latest[n] \in Int /\ Earliest[n] \in Int
           /\ n = died + 1 => Latest[n] = ACK_WAIT
           /\ n + 1 <= timing.maxDeliver =>
                 /\ Latest[n + 1] = Latest[n] + Backoff(n)
                 /\ Earliest[n + 1] = Earliest[n] + Min(lockContentionNak(n))
<1> DEFINE m == timing.maxDeliver
<1>1. m \in Nat /\ died \in Nat BY StateNumbers
<1>2. /\ Latest \in [(died + 1) .. m -> Int]
      /\ \A k \in (died + 1) .. m :
            Latest[k] = IF k = died + 1 THEN ACK_WAIT ELSE Latest[k - 1] + Backoff(k - 1)
  BY <1>1, AttemptAtUnfolds DEF Latest
<1>3. /\ Earliest \in [(died + 1) .. m -> Int]
      /\ \A k \in (died + 1) .. m :
            Earliest[k] = IF k = died + 1 THEN ACK_WAIT - PROGRESS
                          ELSE Earliest[k - 1] + Min(lockContentionNak(k - 1))
  BY <1>1, EarliestAtUnfolds DEF Earliest
<1>4. /\ n \in Nat /\ (n + 1) - 1 = n /\ n + 1 # died + 1
      /\ n + 1 <= m => n + 1 \in (died + 1) .. m
  BY <1>1
<1> HIDE DEF m
<1> QED BY <1>2, <1>3, <1>4 DEF m

\* What does not change with the message and the row.
LEMMA Fixed ==
    ASSUME UNCHANGED <<timing, died, lock, verdict>>
    PROVE  /\ Absorbed' = Absorbed /\ Latest' = Latest /\ Earliest' = Earliest
           /\ Poison' = Poison /\ SweptLast' = SweptLast
BY DEF Absorbed, Latest, Earliest, Poison, SweptLast

\* A delivery that meets the lock.
LEMMA DeferTimely ==
    ASSUME TInv, DeferForLock
    PROVE  TInv'
<1> DEFINE m == timing.maxDeliver
           n == delivery
<1>1. /\ UNCHANGED <<timing, died, lock, verdict, row, message>>
      /\ message = "queued" /\ due < lock /\ n < m /\ delivery' = n + 1
  BY DEF DeferForLock, Delivered
<1>2. PICK wait \in lockContentionNak(n) : due' = due + wait BY DEF DeferForLock
<1>3. /\ m \in Nat /\ died \in Nat /\ died >= 1 /\ n \in (died + 1) .. m
      /\ due \in Nat /\ lock \in Nat /\ lock <= timing.lockTtl /\ timing.lockTtl \in Nat
  BY StateNumbers DEF TInv
<1> HIDE DEF m, n
<1>4. n \in Nat \ {0} /\ n + 1 \in (died + 1) .. m /\ n + 1 # died + 1 BY <1>1, <1>3
<1>5. /\ wait \in Nat /\ wait <= Backoff(n) /\ Backoff(n) \in Nat
      /\ Min(lockContentionNak(n)) \in Nat /\ Min(lockContentionNak(n)) <= wait
  BY <1>4, NakBounds, BackoffBounds
<1>6. /\ Latest[n] \in Int /\ Latest[n + 1] = Latest[n] + Backoff(n)
      /\ Earliest[n] \in Int /\ Earliest[n + 1] = Earliest[n] + Min(lockContentionNak(n))
  <2>1. n + 1 <= m BY <1>3, <1>4
  <2> QED BY <1>3, <2>1, CurveStep DEF m
<1>7. Earliest[n] <= due /\ due <= Latest[n] BY DEF TInv, OnTheCurve, n
<1>8. /\ Absorbed' = Absorbed /\ Latest' = Latest /\ Earliest' = Earliest
      /\ Poison' = Poison /\ SweptLast' = SweptLast
  BY <1>1, Fixed
<1>9. due' \in Nat /\ delivery' \in (died + 1) .. m BY <1>1, <1>2, <1>3, <1>4, <1>5
<1>10. TypeOK' BY <1>1, <1>8, <1>9 DEF TInv, TypeOK, m
<1>11. OnTheCurve'
  <2>1. Earliest[n + 1] <= due' /\ due' <= Latest[n + 1] BY <1>2, <1>3, <1>5, <1>6, <1>7
  <2> QED BY <1>1, <1>8, <2>1 DEF OnTheCurve
<1>12. PutOff'
  <2>1. delivery' - 1 = n BY <1>1, <1>4
  <2>2. Earliest[n] < timing.lockTtl BY <1>1, <1>3, <1>6, <1>7
  <2> DEFINE i == Latest[n]
             j == timing.lockTtl - 1
  <2>3. i \in Int /\ j \in Int /\ due <= i /\ due <= j BY <1>1, <1>3, <1>6, <1>7
  <2> HIDE DEF i, j
  <2>4. Min({i, j}) \in Int /\ due <= Min({i, j}) BY <2>3, MinOfTwo
  <2>5. due' <= Min({i, j}) + Backoff(n) BY <1>2, <1>3, <1>5, <2>4
  <2> QED BY <1>1, <1>8, <2>1, <2>2, <2>5 DEF PutOff, i, j
<1>13. ReapedIsPastGuard'
  <2>1. Poison \in Int BY StateNumbers
  <2> QED BY <1>1, <1>4, <1>8, <2>1 DEF TInv, ReapedIsPastGuard, n
<1> QED BY <1>1, <1>8, <1>10, <1>11, <1>12, <1>13 DEF TInv, TakeoverIsNeverPreempted

\* The message and the row alone move.
LEMMA SettledTimely ==
    ASSUME TInv, UNCHANGED <<timing, died, lock, verdict, delivery, due>>,
           row' \in RowStates, message' \in MessageStates,
           ReapedIsPastGuard', Absorbed => message' # "stood_down"
    PROVE  TInv'
<1>1. /\ Absorbed' = Absorbed /\ Latest' = Latest /\ Earliest' = Earliest
      /\ Poison' = Poison /\ SweptLast' = SweptLast
  BY Fixed
<1> QED BY <1>1 DEF TInv, TypeOK, OnTheCurve, PutOff, TakeoverIsNeverPreempted

\* A delivery that finds the lock free: before the guard it finds a running row.
LEMMA TakeOverTimely ==
    ASSUME TInv, TakeOver
    PROVE  TInv'
<1>1. /\ UNCHANGED <<timing, died, lock, verdict, delivery, due>>
      /\ message = "queued" /\ delivery <= Poison
      /\ \/ row = "running" /\ row' = "resumed" /\ message' = "taken"
         \/ row # "running" /\ row' = row /\ message' = "stood_down"
  BY DEF TakeOver, Delivered
<1>2. Poison \in Int /\ delivery \in Int
  BY StateNumbers
<1>3. Absorbed => row = "running" BY <1>1, <1>2 DEF TInv, ReapedIsPastGuard
<1>4. row' \in RowStates /\ message' \in MessageStates
  BY <1>1 DEF TInv, TypeOK, RowStates, MessageStates
<1>5. message' # "queued" BY <1>1
<1> QED BY <1>1, <1>3, <1>4, <1>5, SettledTimely DEF ReapedIsPastGuard

\* The sweep: while the message is queued it comes later than any delivery before
\* the guard, the first by the check, the others because the backoff is absorbed.
LEMMA ReapTimely ==
    ASSUME TInv, Reap
    PROVE  TInv'
<1> DEFINE m == timing.maxDeliver
           n == delivery - 1
           worst == worstLockBlockedTakeover(timing.lockTtl, m)
<1>1. /\ UNCHANGED <<timing, died, lock, verdict, delivery, due, message>>
      /\ row' = "reaped" /\ row = "running"
      /\ message = "queued" => verdict < due
  BY DEF Reap
<1>2. ASSUME message = "queued", Absorbed, delivery <= Poison PROVE FALSE
  <2>1. /\ m \in 3 .. 100 /\ Poison = m - 1 /\ worst.at \in Int
        /\ poisonDeliveryOf(m) = m - 1 /\ died \in 1 .. (m - 2)
        /\ delivery \in (died + 1) .. m /\ due \in Nat /\ verdict \in Nat
        /\ ACK_WAIT \in Nat /\ TICK \in Nat /\ timing.lockTtl \in Nat
    BY StateNumbers
  <2>2. verdict > ACK_WAIT /\ verdict > worst.at + TICK BY DEF TInv, SweptLast
  <2> HIDE DEF m, n, worst
  <2>3. CASE delivery = died + 1
    <3>1. Latest[delivery] = ACK_WAIT BY <2>1, <2>3, CurveStep DEF m
    <3> QED BY <1>1, <1>2, <2>1, <2>2, <3>1 DEF TInv, OnTheCurve
  <2>4. CASE delivery > died + 1
    <3>1. n \in (died + 1) .. (m - 2) /\ n \in Nat \ {0} BY <1>2, <2>1, <2>4 DEF n
    <3> DEFINE i == Min({Latest[n], timing.lockTtl - 1})
    <3>2. Earliest[n] < timing.lockTtl /\ due <= i + Backoff(n)
      BY <2>4 DEF TInv, PutOff, n
    <3>3. i + Backoff(n) <= worst.at + TICK
      <4>1. died \in 1 .. (poisonDeliveryOf(m) - 1) /\ n \in (died + 1) .. (poisonDeliveryOf(m) - 1)
        BY <2>1, <3>1
      <4> QED BY <1>2, <3>2, <4>1 DEF Absorbed, JitterIsAbsorbed, Latest, Earliest, worst, m
    <3>4. i + Backoff(n) \in Int
      <4>1. n \in (died + 1) .. m BY <2>1, <3>1
      <4>9. Latest[n] \in Int BY <4>1, CurveStep DEF m
      <4> DEFINE x == Latest[n]
                 y == timing.lockTtl - 1
      <4>2. x \in Int /\ y \in Int BY <2>1, <4>9
      <4> HIDE DEF x, y
      <4>3. Min({x, y}) \in Int BY <4>2, MinOfTwo
      <4> QED BY <3>1, <4>3, BackoffBounds DEF x, y
    <3> HIDE DEF i
    <3> QED BY <1>1, <1>2, <2>1, <2>2, <3>2, <3>3, <3>4
  <2> QED BY <2>1, <2>3, <2>4
<1>3. Poison \in Int /\ delivery \in Int
  BY StateNumbers
<1>4. Absorbed' = Absorbed /\ Poison' = Poison BY <1>1, Fixed
<1>5. ReapedIsPastGuard' BY <1>1, <1>2, <1>3, <1>4 DEF ReapedIsPastGuard
<1>6. row' \in RowStates /\ message' \in MessageStates /\ (Absorbed => message' # "stood_down")
  BY <1>1 DEF TInv, TypeOK, RowStates, TakeoverIsNeverPreempted
<1> QED BY <1>1, <1>5, <1>6, SettledTimely

\* Every step keeps the invariant.
LEMMA NextTimely == TInv /\ [Next]_vars => TInv'
<1> SUFFICES ASSUME TInv, [Next]_vars PROVE TInv' OBVIOUS
<1>1. CASE DeferForLock BY <1>1, DeferTimely
<1>2. CASE LeaveUnsettled
  <2>1. /\ UNCHANGED <<timing, died, lock, verdict, delivery, due, row>>
        /\ message' = "dropped"
    BY <1>2 DEF LeaveUnsettled, Delivered
  <2>2. row' \in RowStates /\ message' \in MessageStates BY <2>1 DEF TInv, TypeOK, MessageStates
  <2> QED BY <2>1, <2>2, SettledTimely DEF ReapedIsPastGuard
<1>3. CASE TakeOver BY <1>3, TakeOverTimely
<1>4. CASE ResolvePoisoned
  <2>1. /\ UNCHANGED <<timing, died, lock, verdict, delivery, due>>
        /\ message' = "resolved" /\ row' \in {row, "resolved"}
    BY <1>4 DEF ResolvePoisoned, Delivered
  <2>2. row' \in RowStates /\ message' \in MessageStates
    BY <2>1 DEF TInv, TypeOK, RowStates, MessageStates
  <2> QED BY <2>1, <2>2, SettledTimely DEF ReapedIsPastGuard
<1>5. CASE Reap BY <1>5, ReapTimely
<1>6. CASE UNCHANGED vars
  <2>1. UNCHANGED <<timing, died, lock, verdict, delivery, due, row, message>> BY <1>6 DEF vars
  <2>2. Absorbed' = Absorbed /\ Poison' = Poison BY <2>1, Fixed
  <2>3. ReapedIsPastGuard' BY <2>1, <2>2 DEF TInv, ReapedIsPastGuard
  <2>4. row' \in RowStates /\ message' \in MessageStates /\ (Absorbed => message' # "stood_down")
    BY <2>1 DEF TInv, TypeOK, TakeoverIsNeverPreempted
  <2> QED BY <2>1, <2>3, <2>4, SettledTimely
<1> QED BY <1>1, <1>2, <1>3, <1>4, <1>5, <1>6 DEF Next

-----------------------------------------------------------------------------
(* The theorems.                                                           *)

\* The invariant, for every accepted setting.
THEOREM TimingInvariance == Spec => []TInv
BY InitTimely, NextTimely, PTL DEF Spec

\* The state of the race is well formed; in particular no delivery goes past the
\* redelivery ceiling (TypeOK of LeaseTiming; deferForLockContention).
THEOREM TypesHold == Spec => []TypeOK
<1>1. TInv => TypeOK BY DEF TInv
<1> QED BY <1>1, TimingInvariance, PTL

\* Where shortened backoffs are absorbed, the reaper never closes a run that a
\* redelivery could still resume (resolveLeaseReapGraceSec, reapLostLeases).
THEOREM TakeoverComesFirst ==
    Spec => [](JitterIsAbsorbed(timing.lockTtl, timing.maxDeliver) => TakeoverIsNeverPreempted)
<1>1. TInv => (JitterIsAbsorbed(timing.lockTtl, timing.maxDeliver) => TakeoverIsNeverPreempted)
  BY DEF TInv, Absorbed
<1> QED BY <1>1, TimingInvariance, PTL

\* No redelivery comes before the ack wait, less one progress interval.
LEMMA EarliestAfterAckWait ==
    ASSUME NEW d \in Nat, NEW m \in Nat, NEW n \in (d + 1) .. m
    PROVE  EarliestAt(d, m)[n] >= ACK_WAIT - PROGRESS
<1> DEFINE at == EarliestAt(d, m)
           base == ACK_WAIT - PROGRESS
           Bad == {k \in (d + 1) .. m : ~ (at[k] >= base)}
<1>1. /\ at \in [(d + 1) .. m -> Int]
      /\ \A k \in (d + 1) .. m :
            at[k] = IF k = d + 1 THEN base ELSE at[k - 1] + Min(lockContentionNak(k - 1))
  BY EarliestAtUnfolds
<1>2. base \in Int BY TimingAssumption
<1> HIDE DEF at, base
<1>3. ASSUME NEW b \in Bad, \A k \in Bad : b <= k PROVE FALSE
  <2>1. b \in (d + 1) .. m /\ b \in Nat OBVIOUS
  <2>2. b # d + 1 BY <1>1, <1>2, <2>1
  <2>3. b - 1 \in (d + 1) .. m /\ b - 1 \in Nat \ {0} /\ ~ (b <= b - 1) BY <2>1, <2>2
  <2>4. b - 1 \notin Bad
    <3> HIDE DEF Bad
    <3> QED BY <1>3, <2>3
  <2>5. at[b - 1] \in Int /\ at[b - 1] >= base BY <1>1, <2>3, <2>4
  <2>6. Min(lockContentionNak(b - 1)) \in Nat BY <2>3, NakBounds
  <2>7. at[b] = at[b - 1] + Min(lockContentionNak(b - 1)) BY <1>1, <2>1, <2>2
  <2> QED BY <1>2, <2>5, <2>6, <2>7
<1>4. Bad = {}
  <2>1. Bad \in SUBSET Nat OBVIOUS
  <2> HIDE DEF Bad
  <2> QED BY <1>3, <2>1, LeastNatural
<1> QED BY <1>4 DEF at, base

\* Shortened backoffs are absorbed when the lock expires before the first redelivery
\* can come, and when a sweeper tick is as long as the longest backoff (run-lease.ts,
\* runLeaseTimingProblems, asks for neither).
THEOREM SettingsThatAbsorb ==
    ASSUME NEW t \in Timings,
           t.lockTtl <= ACK_WAIT - PROGRESS \/ NAK_CEILING <= TICK + 1
    PROVE  JitterIsAbsorbed(t.lockTtl, t.maxDeliver)
<1> DEFINE ttl == t.lockTtl
           m == t.maxDeliver
           worst == worstLockBlockedTakeover(ttl, m)
<1>1. /\ m \in 3 .. 100 /\ poisonDeliveryOf(m) = m - 1 /\ worst.at \in Int /\ ttl \in Nat
      /\ ACK_WAIT - PROGRESS \in Int /\ TICK \in Nat /\ NAK_CEILING \in Nat
  <2>1. /\ m \in 3 .. 100 /\ poisonDeliveryOf(m) = m - 1 /\ worst.at \in Int
        /\ t \in [lockTtl : LockTtls, maxDeliver : Nat, grace : Nat]
    BY AcceptedTiming
  <2>2. /\ ttl \in Nat /\ ACK_WAIT \in Nat /\ PROGRESS \in Int /\ TICK \in Nat
        /\ NAK_CEILING \in Nat
    <3>1. ttl \in LockTtls BY <2>1
    <3>2. ttl \in Nat BY <3>1, TimingAssumption
    <3>3. ACK_WAIT \in Nat /\ TICK \in Nat /\ NAK_CEILING \in Nat BY TimingAssumption
    <3>4. PROGRESS \in Int BY <3>3, TimingAssumption
    <3> QED BY <3>2, <3>3, <3>4
  <2> QED BY <2>1, <2>2
<1>2. worst.at >= ttl
  <2>1. PICK d \in 1 .. (m - 2) : worst = resolveLockBlockedTakeover(ttl, m, d)
    BY <1>1, WorstIsOne
  <2>2. worst.reachable BY DEF Timings, TimingAccepted
  <2> HIDE DEF worst
  <2>3. worst.reachable => worst.at >= ttl BY <2>1, Zenon DEF resolveLockBlockedTakeover
  <2> QED BY <2>2, <2>3
<1> HIDE DEF ttl, m, worst
<1>3. ASSUME NEW d \in 1 .. (m - 2), NEW n \in (d + 1) .. (m - 2), EarliestAt(d, m)[n] < ttl
      PROVE  Min({AttemptAt(d, m)[n], ttl - 1}) + Backoff(n) <= worst.at + TICK
  <2>1. d \in Nat /\ m \in Nat /\ n \in (d + 1) .. m /\ n \in Nat \ {0} BY <1>1
  <2>2. ~ (ttl <= ACK_WAIT - PROGRESS)
    <3>1. EarliestAt(d, m)[n] >= ACK_WAIT - PROGRESS BY <2>1, EarliestAfterAckWait
    <3>2. EarliestAt(d, m)[n] \in Int BY <2>1, EarliestAtUnfolds
    <3> QED BY <1>1, <1>3, <3>1, <3>2
  <2>3. NAK_CEILING <= TICK + 1 BY <2>2 DEF ttl
  <2>4. Backoff(n) \in Nat /\ Backoff(n) <= NAK_CEILING BY <2>1, BackoffBounds
  <2> DEFINE x == AttemptAt(d, m)[n]
             y == ttl - 1
  <2>5. x \in Int /\ y \in Int BY <1>1, <2>1, AttemptAtUnfolds
  <2> HIDE DEF x
  <2>6. Min({x, y}) \in Int /\ Min({x, y}) <= y
    <3> HIDE DEF y
    <3> QED BY <2>5, MinOfTwo
  <2> DEFINE z == Min({x, y})
  <2>7. z \in Int /\ z <= ttl - 1 BY <2>6
  <2> HIDE DEF z
  <2>8. z + Backoff(n) <= worst.at + TICK BY <1>1, <1>2, <2>3, <2>4, <2>7
  <2> QED BY <2>8 DEF x, z
<1>4. poisonDeliveryOf(m) - 1 = m - 2 BY <1>1
<1> QED BY <1>3, <1>4 DEF JitterIsAbsorbed, ttl, m, worst
=============================================================================
