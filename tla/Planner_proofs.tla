--------------------------- MODULE Planner_proofs ---------------------------
(***************************************************************************)
(* What holds of the two places of the API service that give containers to *)
(* bookings: the planning engine (module Planner), for any network,         *)
(* voyages, bookings, seed and number of runs, and the container desk      *)
(* (module ContainerDesk), for any boxes, assignments and requests.        *)
(***************************************************************************)
EXTENDS Planner, ContainerDesk, Sums

-----------------------------------------------------------------------------
(***************************************************************************)
(* The planning engine                                                     *)
(***************************************************************************)

-----------------------------------------------------------------------------
(***************************************************************************)
(* Plans                                                                   *)
(***************************************************************************)

LEMMA ZeroOrMore == \A n \in Int : NotBelowZero(n) \in Nat /\ NotBelowZero(n) >= n
BY DEF NotBelowZero

\* No period is after the last one.
LEMMA PeriodsEnd ==
    ASSUME now \in Int, NEW t \in Int
    PROVE  Period(t) \in Int /\ Period(t) <= Periods - 1
<1>1. Week \in Nat \ {0} /\ Periods \in Nat \ {0}
  BY PlannerAssumption
<1>2. (t - now) \div Week \in Int
  BY <1>1
<1>3. QED
  BY <1>1, <1>2 DEF Period, AtMost

\* Candidates are voyages that have not left.
LEMMA CandidatesAreAhead ==
    ASSUME now \in Nat, NEW b \in Bookings
    PROVE  Candidates(b) \subseteq Ahead
<1>1. Week \in Nat /\ Departure \in [Voyages -> Nat]
  BY PlannerAssumption
<1>2. QED
  BY <1>1 DEF Candidates, Ahead

\* The containers of a booking that a plan has on a candidate voyage.
LEMMA SharesAreNumbers ==
    ASSUME NEW plan \in Plans, NEW b \in Optimizable, NEW v \in Candidates(b)
    PROVE  /\ plan.booked[b][v].own \in Nat /\ plan.booked[b][v].lease \in Nat
           /\ UnitsOn(plan, <<b, v>>)
                = plan.booked[b][v].own + plan.booked[b][v].lease
<1>1. plan.booked \in Bookable
  BY DEF Plans
<1>2. plan.booked[b] \in Shares(b)
  BY <1>1 DEF Bookable
<1>3. plan.booked[b][v] \in [own : 0..Quantity[b], lease : 0..Quantity[b]]
  BY <1>2 DEF Shares
<1>4. QED
  BY <1>3 DEF UnitsOn

LEMMA CarriagesAre ==
    ASSUME NEW plan \in Plans
    PROVE  /\ IsFiniteSet(Carriages(plan))
           /\ \A b \in Optimizable : \A v \in Candidates(b) : <<b, v>> \in Carriages(plan)
           /\ \A c \in Carriages(plan) :
                 /\ c[1] \in Optimizable /\ c[2] \in Candidates(c[1])
                 /\ c = <<c[1], c[2]>>
<1>1. plan.booked \in Bookable
  BY DEF Plans
<1>2. DOMAIN plan.booked = Optimizable
  BY <1>1 DEF Bookable
<1>3. \A b \in Optimizable : DOMAIN plan.booked[b] = Candidates(b)
  BY <1>1 DEF Bookable, Shares
<1>4. /\ \A b \in Optimizable : \A v \in Candidates(b) : <<b, v>> \in Carriages(plan)
      /\ \A c \in Carriages(plan) :
            c[1] \in Optimizable /\ c[2] \in Candidates(c[1]) /\ c = <<c[1], c[2]>>
  BY <1>2, <1>3 DEF Carriages
<1>5. Carriages(plan) \subseteq Bookings \X Voyages
  BY <1>4 DEF Optimizable, Candidates
<1>6. IsFiniteSet(Bookings \X Voyages)
  BY PlannerAssumption, FS_Product
<1>7. IsFiniteSet(Carriages(plan))
  BY <1>5, <1>6, FS_Subset
<1>8. QED
  BY <1>4, <1>7

\* What a plan moves and orders.
LEMMA MovesAreNumbers ==
    ASSUME NEW plan \in Plans
    PROVE  /\ plan.moved \in [Ahead -> [Types -> Nat]]
           /\ \A k \in Pools : OrderedAt(plan, k) \in Nat
<1>1. /\ plan.moved \in [Ahead -> [Types -> 0..Max({Surplus(k) : k \in Pools} \union {0})]]
      /\ plan.ordered \in [LeasePools -> 0..MaxLease]
  BY DEF Plans, Movable, Orders
<1>2. \A n : \A i \in 0..n : i \in Nat
  OBVIOUS
<1>3. QED
  BY <1>1, <1>2 DEF OrderedAt

\* The voyage a served booking gets is one the plan has it on.
LEMMA TakenIsUsed ==
    ASSUME now \in Nat, NEW plan \in Plans, NEW b \in Served(plan)
    PROVE  /\ b \in Optimizable
           /\ Taken(plan, b) \in Candidates(b)
           /\ \A v \in Used(plan, b) : Departure[Taken(plan, b)] <= Departure[v]
<1>1. /\ b \in Optimizable /\ b \in Bookings /\ Used(plan, b) # {}
      /\ Used(plan, b) \subseteq Candidates(b) /\ Candidates(b) \subseteq Voyages
  BY DEF Served, Optimizable, Used, Candidates
<1>2. IsFiniteSet(Used(plan, b)) /\ \A v \in Used(plan, b) : Departure[v] \in Int
  BY <1>1, PlannerAssumption, FS_Subset
<1>3. \E v \in Used(plan, b) : \A w \in Used(plan, b) : Departure[v] <= Departure[w]
  BY <1>1, <1>2, LeastExists
<1>4. /\ Taken(plan, b) \in Used(plan, b)
      /\ \A w \in Used(plan, b) : Departure[Taken(plan, b)] <= Departure[w]
  BY <1>3 DEF Taken
<1>5. QED
  BY <1>1, <1>4

-----------------------------------------------------------------------------
(***************************************************************************)
(* Sums over the bookings a plan serves. Each of them is one of the sums   *)
(* the constraints bound, less what the plan has on later voyages.         *)
(***************************************************************************)

LEMMA ServedAreFinite ==
    ASSUME NEW plan \in Plans
    PROVE  /\ Served(plan) \subseteq Bookings
           /\ IsFiniteSet(Served(plan))
           /\ \A k : IsFiniteSet(ServedFrom(plan, k))
<1>1. Served(plan) \subseteq Bookings
  BY DEF Served, Optimizable
<1>2. \A k : ServedFrom(plan, k) \subseteq Bookings
  BY <1>1 DEF ServedFrom
<1>3. QED
  BY <1>1, <1>2, PlannerAssumption, FS_Subset

\* Served bookings are carriages, on the voyage they get.
LEMMA ServedAreCarried ==
    ASSUME now \in Nat, NEW plan \in Plans, NEW S \in SUBSET Served(plan)
    PROVE  LET m == [b \in S |-> <<b, Taken(plan, b)>>]
           IN  /\ m \in [S -> Carriages(plan)]
               /\ \A b, e \in S : m[b] = m[e] => b = e
               /\ \A b \in S : m[b][1] = b /\ m[b][2] = Taken(plan, b)
<1>1. \A b \in S : <<b, Taken(plan, b)>> \in Carriages(plan)
  BY TakenIsUsed, CarriagesAre
<1>2. QED
  BY <1>1

LEMMA OwnAndLeaseAreNumbers ==
    ASSUME now \in Nat, NEW plan \in Plans, NEW k
    PROVE  OwnFrom(plan, k) \in Nat /\ LeaseFrom(plan, k) \in Nat
<1> DEFINE S == ServedFrom(plan, k)
<1>1. \A b \in S : OwnOf(plan, b) \in Nat /\ LeaseOf(plan, b) \in Nat
  BY TakenIsUsed, SharesAreNumbers DEF ServedFrom, OwnOf, LeaseOf
<1>2. IsFiniteSet(S)
  BY ServedAreFinite
<1> HIDE DEF S
<1>3. /\ [b \in S |-> OwnOf(plan, b)] \in [S -> Nat]
      /\ [b \in S |-> LeaseOf(plan, b)] \in [S -> Nat]
  BY <1>1
<1>4. /\ SumFunction([b \in S |-> OwnOf(plan, b)]) \in Nat
      /\ SumFunction([b \in S |-> LeaseOf(plan, b)]) \in Nat
  BY <1>2, <1>3, TotalIsNat
<1>5. QED
  BY <1>4 DEF S, OwnFrom, LeaseFrom

\* The leased containers of a pool's bookings were ordered in this run.
LEMMA LeasesAreOrdered ==
    ASSUME now \in Nat, NEW plan \in Plans, NEW k \in Pools
    PROVE  LeaseFrom(plan, k) <= OrderedAt(plan, k)
<1> DEFINE S == ServedFrom(plan, k)
           T == {c \in Carriages(plan) : PoolOf(c[1]) = k}
           f == [b \in S |-> LeaseOf(plan, b)]
           g == [c \in T |-> plan.booked[c[1]][c[2]].lease]
           m == [b \in S |-> <<b, Taken(plan, b)>>]
<1>1. S \in SUBSET Served(plan)
  BY DEF ServedFrom
<1>2. /\ m \in [S -> Carriages(plan)]
      /\ \A b, e \in S : m[b] = m[e] => b = e
      /\ \A b \in S : m[b][1] = b /\ m[b][2] = Taken(plan, b)
  BY <1>1, ServedAreCarried
<1>3. IsFiniteSet(S) /\ IsFiniteSet(T)
  BY ServedAreFinite, CarriagesAre, FS_Subset
<1>4. f \in [S -> Nat]
  BY TakenIsUsed, SharesAreNumbers DEF ServedFrom, LeaseOf
<1>5. g \in [T -> Nat]
  BY CarriagesAre, SharesAreNumbers
<1>6. \A b \in S : PoolOf(b) = k
  BY DEF ServedFrom
<1> HIDE DEF m
<1>7. m \in [S -> T]
  BY <1>2, <1>6
<1>8. \A b \in S : f[b] <= g[m[b]]
  <2> SUFFICES ASSUME NEW b \in S PROVE f[b] <= g[m[b]]
    OBVIOUS
  <2>1. m[b] \in T /\ m[b][1] = b /\ m[b][2] = Taken(plan, b)
    BY <1>2, <1>7
  <2>2. g[m[b]] = plan.booked[b][Taken(plan, b)].lease
    BY <2>1
  <2>3. f[b] = plan.booked[b][Taken(plan, b)].lease /\ f[b] \in Nat
    BY <1>4 DEF LeaseOf
  <2> HIDE DEF f, g
  <2>4. QED
    BY <2>2, <2>3
<1>9. SumFunction(g) <= OrderedAt(plan, k)
  BY DEF Plans, Feasible, LeasesLinked
<1>10. LeaseFrom(plan, k) = SumFunction(f)
  BY DEF LeaseFrom
<1> HIDE DEF f, g, S, T
<1>11. SumFunction(f) <= SumFunction(g)
  BY <1>2, <1>3, <1>4, <1>5, <1>7, <1>8, TotalInjected
<1>12. /\ SumFunction(f) \in Nat /\ SumFunction(g) \in Nat
       /\ OrderedAt(plan, k) \in Nat
  BY <1>3, <1>4, <1>5, TotalIsNat, MovesAreNumbers
<1>13. QED
  BY <1>9, <1>10, <1>11, <1>12

\* What is taken off the balance for moves.
LEMMA MovedIsNumber ==
    ASSUME NEW plan \in Plans, NEW k \in Pools
    PROVE  MovedFrom(plan.moved, k) \in Nat
<1> DEFINE S == {v \in DOMAIN plan.moved : From[v] = k[1]}
           f == [v \in S |-> plan.moved[v][k[2]]]
<1>1. plan.moved \in [Ahead -> [Types -> Nat]] /\ k[2] \in Types
  BY MovesAreNumbers DEF Pools
<1>2. f \in [S -> Nat]
  BY <1>1
<1>3. S \subseteq Voyages
  BY <1>1 DEF Ahead
<1>4. IsFiniteSet(S)
  BY <1>3, PlannerAssumption, FS_Subset
<1> HIDE DEF f, S
<1>5. SumFunction(f) \in Nat
  BY <1>2, <1>4, TotalIsNat
<1>6. QED
  BY <1>5 DEF MovedFrom, f, S

\* A booking's own containers leave in some week, and so with the last one.
LEMMA OwnLeaves ==
    ASSUME now \in Nat, NEW plan \in Plans, NEW k \in Pools
    PROVE  /\ Outflow(plan, k, Periods - 1) \in Nat
           /\ OwnFrom(plan, k) <= Outflow(plan, k, Periods - 1)
<1> DEFINE S == ServedFrom(plan, k)
           T == {c \in Carriages(plan) :
                   PoolOf(c[1]) = k /\ Period(Departure[c[2]]) <= Periods - 1}
           f == [b \in S |-> OwnOf(plan, b)]
           g == [c \in T |-> plan.booked[c[1]][c[2]].own]
           m == [b \in S |-> <<b, Taken(plan, b)>>]
           U == {v \in DOMAIN plan.moved :
                   From[v] = k[1] /\ Period(Departure[v]) <= Periods - 1}
           h == [v \in U |-> plan.moved[v][k[2]]]
<1>1. S \in SUBSET Served(plan)
  BY DEF ServedFrom
<1>2. /\ m \in [S -> Carriages(plan)]
      /\ \A b, e \in S : m[b] = m[e] => b = e
      /\ \A b \in S : m[b][1] = b /\ m[b][2] = Taken(plan, b)
  BY <1>1, ServedAreCarried
<1>3. IsFiniteSet(S) /\ IsFiniteSet(T)
  BY ServedAreFinite, CarriagesAre, FS_Subset
<1>4. f \in [S -> Nat]
  BY TakenIsUsed, SharesAreNumbers DEF ServedFrom, OwnOf
<1>5. g \in [T -> Nat]
  BY CarriagesAre, SharesAreNumbers
<1>6. \A b \in S : PoolOf(b) = k /\ Period(Departure[Taken(plan, b)]) <= Periods - 1
  <2> SUFFICES ASSUME NEW b \in S
               PROVE PoolOf(b) = k /\ Period(Departure[Taken(plan, b)]) <= Periods - 1
    OBVIOUS
  <2>1. PoolOf(b) = k /\ b \in Served(plan)
    BY DEF ServedFrom
  <2>2. Taken(plan, b) \in Voyages
    BY <2>1, TakenIsUsed DEF Candidates
  <2>3. Departure[Taken(plan, b)] \in Int
    BY <2>2, PlannerAssumption
  <2>4. QED
    BY <2>1, <2>3, PeriodsEnd
<1> HIDE DEF m
<1>7. m \in [S -> T]
  <2>1. \A b \in S : m[b] \in T
    BY <1>2, <1>6
  <2>2. QED
    BY <1>2, <2>1
<1>8. \A b \in S : f[b] <= g[m[b]]
  <2> SUFFICES ASSUME NEW b \in S PROVE f[b] <= g[m[b]]
    OBVIOUS
  <2>1. m[b] \in T /\ m[b][1] = b /\ m[b][2] = Taken(plan, b)
    BY <1>2, <1>7
  <2>2. g[m[b]] = plan.booked[b][Taken(plan, b)].own
    BY <2>1
  <2>3. f[b] = plan.booked[b][Taken(plan, b)].own /\ f[b] \in Nat
    BY <1>4 DEF OwnOf
  <2> HIDE DEF f, g
  <2>4. QED
    BY <2>2, <2>3
<1>9. Outflow(plan, k, Periods - 1) = SumFunction(g) + SumFunction(h)
  BY DEF Outflow
<1>10. OwnFrom(plan, k) = SumFunction(f)
  BY DEF OwnFrom
<1>11. SumFunction(h) \in Nat
  <2>1. plan.moved \in [Ahead -> [Types -> Nat]] /\ k[2] \in Types
    BY MovesAreNumbers DEF Pools
  <2>2. h \in [U -> Nat] /\ U \subseteq Voyages
    BY <2>1 DEF Ahead
  <2>3. IsFiniteSet(U)
    BY <2>2, PlannerAssumption, FS_Subset
  <2> HIDE DEF h, U
  <2>4. QED
    BY <2>2, <2>3, TotalIsNat
<1> HIDE DEF f, g, h, S, T, U
<1>12. SumFunction(f) <= SumFunction(g)
  BY <1>2, <1>3, <1>4, <1>5, <1>7, <1>8, TotalInjected
<1>13. SumFunction(f) \in Nat /\ SumFunction(g) \in Nat
  BY <1>3, <1>4, <1>5, TotalIsNat
<1>14. QED
  BY <1>9, <1>10, <1>11, <1>12, <1>13

\* The moves to a pool that a run orders, some of which arrive in time.
Ordered(plan, k) ==
    SumFunction([v \in {v \in Voyages : To[v] = k[1]}
                 |-> IF v \in Ahead THEN plan.moved[v][k[2]] ELSE 0])

LEMMA InflowIsOrdered ==
    ASSUME NEW plan \in Plans, NEW k \in Pools, NEW week
    PROVE  /\ Ordered(plan, k) \in Nat
           /\ Inflow(plan, k, week) \in Nat
           /\ Inflow(plan, k, week) <= Ordered(plan, k)
<1> DEFINE S == {v \in DOMAIN plan.moved : To[v] = k[1] /\ Period(Arrival[v]) <= week}
           T == {v \in Voyages : To[v] = k[1]}
           f == [v \in S |-> plan.moved[v][k[2]]]
           g == [v \in T |-> IF v \in Ahead THEN plan.moved[v][k[2]] ELSE 0]
<1>1. plan.moved \in [Ahead -> [Types -> Nat]] /\ k[2] \in Types
  BY MovesAreNumbers DEF Pools
<1>2. S \in SUBSET T /\ \A v \in S : v \in Ahead
  BY <1>1 DEF Ahead
<1>3. IsFiniteSet(T) /\ IsFiniteSet(S)
  BY <1>2, PlannerAssumption, FS_Subset
<1>4. f \in [S -> Nat] /\ g \in [T -> Nat]
  BY <1>1
<1>5. \A v \in S : f[v] <= g[v]
  BY <1>1, <1>2
<1>6. Inflow(plan, k, week) = SumFunction(f) /\ Ordered(plan, k) = SumFunction(g)
  BY DEF Inflow, Ordered
<1> HIDE DEF f, g, S, T
<1>7. SumFunction(f) <= SumFunction(g)
  BY <1>2, <1>3, <1>4, <1>5, TotalIsMonotone
<1>8. SumFunction(f) \in Nat /\ SumFunction(g) \in Nat
  BY <1>3, <1>4, TotalIsNat
<1>9. QED
  BY <1>6, <1>7, <1>8

\* More is taken than there is only so far as moves make up for it.
LEMMA OwnIsThereOrMoved ==
    ASSUME now \in Nat, NEW plan \in Plans, NEW k \in Pools, empty[k] \in Nat
    PROVE  OwnFrom(plan, k) <= empty[k] + Ordered(plan, k)
<1>1. Periods - 1 \in 0..(Periods - 1)
  BY PlannerAssumption
<1>2. empty[k] + Inflow(plan, k, Periods - 1) >= Outflow(plan, k, Periods - 1)
  BY <1>1 DEF Plans, Feasible, FlowConserved
<1>3. OwnFrom(plan, k) <= Outflow(plan, k, Periods - 1)
  BY OwnLeaves
<1>4. /\ Inflow(plan, k, Periods - 1) \in Nat /\ Ordered(plan, k) \in Nat
      /\ Inflow(plan, k, Periods - 1) <= Ordered(plan, k)
  BY InflowIsOrdered
<1>5. OwnFrom(plan, k) \in Nat
  BY OwnAndLeaseAreNumbers
<1>6. Outflow(plan, k, Periods - 1) \in Nat
  BY OwnLeaves
<1>7. QED
  BY <1>2, <1>3, <1>4, <1>5, <1>6

\* What a run books on a voyage.
Booked(plan, v) ==
    SumFunction([b \in {b \in Served(plan) : Taken(plan, b) = v}
                 |-> TeuOf(b) * (OwnOf(plan, b) + LeaseOf(plan, b))])

\* It is part of what the plan has there, and nothing on voyages that have left.
LEMMA BookedIsPlanned ==
    ASSUME now \in Nat, NEW plan \in Plans, NEW v \in Voyages
    PROVE  /\ Booked(plan, v) \in Nat
           /\ v \notin Ahead => Booked(plan, v) = 0
           /\ TeuBooked(plan, v) \in Nat
           /\ Booked(plan, v) <= TeuBooked(plan, v)
<1> DEFINE S == {b \in Served(plan) : Taken(plan, b) = v}
           T == {c \in Carriages(plan) : c[2] = v}
           f == [b \in S |-> TeuOf(b) * (OwnOf(plan, b) + LeaseOf(plan, b))]
           g == [c \in T |-> TeuOf(c[1]) * UnitsOn(plan, c)]
           m == [b \in S |-> <<b, Taken(plan, b)>>]
<1>1. S \in SUBSET Served(plan)
  OBVIOUS
<1>2. /\ m \in [S -> Carriages(plan)]
      /\ \A b, e \in S : m[b] = m[e] => b = e
      /\ \A b \in S : m[b][1] = b /\ m[b][2] = Taken(plan, b)
  BY <1>1, ServedAreCarried
<1>3. IsFiniteSet(S) /\ IsFiniteSet(T)
  BY ServedAreFinite, CarriagesAre, FS_Subset
<1>4. \A b \in Bookings : TeuOf(b) \in Nat
  BY PlannerAssumption DEF TeuOf
<1>5. \A b \in S : /\ f[b] = TeuOf(b) * (OwnOf(plan, b) + LeaseOf(plan, b))
                   /\ f[b] \in Nat
                   /\ OwnOf(plan, b) + LeaseOf(plan, b) = UnitsOn(plan, <<b, v>>)
  <2> SUFFICES ASSUME NEW b \in S
               PROVE  /\ f[b] = TeuOf(b) * (OwnOf(plan, b) + LeaseOf(plan, b))
                      /\ f[b] \in Nat
                      /\ OwnOf(plan, b) + LeaseOf(plan, b) = UnitsOn(plan, <<b, v>>)
    OBVIOUS
  <2>1. b \in Served(plan) /\ Taken(plan, b) = v /\ b \in Bookings
    BY ServedAreFinite
  <2>2. b \in Optimizable /\ v \in Candidates(b)
    BY <2>1, TakenIsUsed
  <2>3. /\ OwnOf(plan, b) \in Nat /\ LeaseOf(plan, b) \in Nat
        /\ OwnOf(plan, b) + LeaseOf(plan, b) = UnitsOn(plan, <<b, v>>)
    BY <2>1, <2>2, SharesAreNumbers DEF OwnOf, LeaseOf
  <2>4. TeuOf(b) \in Nat
    BY <1>4, <2>1
  <2>5. QED
    BY <2>3, <2>4
<1>6. g \in [T -> Nat]
  <2> SUFFICES ASSUME NEW c \in T PROVE TeuOf(c[1]) * UnitsOn(plan, c) \in Nat
    OBVIOUS
  <2>1. c[1] \in Optimizable /\ c[2] \in Candidates(c[1]) /\ c = <<c[1], c[2]>>
    BY CarriagesAre
  <2>2. UnitsOn(plan, <<c[1], c[2]>>) \in Nat
    BY <2>1, SharesAreNumbers
  <2>3. UnitsOn(plan, c) \in Nat /\ TeuOf(c[1]) \in Nat
    BY <1>4, <2>1, <2>2 DEF Optimizable
  <2>4. QED
    BY <2>3
<1> HIDE DEF m
<1>7. m \in [S -> T]
  <2>1. \A b \in S : m[b] \in T
    BY <1>2
  <2>2. QED
    BY <1>2, <2>1
<1>8. \A b \in S : f[b] <= g[m[b]]
  <2> SUFFICES ASSUME NEW b \in S PROVE f[b] <= g[m[b]]
    OBVIOUS
  <2>1. m[b] \in T /\ m[b][1] = b /\ m[b] = <<b, v>>
    BY <1>7 DEF m
  <2>2. g[m[b]] = TeuOf(b) * UnitsOn(plan, <<b, v>>)
    BY <2>1
  <2>3. f[b] = g[m[b]] /\ f[b] \in Nat
    BY <1>5, <2>2
  <2> HIDE DEF f, g
  <2>4. QED
    BY <2>3
<1>9. TeuBooked(plan, v) = SumFunction(g) /\ Booked(plan, v) = SumFunction(f)
  BY DEF TeuBooked, Booked
<1>10. v \notin Ahead => S = {}
  BY TakenIsUsed, CandidatesAreAhead, ServedAreFinite
<1>11. DOMAIN f = S /\ f \in [S -> Nat]
  BY <1>5
<1> HIDE DEF f, g, S, T
<1>12. SumFunction(f) <= SumFunction(g)
  BY <1>2, <1>3, <1>6, <1>7, <1>8, <1>11, TotalInjected
<1>13. SumFunction(f) \in Nat /\ SumFunction(g) \in Nat
  BY <1>3, <1>6, <1>11, TotalIsNat
<1>14. v \notin Ahead => SumFunction(f) = 0
  BY <1>10, <1>11, TotalOfNothing
<1>15. QED
  BY <1>9, <1>12, <1>13, <1>14

-----------------------------------------------------------------------------
(***************************************************************************)
(* The books of the stock                                                  *)
(***************************************************************************)

PlannerInv ==
    /\ now \in Nat
    /\ StockIsSound
    /\ MissingBoxesAreMoved

\* What has been ordered to be moved to a pool
MovedTo(k) ==
    SumFunction([v \in {v \in Voyages : To[v] = k[1]} |-> moves[v][k[2]]])

LEMMA MovedToIsNumber ==
    ASSUME moves \in [Voyages -> [Types -> Nat]], NEW k \in Pools
    PROVE  MovedTo(k) \in Nat
<1> DEFINE S == {v \in Voyages : To[v] = k[1]}
           f == [v \in S |-> moves[v][k[2]]]
<1>1. IsFiniteSet(S)
  BY PlannerAssumption, FS_Subset
<1>2. f \in [S -> Nat]
  BY DEF Pools
<1> HIDE DEF f, S
<1>3. SumFunction(f) \in Nat
  BY <1>1, <1>2, TotalIsNat
<1>4. QED
  BY <1>3 DEF MovedTo, f, S

\* The number of containers seeded in a pool
LEMMA SeededIsNumber ==
    \A P : Cardinality({i \in 1..Empties : i \in P}) \in 0..Empties
<1> SUFFICES ASSUME NEW P
             PROVE  Cardinality({i \in 1..Empties : i \in P}) \in 0..Empties
  OBVIOUS
<1> DEFINE S == {i \in 1..Empties : i \in P}
<1>1. Empties \in Nat
  BY PlannerAssumption
<1>2. IsFiniteSet(1..Empties) /\ Cardinality(1..Empties) = Empties
  BY <1>1, FS_Interval
<1>3. S \in SUBSET (1..Empties)
  OBVIOUS
<1> HIDE DEF S
<1>4. IsFiniteSet(S) /\ Cardinality(S) <= Empties
  BY <1>2, <1>3, FS_Subset
<1>5. Cardinality(S) \in Nat
  BY <1>4, FS_CardinalityType
<1>6. QED
  BY <1>1, <1>4, <1>5 DEF S

LEMMA PlannerInvHoldsFirst == Init => PlannerInv
<1> SUFFICES ASSUME Init PROVE PlannerInv
  OBVIOUS
<1>1. PICK seeded \in [1..Empties -> SeedPools] :
         empty = [k \in Pools |-> Cardinality({i \in 1..Empties : seeded[i] = k})]
  BY DEF Init
<1>2. \A k \in Pools : empty[k] \in 0..Empties
  <2> SUFFICES ASSUME NEW k \in Pools PROVE empty[k] \in 0..Empties
    OBVIOUS
  <2> DEFINE P == {i \in 1..Empties : seeded[i] = k}
  <2>1. P = {i \in 1..Empties : i \in P}
    OBVIOUS
  <2>2. empty[k] = Cardinality(P)
    BY <1>1
  <2> HIDE DEF P
  <2>3. Cardinality({i \in 1..Empties : i \in P}) \in 0..Empties
    BY SeededIsNumber
  <2>4. QED
    BY <2>1, <2>2, <2>3
<1>3. empty \in [Pools -> Nat]
  BY <1>1, <1>2
<1>4. \A k \in Pools : Target(k, empty[k]) \in Nat
  BY <1>2, PlannerAssumption
<1>5. moves \in [Voyages -> [Types -> Nat]] /\ now \in Nat
  BY DEF Init
<1>6. PlannerTypeOK
  <2>1. target \in [Pools -> Nat] /\ available \in [Pools -> Nat]
    BY <1>3, <1>4 DEF Init
  <2>2. /\ leases \in [Pools -> Nat] /\ rented \in [Pools -> Nat]
        /\ missing \in [Pools -> Nat] /\ booked \in [Voyages -> Nat]
    BY DEF Init
  <2>3. voyage \in [Bookings -> Voyages \union {NoVoyage}]
    BY PlannerAssumption DEF Init
  <2>4. QED
    BY <1>3, <1>5, <2>1, <2>2, <2>3 DEF PlannerTypeOK
<1>7. RentedBoxesAreLeased /\ AvailableIsBacked
  BY <1>2 DEF Init, RentedBoxesAreLeased, AvailableIsBacked
<1>8. \A k \in Pools : missing[k] <= MovedTo(k)
  <2>1. \A k \in Pools : missing[k] = 0 /\ MovedTo(k) \in Nat
    BY <1>5, MovedToIsNumber DEF Init
  <2>2. QED
    BY <2>1
<1>9. QED
  BY <1>5, <1>6, <1>7, <1>8
     DEF PlannerInv, StockIsSound, MissingBoxesAreMoved, MovedTo

\* Applied, a plan's moves are added to those that were ordered before.
LEMMA MovesAreAdded ==
    ASSUME NEW plan \in Plans, Apply(plan), moves \in [Voyages -> [Types -> Nat]],
           NEW k \in Pools
    PROVE  MovedTo(k)' = MovedTo(k) + Ordered(plan, k)
<1> DEFINE S == {v \in Voyages : To[v] = k[1]}
           f == [v \in S |-> moves[v][k[2]]]
           g == [v \in S |-> IF v \in Ahead THEN plan.moved[v][k[2]] ELSE 0]
           h == [v \in S |-> moves'[v][k[2]]]
<1>1. plan.moved \in [Ahead -> [Types -> Nat]] /\ k[2] \in Types
  BY MovesAreNumbers DEF Pools
<1>2. IsFiniteSet(S)
  BY PlannerAssumption, FS_Subset
<1>3. f \in [S -> Nat] /\ g \in [S -> Nat]
  BY <1>1
<1>4. \A v \in S : h[v] = f[v] + g[v]
  BY <1>1 DEF Apply
<1>5. h = [v \in S |-> f[v] + g[v]]
  BY <1>4
<1>6. /\ MovedTo(k) = SumFunction(f) /\ Ordered(plan, k) = SumFunction(g)
      /\ MovedTo(k)' = SumFunction(h)
  BY DEF MovedTo, Ordered
<1> HIDE DEF f, g, h, S
<1>7. SumFunction([v \in S |-> f[v] + g[v]]) = SumFunction(f) + SumFunction(g)
  BY <1>2, <1>3, TotalsAdd
<1>8. QED
  BY <1>5, <1>6, <1>7

\* The numbers an applied plan changes the books by.
LEMMA BooksAfter ==
    ASSUME NEW plan \in Plans, Apply(plan), NEW k \in Pools
    PROVE  /\ empty'[k] = NotBelowZero(empty[k] - OwnFrom(plan, k))
           /\ missing'[k] = missing[k] + NotBelowZero(OwnFrom(plan, k) - empty[k])
           /\ rented'[k] = rented[k] + LeaseFrom(plan, k)
           /\ leases'[k] = leases[k] + OrderedAt(plan, k)
           /\ available'[k]
                = NotBelowZero(available[k] - OwnFrom(plan, k) - MovedFrom(plan.moved, k))
                  + OrderedAt(plan, k)
BY DEF Apply, AvailableAfter

LEMMA PlansKeepTypes ==
    ASSUME PlannerInv, NEW plan \in Plans, Apply(plan), UNCHANGED target
    PROVE  PlannerTypeOK'
<1>1. /\ now \in Nat /\ empty \in [Pools -> Nat] /\ available \in [Pools -> Nat]
      /\ leases \in [Pools -> Nat] /\ rented \in [Pools -> Nat]
      /\ missing \in [Pools -> Nat] /\ target \in [Pools -> Nat]
      /\ moves \in [Voyages -> [Types -> Nat]] /\ booked \in [Voyages -> Nat]
      /\ voyage \in [Bookings -> Voyages \union {NoVoyage}]
  BY DEF PlannerInv, StockIsSound, PlannerTypeOK
<1>2. \A k \in Pools : /\ OwnFrom(plan, k) \in Nat /\ LeaseFrom(plan, k) \in Nat
                       /\ OrderedAt(plan, k) \in Nat
                       /\ MovedFrom(plan.moved, k) \in Nat
  BY <1>1, OwnAndLeaseAreNumbers, MovesAreNumbers, MovedIsNumber
<1>3. \A k \in Pools :
         /\ NotBelowZero(empty[k] - OwnFrom(plan, k)) \in Nat
         /\ NotBelowZero(OwnFrom(plan, k) - empty[k]) \in Nat
         /\ NotBelowZero(available[k] - OwnFrom(plan, k) - MovedFrom(plan.moved, k)) \in Nat
  BY <1>1, <1>2, ZeroOrMore
<1>4. \A k \in Pools : /\ empty'[k] \in Nat /\ missing'[k] \in Nat /\ rented'[k] \in Nat
                       /\ leases'[k] \in Nat /\ available'[k] \in Nat
  <2> SUFFICES ASSUME NEW k \in Pools
               PROVE  /\ empty'[k] \in Nat /\ missing'[k] \in Nat /\ rented'[k] \in Nat
                      /\ leases'[k] \in Nat /\ available'[k] \in Nat
    OBVIOUS
  <2>1. leases[k] \in Nat /\ rented[k] \in Nat /\ missing[k] \in Nat
    BY <1>1
  <2>2. QED
    BY <1>2, <1>3, <2>1, BooksAfter
<1>5. /\ empty' \in [Pools -> Nat] /\ missing' \in [Pools -> Nat]
      /\ rented' \in [Pools -> Nat] /\ leases' \in [Pools -> Nat]
      /\ available' \in [Pools -> Nat]
  <2>1. /\ empty' = [k \in Pools |-> empty'[k]] /\ missing' = [k \in Pools |-> missing'[k]]
        /\ rented' = [k \in Pools |-> rented'[k]] /\ leases' = [k \in Pools |-> leases'[k]]
        /\ available' = [k \in Pools |-> available'[k]]
    BY DEF Apply
  <2>2. QED
    BY <1>4, <2>1
<1>6. moves' \in [Voyages -> [Types -> Nat]]
  <2>1. plan.moved \in [Ahead -> [Types -> Nat]]
    BY MovesAreNumbers
  <2>2. \A v \in Voyages, k \in Types :
           moves[v][k] + (IF v \in Ahead THEN plan.moved[v][k] ELSE 0) \in Nat
    BY <1>1, <2>1
  <2>3. QED
    BY <2>2 DEF Apply
<1>7. booked' \in [Voyages -> Nat]
  <2>1. \A v \in Voyages : Booked(plan, v) \in Nat /\ booked[v] \in Nat
    BY <1>1, BookedIsPlanned
  <2>2. booked' = [v \in Voyages |-> booked[v] + Booked(plan, v)]
    BY DEF Apply, Booked
  <2>3. QED
    BY <2>1, <2>2
<1>8. voyage' \in [Bookings -> Voyages \union {NoVoyage}]
  <2>1. \A b \in Served(plan) : Taken(plan, b) \in Voyages
    BY <1>1, TakenIsUsed DEF Candidates
  <2>2. QED
    BY <1>1, <2>1 DEF Apply
<1>9. QED
  BY <1>1, <1>5, <1>6, <1>7, <1>8 DEF PlannerTypeOK

\* The step of the proof: a plan is applied.
LEMMA PlansKeepBooks ==
    ASSUME PlannerInv, NEW plan \in Plans, Apply(plan), UNCHANGED <<now, target>>
    PROVE  PlannerInv'
<1>1. /\ now \in Nat /\ empty \in [Pools -> Nat] /\ available \in [Pools -> Nat]
      /\ leases \in [Pools -> Nat] /\ rented \in [Pools -> Nat]
      /\ missing \in [Pools -> Nat]
      /\ moves \in [Voyages -> [Types -> Nat]]
  BY DEF PlannerInv, StockIsSound, PlannerTypeOK
<1>2. PlannerTypeOK'
  BY PlansKeepTypes
<1>3. ASSUME NEW k \in Pools
      PROVE  /\ rented'[k] <= leases'[k]
             /\ available'[k] <= empty'[k] + leases'[k]
             /\ missing'[k] <= MovedTo(k)'
  <2> DEFINE o == OwnFrom(plan, k)
             l == OrderedAt(plan, k)
             m == MovedFrom(plan.moved, k)
             n == Ordered(plan, k)
             r == LeaseFrom(plan, k)
             e == empty[k]
             a == available[k]
  <2>1. o \in Nat /\ l \in Nat /\ m \in Nat /\ n \in Nat /\ r \in Nat
    BY <1>1, OwnAndLeaseAreNumbers, MovesAreNumbers, MovedIsNumber, InflowIsOrdered
  <2>2. /\ e \in Nat /\ a \in Nat /\ leases[k] \in Nat /\ rented[k] \in Nat
        /\ missing[k] \in Nat /\ MovedTo(k) \in Nat
    BY <1>1, MovedToIsNumber
  <2>3. /\ rented[k] <= leases[k] /\ a <= e + leases[k] /\ missing[k] <= MovedTo(k)
    BY DEF PlannerInv, StockIsSound, RentedBoxesAreLeased, AvailableIsBacked,
           MissingBoxesAreMoved, MovedTo
  <2>4. r <= l /\ o <= e + n
    BY <1>1, LeasesAreOrdered, OwnIsThereOrMoved
  <2>5. /\ empty'[k] = NotBelowZero(e - o)
        /\ missing'[k] = missing[k] + NotBelowZero(o - e)
        /\ rented'[k] = rented[k] + r
        /\ leases'[k] = leases[k] + l
        /\ available'[k] = NotBelowZero(a - o - m) + l
    BY BooksAfter
  <2>6. MovedTo(k)' = MovedTo(k) + n
    BY <1>1, MovesAreAdded
  <2> HIDE DEF o, l, m, n, r, e, a
  <2>7. rented'[k] <= leases'[k]
    BY <2>1, <2>2, <2>3, <2>4, <2>5
  <2>8. available'[k] <= empty'[k] + leases'[k]
    BY <2>1, <2>2, <2>3, <2>5 DEF NotBelowZero
  <2>9. missing'[k] <= MovedTo(k)'
    BY <2>1, <2>2, <2>3, <2>4, <2>5, <2>6 DEF NotBelowZero
  <2>10. QED
    BY <2>7, <2>8, <2>9
<1>4. RentedBoxesAreLeased' /\ AvailableIsBacked' /\ MissingBoxesAreMoved'
  BY <1>3 DEF RentedBoxesAreLeased, AvailableIsBacked, MissingBoxesAreMoved, MovedTo
<1>5. QED
  BY <1>1, <1>2, <1>4 DEF PlannerInv, StockIsSound

LEMMA PlannerInvHoldsNext == PlannerInv /\ [Next]_vars => PlannerInv'
<1> SUFFICES ASSUME PlannerInv, [Next]_vars PROVE PlannerInv'
  OBVIOUS
<1>1. CASE Optimize
  <2>1. CASE \E plan \in Plans : Apply(plan)
    BY <1>1, <2>1, PlansKeepBooks DEF Optimize
  <2>2. CASE UNCHANGED <<voyage, stock, moves, booked>>
    BY <1>1, <2>2
       DEF Optimize, stock, PlannerInv, StockIsSound, PlannerTypeOK,
           RentedBoxesAreLeased, AvailableIsBacked, MissingBoxesAreMoved
  <2>3. QED
    BY <1>1, <2>1, <2>2 DEF Optimize
<1>2. CASE Advance
  BY <1>2
     DEF Advance, stock, PlannerInv, StockIsSound, PlannerTypeOK,
         RentedBoxesAreLeased, AvailableIsBacked, MissingBoxesAreMoved
<1>3. CASE UNCHANGED vars
  BY <1>3
     DEF vars, stock, PlannerInv, StockIsSound, PlannerTypeOK,
         RentedBoxesAreLeased, AvailableIsBacked, MissingBoxesAreMoved
<1>4. QED
  BY <1>1, <1>2, <1>3 DEF Next

LEMMA PlannerInvHolds == Spec => []PlannerInv
<1>1. Init => PlannerInv
  BY PlannerInvHoldsFirst
<1>2. PlannerInv /\ [Next]_vars => PlannerInv'
  BY PlannerInvHoldsNext
<1>3. QED
  BY <1>1, <1>2, PTL DEF Spec

\* The three books of the stock go together (_apply_solution()): counts are
\* never negative, the leased containers of bookings are covered by leases,
\* and no balance shows more than there is.
THEOREM StockStaysSound == Spec => []StockIsSound
<1>1. PlannerInv => StockIsSound
  BY DEF PlannerInv
<1>2. QED
  BY <1>1, PlannerInvHolds, PTL

\* A booking that is given containers which are not there lacks no more than
\* what was ordered to be moved to its port.
THEOREM MissingBoxesStayMoved == Spec => []MissingBoxesAreMoved
<1>1. PlannerInv => MissingBoxesAreMoved
  BY DEF PlannerInv
<1>2. QED
  BY <1>1, PlannerInvHolds, PTL

-----------------------------------------------------------------------------
(***************************************************************************)
(* Capacity                                                                *)
(***************************************************************************)

\* The room on a voyage beside the bookings preserved on it
LEMMA RoomIsNumber == \A v \in Voyages : Room(v) \in Nat
<1> SUFFICES ASSUME NEW v \in Voyages PROVE Room(v) \in Nat
  OBVIOUS
<1> DEFINE S == Preserved(v)
           f == [b \in S |-> TeuOf(b) * Quantity[b]]
<1>1. S \subseteq Bookings
  BY DEF Preserved
<1>2. IsFiniteSet(S)
  BY <1>1, PlannerAssumption, FS_Subset
<1>3. f \in [S -> Nat]
  <2>1. \A b \in Bookings : Teu[TypeOf[b]] \in Nat /\ Quantity[b] \in Nat
    BY PlannerAssumption
  <2>2. QED
    BY <1>1, <2>1 DEF TeuOf
<1>4. Capacity[v] \in Nat
  BY PlannerAssumption
<1>5. Room(v) = NotBelowZero(Capacity[v] - SumFunction(f))
  BY DEF Room
<1> HIDE DEF f, S
<1>6. SumFunction(f) \in Nat
  BY <1>2, <1>3, TotalIsNat
<1>7. QED
  BY <1>4, <1>5, <1>6, ZeroOrMore

\* The plan's constraint (d) is about all it has on a voyage; what is applied
\* of that is no more.
LEMMA PlansFit ==
    ASSUME PlannerInv, NEW plan \in Plans, Apply(plan), NEW v \in Voyages,
           moves'[v] # moves[v] \/ booked'[v] # booked[v]
    PROVE  booked'[v] - booked[v]
           + SumFunction([k \in Types |-> Teu[k] * (moves'[v][k] - moves[v][k])])
             <= Room(v)
<1> DEFINE f == [k \in Types |-> Teu[k] * (moves'[v][k] - moves[v][k])]
           g == [k \in Types |-> Teu[k] * plan.moved[v][k]]
<1>1. /\ now \in Nat /\ moves \in [Voyages -> [Types -> Nat]]
      /\ booked \in [Voyages -> Nat] /\ Teu \in [Types -> Nat]
  BY PlannerAssumption DEF PlannerInv, StockIsSound, PlannerTypeOK
<1>2. plan.moved \in [Ahead -> [Types -> Nat]]
  BY MovesAreNumbers
<1>3. /\ Booked(plan, v) \in Nat
      /\ v \notin Ahead => Booked(plan, v) = 0
      /\ TeuBooked(plan, v) \in Nat
      /\ Booked(plan, v) <= TeuBooked(plan, v)
  BY <1>1, BookedIsPlanned
<1>4. booked'[v] = booked[v] + Booked(plan, v)
  BY DEF Apply, Booked
<1>5. moves'[v] = [k \in Types |->
                      moves[v][k] + (IF v \in Ahead THEN plan.moved[v][k] ELSE 0)]
  BY DEF Apply
<1>6. v \in Ahead
  <2> SUFFICES ASSUME v \notin Ahead PROVE FALSE
    OBVIOUS
  <2>1. booked'[v] = booked[v]
    BY <1>1, <1>3, <1>4
  <2>2. \A k \in Types : moves[v][k] + 0 = moves[v][k]
    BY <1>1
  <2>3. moves'[v] = [k \in Types |-> moves[v][k]]
    BY <1>5, <2>2
  <2>4. moves[v] = [k \in Types |-> moves[v][k]]
    BY <1>1
  <2>5. QED
    BY <2>1, <2>3, <2>4
<1>7. \A k \in Types : moves'[v][k] - moves[v][k] = plan.moved[v][k]
  <2>1. \A k \in Types : moves[v][k] \in Nat /\ plan.moved[v][k] \in Nat
    BY <1>1, <1>2, <1>6
  <2>2. \A k \in Types : moves'[v][k] = moves[v][k] + plan.moved[v][k]
    BY <1>5, <1>6
  <2>3. QED
    BY <2>1, <2>2
<1>8. f = g
  BY <1>7
<1>9. TeuBooked(plan, v) + SumFunction(g) <= Room(v)
  BY <1>6 DEF Plans, Feasible, FitsVoyages
<1>10. g \in [Types -> Nat]
  <2>1. \A k \in Types : plan.moved[v][k] \in Nat /\ Teu[k] \in Nat
    BY <1>1, <1>2, <1>6
  <2>2. QED
    BY <2>1
<1> HIDE DEF f, g
<1>11. SumFunction(g) \in Nat
  BY <1>10, PlannerAssumption, TotalIsNat
<1>12. Room(v) \in Int
  BY RoomIsNumber
<1>13. booked[v] \in Nat
  BY <1>1
<1>14. booked'[v] - booked[v] + SumFunction(f) <= Room(v)
  BY <1>3, <1>4, <1>8, <1>9, <1>11, <1>12, <1>13
<1>15. QED
  BY <1>14 DEF f

\* What a run of the engine puts on a voyage, empties included, fits beside the
\* bookings preserved on it (constraint (d), whatever is dropped of the plan).
THEOREM RunsAlwaysFit == Spec => RunsFitVoyages
<1> DEFINE Fits == \A v \in Voyages :
          moves'[v] # moves[v] \/ booked'[v] # booked[v] =>
              booked'[v] - booked[v]
              + SumFunction([k \in Types |-> Teu[k] * (moves'[v][k] - moves[v][k])])
                <= Room(v)
<1>1. PlannerInv /\ [Next]_vars => [Fits]_vars
  <2> SUFFICES ASSUME PlannerInv, Next PROVE Fits
    OBVIOUS
  <2>1. CASE Optimize
    <3>1. CASE \E plan \in Plans : Apply(plan)
      BY <3>1, PlansFit
    <3>2. CASE UNCHANGED <<voyage, stock, moves, booked>>
      BY <3>2
    <3>3. QED
      BY <2>1, <3>1, <3>2 DEF Optimize
  <2>2. CASE Advance
    BY <2>2 DEF Advance
  <2>3. QED
    BY <2>1, <2>2 DEF Next
<1>2. [][Fits]_vars <=> RunsFitVoyages
  BY DEF RunsFitVoyages
<1> HIDE DEF Fits
<1>3. QED
  BY <1>1, <1>2, PlannerInvHolds, PTL DEF Spec

-----------------------------------------------------------------------------
(***************************************************************************)
(* The container desk                                                      *)
(***************************************************************************)

\* A release works on an assignment that exists, and on its box; an event
\* never makes a box ASSIGNED.
RequestsFit ==
    \A c \in Clerks :
       /\ request[c].op \in {"release", "revert"} =>
             /\ made[request[c].assignment] # None
             /\ made[request[c].assignment].box = request[c].box
       /\ request[c].op = "event" => request[c].new.status # "ASSIGNED"

\* No release of a that is about to commit has found the box in another
\* status: it would leave the column alone.
WillRevert(a) ==
    \A c \in Clerks :
       request[c].op = "revert" /\ request[c].assignment = a
          => request[c].seen.status = "ASSIGNED"

Held(b) ==
    \E a \in Assignments : /\ made[a] # None
                           /\ made[a].box = b
                           /\ made[a].open
                           /\ WillRevert(a)

HeldInv ==
    /\ TypeOK
    /\ RequestsFit
    /\ \A b \in Boxes : row[b].status = "ASSIGNED" => Held(b)

LEMMA NoneIsNoAssignment == None \notin Assignment /\ None \notin Assignments
BY DeskAssumption

-----------------------------------------------------------------------------
(***************************************************************************)
(* What a flush and the handlers do to a row                               *)
(***************************************************************************)
LEMMA FlushedRow ==
    ASSUME NEW held \in Row, NEW seen \in Row, NEW new \in Row
    PROVE  /\ Flushed(held, seen, new) \in Row
           /\ Flushed(held, seen, new).status =
                 IF new.status = seen.status THEN held.status ELSE new.status
<1>1. DOMAIN held = {"status", "condition", "location", "voyage"}
  BY DEF Row
<1>2. Flushed(held, seen, new) =
        [f \in {"status", "condition", "location", "voyage"} |->
            IF new[f] = seen[f] THEN held[f] ELSE new[f]]
  BY <1>1 DEF Flushed
<1> DEFINE F == Flushed(held, seen, new)
<1>3. /\ F.status = IF new.status = seen.status THEN held.status ELSE new.status
      /\ F.condition = IF new.condition = seen.condition THEN held.condition ELSE new.condition
      /\ F.location = IF new.location = seen.location THEN held.location ELSE new.location
      /\ F.voyage = IF new.voyage = seen.voyage THEN held.voyage ELSE new.voyage
  BY <1>2
<1>4. F = [status |-> F.status, condition |-> F.condition,
           location |-> F.location, voyage |-> F.voyage]
  BY <1>2
<1>5. /\ F.status \in Statuses /\ F.condition \in Conditions
      /\ F.location \in Locations \cup {None} /\ F.voyage \in VoyageIds \cup {None}
  BY <1>3 DEF Row
<1> HIDE DEF F
<1>6. F \in Row
  BY <1>4, <1>5 DEF Row
<1> QED BY <1>3, <1>6 DEF F

LEMMA RecordedRow ==
    ASSUME NEW r \in Row, NEW e \in Event
    PROVE  Recorded(r, e) \in Row /\ Recorded(r, e).status # "ASSIGNED"
<1>1. At(r, e) \in Row
  BY DEF At, Row, Event
<1>2. e.type \in EventTypes /\ e.voyage \in VoyageIds \cup {None}
  BY DEF Event
<1>3. CASE e.type \in {"GATE_IN", "RETURNED"}
  BY <1>1, <1>3 DEF Recorded, Row, Statuses
<1>4. CASE e.type = "GATE_OUT"
  BY <1>4 DEF Recorded, Row, Statuses
<1>5. CASE e.type = "LOADED"
  <2>1. (IF e.voyage # None THEN e.voyage ELSE r.voyage) \in VoyageIds \cup {None}
    BY <1>2 DEF Row
  <2> QED BY <2>1, <1>5 DEF Recorded, Row, Statuses
<1>6. CASE e.type = "DISCHARGED"
  BY <1>1, <1>6 DEF Recorded, Row, Statuses
<1>7. CASE e.type \in {"REPAIRED", "RELEASED", "DAMAGED"}
  BY <1>7 DEF Recorded, Row, Statuses, Conditions
<1> QED BY <1>2, <1>3, <1>4, <1>5, <1>6, <1>7 DEF EventTypes

-----------------------------------------------------------------------------
LEMMA HeldInit == DeskInit => HeldInv
<1> SUFFICES ASSUME DeskInit PROVE HeldInv
  OBVIOUS
<1>1. row \in [Boxes -> Row] /\ \A b \in Boxes : row[b].status = "AVAILABLE"
  BY DEF DeskInit
<1>2. made \in [Assignments -> Assignment \cup {None}]
  BY DEF DeskInit
<1>3. request \in [Clerks -> Request] /\ \A c \in Clerks : request[c].op = "idle"
  BY DEF DeskInit, Request, Idle
<1> QED BY <1>1, <1>2, <1>3 DEF HeldInv, TypeOK, RequestsFit, DeskInit

\* A request that takes a row leaves the tables alone.
LEMMA TakesHeld ==
    ASSUME HeldInv, NEW c \in Clerks, NEW r \in Request \ {Idle}, Takes(c, r),
           r.op \in {"release", "revert"} =>
              made[r.assignment] # None /\ made[r.assignment].box = r.box,
           r.op = "revert" => r.seen = row[r.box],
           r.op = "event" => r.new.status # "ASSIGNED"
    PROVE  HeldInv'
<1>1. /\ request' = [request EXCEPT ![c] = r]
      /\ row' = row /\ made' = made
  BY DEF Takes
<1>2. request \in [Clerks -> Request]
  BY DEF HeldInv, TypeOK
<1>3. r.box \in Boxes
  BY DEF Request
<1>4. TypeOK'
  <2>1. request' \in [Clerks -> Request]
    BY <1>1, <1>2
  <2>2. raced' \in SUBSET Boxes
    BY <1>3 DEF Takes, HeldInv, TypeOK
  <2> QED BY <1>1, <2>1, <2>2 DEF HeldInv, TypeOK
<1>5. request'[c] = r /\ \A d \in Clerks \ {c} : request'[d] = request[d]
  BY <1>1, <1>2
<1>6. RequestsFit'
  BY <1>1, <1>5 DEF HeldInv, RequestsFit
<1>7. ASSUME NEW b \in Boxes, row'[b].status = "ASSIGNED"
      PROVE  Held(b)'
  <2>1. PICK a \in Assignments : /\ made[a] # None /\ made[a].box = b
                                 /\ made[a].open /\ WillRevert(a)
    BY <1>1, <1>7 DEF HeldInv, Held
  <2>2. r.op = "revert" /\ r.assignment = a => r.seen.status = "ASSIGNED"
    BY <1>1, <1>7, <2>1
  <2>3. WillRevert(a)'
    BY <1>5, <2>1, <2>2 DEF WillRevert
  <2> QED BY <1>1, <2>1, <2>3 DEF Held
<1> QED BY <1>4, <1>6, <1>7 DEF HeldInv

-----------------------------------------------------------------------------
LEMMA AssignReadsHeld ==
    ASSUME HeldInv, NEW c \in Clerks, NEW b \in Boxes, NEW k \in BookingIds, AssignReads(c, b, k)
    PROVE  HeldInv'
<1> DEFINE r == [op |-> "assign", box |-> b, booking |-> k, seen |-> row[b]]
<1>1. r \in Request \ {Idle} /\ r.op = "assign"
  BY DEF HeldInv, TypeOK, Request, Idle
<1>2. Takes(c, r)
  BY DEF AssignReads
<1> QED BY <1>1, <1>2, TakesHeld

LEMMA ReleaseReadsHeld ==
    ASSUME HeldInv, NEW c \in Clerks, NEW a \in Assignments, ReleaseReads(c, a)
    PROVE  HeldInv'
<1> DEFINE r == [op |-> "release", assignment |-> a, box |-> made[a].box]
<1>1. made[a] # None /\ made[a] \in Assignment
  BY DEF ReleaseReads, HeldInv, TypeOK
<1>2. r \in Request \ {Idle} /\ r.op = "release" /\ r.assignment = a /\ r.box = made[a].box
  BY <1>1 DEF Request, Idle, Assignment
<1>3. Takes(c, r)
  BY DEF ReleaseReads
<1> HIDE DEF r
<1> QED BY <1>1, <1>2, <1>3, TakesHeld

LEMMA ReleaseReadsBoxHeld ==
    ASSUME HeldInv, NEW c \in Clerks, ReleaseReadsBox(c)
    PROVE  HeldInv'
<1> DEFINE q == request[c]
<1> DEFINE r == [op |-> "revert", assignment |-> q.assignment, box |-> q.box,
                 seen |-> row[q.box]]
<1>1. q.op = "release" /\ q \in Request
  BY DEF ReleaseReadsBox, HeldInv, TypeOK
<1>2. q.assignment \in Assignments /\ q.box \in Boxes
  BY <1>1 DEF Request, Idle
<1>3. row[q.box] \in Row
  BY <1>2 DEF HeldInv, TypeOK
<1>4. made[q.assignment] # None /\ made[q.assignment].box = q.box
  BY <1>1 DEF HeldInv, RequestsFit
<1>5. Takes(c, r)
  BY DEF ReleaseReadsBox
<1> HIDE DEF q
<1>6. /\ r \in Request \ {Idle} /\ r.op = "revert" /\ r.assignment = q.assignment
      /\ r.box = q.box /\ r.seen = row[r.box]
  BY <1>2, <1>3 DEF Request, Idle
<1> HIDE DEF r
<1> QED BY <1>4, <1>5, <1>6, TakesHeld

LEMMA EventReadsHeld ==
    ASSUME HeldInv, NEW c \in Clerks, NEW b \in Boxes, NEW e \in Event, EventReads(c, b, e)
    PROVE  HeldInv'
<1>1. row[b] \in Row
  BY DEF HeldInv, TypeOK
<1>2. Recorded(row[b], e) \in Row /\ Recorded(row[b], e).status # "ASSIGNED"
  BY <1>1, RecordedRow
<1> DEFINE n == Recorded(row[b], e)
<1> DEFINE r == [op |-> "event", box |-> b, seen |-> row[b], new |-> n]
<1>3. Takes(c, r)
  BY DEF EventReads
<1> HIDE DEF n
<1>4. r \in Request \ {Idle} /\ r.op = "event" /\ r.new = n
  BY <1>1, <1>2 DEF Request, Idle, n
<1> HIDE DEF r
<1> QED BY <1>2, <1>3, <1>4, TakesHeld DEF n

-----------------------------------------------------------------------------
(***************************************************************************)
(* A commit                                                                *)
(***************************************************************************)
LEMMA CommitsState ==
    ASSUME HeldInv, NEW c \in Clerks, NEW new \in Row, Commits(c, new),
           request[c].op \in {"assign", "revert", "event"}
    PROVE  LET b == request[c].box
               s == IF new.status = request[c].seen.status
                    THEN row[b].status ELSE new.status
           IN  /\ b \in Boxes /\ request[c].seen \in Row
               /\ row' \in [Boxes -> Row]
               /\ row'[b].status = s
               /\ \A d \in Boxes \ {b} : row'[d] = row[d]
               /\ request' \in [Clerks -> Request]
               /\ request'[c] = Idle
               /\ \A d \in Clerks \ {c} : request'[d] = request[d]
               /\ raced' = raced
<1> DEFINE b == request[c].box
<1>1. request[c] \in Request /\ row \in [Boxes -> Row] /\ request \in [Clerks -> Request]
  BY DEF HeldInv, TypeOK
<1>2. b \in Boxes /\ request[c].seen \in Row
  BY <1>1 DEF Request, Idle
<1> DEFINE F == Flushed(row[b], request[c].seen, new)
<1>3. /\ row' = [row EXCEPT ![b] = F]
      /\ request' = [request EXCEPT ![c] = Idle]
      /\ raced' = raced
  BY DEF Commits
<1>4. row[b] \in Row
  BY <1>1, <1>2
<1>5. F \in Row /\ F.status = IF new.status = request[c].seen.status
                             THEN row[b].status ELSE new.status
  BY <1>2, <1>4, FlushedRow
<1> HIDE DEF F
<1>6. Idle \in Request
  BY DEF Request
<1> QED BY <1>1, <1>2, <1>3, <1>5, <1>6

LEMMA EventCommitsHeld ==
    ASSUME HeldInv, NEW c \in Clerks, EventCommits(c)
    PROVE  HeldInv'
<1> DEFINE q == request[c]
<1>1. q.op = "event" /\ made' = made /\ Commits(c, q.new)
  BY DEF EventCommits
<1>2. q.new \in Row /\ q.new.status # "ASSIGNED"
  BY <1>1 DEF HeldInv, TypeOK, RequestsFit, Request, Idle
<1>3. /\ q.box \in Boxes /\ row' \in [Boxes -> Row] /\ request' \in [Clerks -> Request]
      /\ row'[q.box].status = IF q.new.status = q.seen.status
                             THEN row[q.box].status ELSE q.new.status
      /\ \A d \in Boxes \ {q.box} : row'[d] = row[d]
      /\ request'[c] = Idle /\ \A d \in Clerks \ {c} : request'[d] = request[d]
      /\ raced' = raced
  BY <1>1, <1>2, CommitsState
<1>4. Idle.op = "idle"
  BY DEF Idle
<1>5. TypeOK'
  BY <1>1, <1>3 DEF HeldInv, TypeOK
<1>6. RequestsFit'
  BY <1>1, <1>3, <1>4 DEF HeldInv, RequestsFit
<1>7. ASSUME NEW b \in Boxes, row'[b].status = "ASSIGNED" PROVE Held(b)'
  <2>1. row[b].status = "ASSIGNED"
    BY <1>2, <1>3, <1>7
  <2>2. PICK a \in Assignments : /\ made[a] # None /\ made[a].box = b
                                 /\ made[a].open /\ WillRevert(a)
    BY <2>1 DEF HeldInv, Held
  <2>3. WillRevert(a)'
    BY <1>3, <1>4, <2>2 DEF WillRevert
  <2> QED BY <1>1, <2>2, <2>3 DEF Held
<1> QED BY <1>5, <1>6, <1>7 DEF HeldInv

LEMMA AssignCommitsHeld ==
    ASSUME HeldInv, NEW c \in Clerks, AssignCommits(c)
    PROVE  HeldInv'
<1> DEFINE q == request[c]
<1> DEFINE n == [q.seen EXCEPT !.status = "ASSIGNED"]
<1>1. q.op = "assign" /\ q \in Request
  BY DEF AssignCommits, HeldInv, TypeOK
<1>2. q.box \in Boxes /\ q.booking \in BookingIds /\ q.seen \in Row
  BY <1>1 DEF Request, Idle
<1>3. n \in Row /\ n.status = "ASSIGNED"
  BY <1>2 DEF Row, Statuses
<1>4. Commits(c, n)
  BY DEF AssignCommits
<1>5. /\ row' \in [Boxes -> Row] /\ request' \in [Clerks -> Request]
      /\ \A d \in Boxes \ {q.box} : row'[d] = row[d]
      /\ request'[c] = Idle /\ \A d \in Clerks \ {c} : request'[d] = request[d]
      /\ raced' = raced
  BY <1>1, <1>3, <1>4, CommitsState
<1>6. PICK a \in Assignments :
         /\ made[a] = None
         /\ made' = [made EXCEPT ![a] = [box |-> q.box, booking |-> q.booking, open |-> TRUE]]
  BY DEF AssignCommits
<1>7. made \in [Assignments -> Assignment \cup {None}]
  BY DEF HeldInv, TypeOK
<1>8. /\ made'[a] = [box |-> q.box, booking |-> q.booking, open |-> TRUE]
      /\ \A x \in Assignments \ {a} : made'[x] = made[x]
      /\ made' \in [Assignments -> Assignment \cup {None}]
  BY <1>2, <1>6, <1>7 DEF Assignment
<1>9. made'[a] # None
  <2>1. made'[a] \in Assignment
    BY <1>2, <1>8 DEF Assignment
  <2> QED  BY <2>1, NoneIsNoAssignment
<1>10. Idle.op = "idle"
  BY DEF Idle
<1>11. TypeOK'
  BY <1>5, <1>8 DEF HeldInv, TypeOK
<1>12. \A d \in Clerks : request[d].op \in {"release", "revert"} =>
          request[d].assignment \in Assignments \ {a}
  <2> SUFFICES ASSUME NEW d \in Clerks, request[d].op \in {"release", "revert"}
               PROVE  request[d].assignment \in Assignments \ {a}
    OBVIOUS
  <2>1. request[d] \in Request
    BY DEF HeldInv, TypeOK
  <2>2. request[d].assignment \in Assignments
    BY <2>1 DEF Request, Idle
  <2> QED BY <2>2, <1>6 DEF HeldInv, RequestsFit
<1>13. RequestsFit'
  BY <1>5, <1>8, <1>10, <1>12 DEF HeldInv, RequestsFit
<1>14. ASSUME NEW b \in Boxes, row'[b].status = "ASSIGNED" PROVE Held(b)'
  <2>1. CASE b = q.box
    <3>1. WillRevert(a)'
      BY <1>5, <1>10, <1>12 DEF WillRevert
    <3> QED BY <1>8, <1>9, <2>1, <3>1 DEF Held
  <2>2. CASE b # q.box
    <3>1. row[b].status = "ASSIGNED"
      BY <1>5, <1>14, <2>2
    <3>2. PICK x \in Assignments : /\ made[x] # None /\ made[x].box = b
                                   /\ made[x].open /\ WillRevert(x)
      BY <3>1 DEF HeldInv, Held
    <3>3. x # a
      BY <1>6, <3>2
    <3>4. WillRevert(x)'
      BY <1>5, <1>10, <3>2 DEF WillRevert
    <3> QED BY <1>8, <3>2, <3>3, <3>4 DEF Held
  <2> QED BY <2>1, <2>2
<1> QED BY <1>11, <1>13, <1>14 DEF HeldInv

LEMMA ReleaseCommitsHeld ==
    ASSUME HeldInv, NEW c \in Clerks, ReleaseCommits(c)
    PROVE  HeldInv'
<1> DEFINE q == request[c]
<1> DEFINE n == Reverted(q.seen)
<1>1. q.op = "revert" /\ q \in Request
  BY DEF ReleaseCommits, HeldInv, TypeOK
<1>2. q.box \in Boxes /\ q.assignment \in Assignments /\ q.seen \in Row
  BY <1>1 DEF Request, Idle
<1>3. n \in Row /\ n.status = "AVAILABLE"
  BY <1>2 DEF Row, Statuses, Reverted
<1>4. Commits(c, n)
  BY DEF ReleaseCommits
<1> HIDE DEF n
<1>5. /\ row' \in [Boxes -> Row] /\ request' \in [Clerks -> Request]
      /\ row'[q.box].status = IF n.status = q.seen.status THEN row[q.box].status ELSE n.status
      /\ \A d \in Boxes \ {q.box} : row'[d] = row[d]
      /\ request'[c] = Idle /\ \A d \in Clerks \ {c} : request'[d] = request[d]
      /\ raced' = raced
  BY <1>1, <1>3, <1>4, CommitsState
<1>6. /\ made \in [Assignments -> Assignment \cup {None}]
      /\ made[q.assignment] # None /\ made[q.assignment].box = q.box
      /\ made' = [made EXCEPT ![q.assignment].open = FALSE]
  BY <1>1 DEF HeldInv, TypeOK, RequestsFit, ReleaseCommits
<1>7. made[q.assignment] \in Assignment
  BY <1>2, <1>6
<1>8. /\ made'[q.assignment] \in Assignment
      /\ made'[q.assignment].box = made[q.assignment].box
      /\ \A x \in Assignments \ {q.assignment} : made'[x] = made[x]
      /\ made' \in [Assignments -> Assignment \cup {None}]
  BY <1>2, <1>6, <1>7 DEF Assignment
<1>9. made'[q.assignment] # None
  BY <1>8, NoneIsNoAssignment
<1>10. Idle.op = "idle"
  BY DEF Idle
<1>11. TypeOK'
  BY <1>5, <1>8 DEF HeldInv, TypeOK
<1>12. \A d \in Clerks : request[d].op \in {"release", "revert"} =>
          request[d].assignment \in Assignments
  <2> SUFFICES ASSUME NEW d \in Clerks, request[d].op \in {"release", "revert"}
               PROVE  request[d].assignment \in Assignments
    OBVIOUS
  <2>1. request[d] \in Request
    BY DEF HeldInv, TypeOK
  <2> QED BY <2>1 DEF Request, Idle
<1>13. RequestsFit'
  BY <1>5, <1>8, <1>9, <1>10, <1>12 DEF HeldInv, RequestsFit
<1>14. ASSUME NEW b \in Boxes, row'[b].status = "ASSIGNED" PROVE Held(b)'
  <2>1. row[b].status = "ASSIGNED" /\ (b = q.box => q.seen.status = "AVAILABLE")
    BY <1>3, <1>5, <1>14
  <2>2. PICK x \in Assignments : /\ made[x] # None /\ made[x].box = b
                                 /\ made[x].open /\ WillRevert(x)
    BY <2>1 DEF HeldInv, Held
  <2>3. x # q.assignment
    BY <1>1, <1>6, <2>1, <2>2 DEF WillRevert
  <2>4. WillRevert(x)'
    BY <1>5, <1>10, <2>2 DEF WillRevert
  <2> QED BY <1>8, <2>2, <2>3, <2>4 DEF Held
<1> QED BY <1>11, <1>13, <1>14 DEF HeldInv

-----------------------------------------------------------------------------
LEMMA HeldStep == HeldInv /\ [DeskNext]_deskVars => HeldInv'
<1> SUFFICES ASSUME HeldInv, [DeskNext]_deskVars PROVE HeldInv'
  OBVIOUS
<1>1. ASSUME NEW c \in Clerks, NEW b \in Boxes, NEW k \in BookingIds, AssignReads(c, b, k)
      PROVE  HeldInv'
  BY <1>1, AssignReadsHeld
<1>2. ASSUME NEW c \in Clerks, AssignCommits(c) PROVE HeldInv'
  BY <1>2, AssignCommitsHeld
<1>3. ASSUME NEW c \in Clerks, NEW a \in Assignments, ReleaseReads(c, a) PROVE HeldInv'
  BY <1>3, ReleaseReadsHeld
<1>4. ASSUME NEW c \in Clerks, ReleaseReadsBox(c) PROVE HeldInv'
  BY <1>4, ReleaseReadsBoxHeld
<1>5. ASSUME NEW c \in Clerks, ReleaseCommits(c) PROVE HeldInv'
  BY <1>5, ReleaseCommitsHeld
<1>6. ASSUME NEW c \in Clerks, NEW b \in Boxes, NEW e \in Event, EventReads(c, b, e)
      PROVE  HeldInv'
  BY <1>6, EventReadsHeld
<1>7. ASSUME NEW c \in Clerks, EventCommits(c) PROVE HeldInv'
  BY <1>7, EventCommitsHeld
<1>8. CASE UNCHANGED deskVars
  BY <1>8 DEF deskVars, HeldInv, TypeOK, RequestsFit, Held, WillRevert
<1> QED BY <1>1, <1>2, <1>3, <1>4, <1>5, <1>6, <1>7, <1>8 DEF DeskNext

(***************************************************************************)
(* The tables and the requests keep to their types: create_assignment,     *)
(* release_assignment and create_container_event only write what fits.     *)
(***************************************************************************)
THEOREM DeskTypes == DeskSpec => []TypeOK
<1>1. HeldInv => TypeOK
  BY DEF HeldInv
<1> QED BY <1>1, HeldInit, HeldStep, PTL DEF DeskSpec

(***************************************************************************)
(* A box that reads ASSIGNED has an open assignment, however assignments,  *)
(* releases and container events overlap.                                  *)
(***************************************************************************)
THEOREM AssignedHeld == DeskSpec => []AssignedBoxIsHeld
<1>1. HeldInv => AssignedBoxIsHeld
  BY DEF HeldInv, Held, AssignedBoxIsHeld, OpenAssignments
<1> QED BY <1>1, HeldInit, HeldStep, PTL DEF DeskSpec

-----------------------------------------------------------------------------
(***************************************************************************)
(* A box no two requests have had at once: the one that has it has read    *)
(* the row as it is, so what it writes back is what it made of it.         *)
(***************************************************************************)
Consistent(r) ==
    /\ r.status = "UNDER_REPAIR" => r.condition = "DAMAGED"
    /\ r.status = "IN_TRANSIT" => r.location = None

HasRead(c) == request[c].op \in {"assign", "revert", "event"}

UnracedInv ==
    \A b \in Boxes \ raced :
       /\ Consistent(row[b])
       /\ \A c, d \in Clerks : Holding(c, b) /\ Holding(d, b) => c = d
       /\ \A c \in Clerks : Holding(c, b) =>
             /\ HasRead(c) => request[c].seen = row[b]
             /\ request[c].op = "event" => Consistent(request[c].new)

LEMMA FlushedUnchanged ==
    ASSUME NEW held \in Row, NEW new \in Row
    PROVE  Flushed(held, held, new) = new
<1>1. /\ DOMAIN held = {"status", "condition", "location", "voyage"}
      /\ new = [f \in {"status", "condition", "location", "voyage"} |-> new[f]]
  BY DEF Row
<1>2. Flushed(held, held, new) = [f \in {"status", "condition", "location", "voyage"} |-> new[f]]
  BY <1>1 DEF Flushed
<1> QED  BY <1>1, <1>2

LEMMA RecordedIsConsistent ==
    ASSUME NEW r \in Row, NEW e \in Event
    PROVE  Consistent(Recorded(r, e))
<1>1. At(r, e) \in Row
  BY DEF At, Row, Event
<1>2. e.type \in EventTypes
  BY DEF Event
<1>3. CASE e.type \in {"GATE_IN", "RETURNED", "DISCHARGED"}
  BY <1>1, <1>3 DEF Recorded, Row, Consistent
<1>4. CASE e.type = "GATE_OUT"
  BY <1>4 DEF Recorded, Row, Consistent
<1>5. CASE e.type \in {"LOADED", "REPAIRED", "RELEASED", "DAMAGED"}
  BY <1>5 DEF Recorded, Row, Consistent
<1> QED  BY <1>2, <1>3, <1>4, <1>5 DEF EventTypes

LEMMA UnracedInit == DeskInit => UnracedInv
<1> SUFFICES ASSUME DeskInit PROVE UnracedInv
  OBVIOUS
<1>1. \A b \in Boxes : row[b].status = "AVAILABLE"
  BY DEF DeskInit
<1>2. \A c \in Clerks : request[c] = Idle
  BY DEF DeskInit
<1> QED  BY <1>1, <1>2 DEF UnracedInv, Consistent, Holding

\* A box that is taken while another request has it counts as raced.
LEMMA TakesUnraced ==
    ASSUME HeldInv, UnracedInv, NEW c \in Clerks, NEW r \in Request \ {Idle}, Takes(c, r),
           r.op \in {"assign", "revert", "event"} => r.seen = row[r.box],
           r.op = "event" => Consistent(r.new)
    PROVE  UnracedInv'
<1>1. /\ request' = [request EXCEPT ![c] = r]
      /\ raced' = IF \E d \in Clerks \ {c} : Holding(d, r.box)
                  THEN raced \cup {r.box} ELSE raced
      /\ row' = row
  BY DEF Takes
<1>2. request \in [Clerks -> Request]
  BY DEF HeldInv, TypeOK
<1>3. request'[c] = r /\ \A d \in Clerks \ {c} : request'[d] = request[d]
  BY <1>1, <1>2
<1> SUFFICES ASSUME NEW b \in Boxes \ raced'
             PROVE  /\ Consistent(row'[b])
                    /\ \A e, d \in Clerks : Holding(e, b)' /\ Holding(d, b)' => e = d
                    /\ \A d \in Clerks : Holding(d, b)' =>
                          /\ HasRead(d)' => request'[d].seen = row'[b]
                          /\ request'[d].op = "event" => Consistent(request'[d].new)
  BY DEF UnracedInv, Consistent
<1>4. b \in Boxes \ raced /\ (r.box = b => \A d \in Clerks \ {c} : ~Holding(d, b))
  BY <1>1
<1>5. /\ Consistent(row[b])
      /\ \A e, d \in Clerks : Holding(e, b) /\ Holding(d, b) => e = d
      /\ \A d \in Clerks : Holding(d, b) =>
            /\ HasRead(d) => request[d].seen = row[b]
            /\ request[d].op = "event" => Consistent(request[d].new)
  BY <1>4 DEF UnracedInv
<1>6. /\ Holding(c, b)' <=> r.box = b
      /\ \A d \in Clerks \ {c} : Holding(d, b)' <=> Holding(d, b)
  BY <1>3 DEF Holding, Idle
<1>7. \A e, d \in Clerks : Holding(e, b)' /\ Holding(d, b)' => e = d
  BY <1>4, <1>5, <1>6
<1>8. ASSUME NEW d \in Clerks, Holding(d, b)'
      PROVE  /\ HasRead(d)' => request'[d].seen = row'[b]
             /\ request'[d].op = "event" => Consistent(request'[d].new)
  <2>1. CASE d = c
    BY <1>1, <1>3, <1>6, <1>8, <2>1 DEF HasRead
  <2>2. CASE d # c
    BY <1>1, <1>3, <1>5, <1>6, <1>8, <2>2 DEF HasRead
  <2> QED  BY <2>1, <2>2
<1> QED  BY <1>1, <1>5, <1>7, <1>8

LEMMA ReadsUnraced ==
    ASSUME HeldInv, UnracedInv, NEW c \in Clerks,
           \/ \E b \in Boxes, k \in BookingIds : AssignReads(c, b, k)
           \/ \E a \in Assignments : ReleaseReads(c, a)
           \/ ReleaseReadsBox(c)
           \/ \E b \in Boxes, e \in Event : EventReads(c, b, e)
    PROVE  UnracedInv'
<1>0. row \in [Boxes -> Row] /\ made \in [Assignments -> Assignment \cup {None}]
      /\ request[c] \in Request
  BY DEF HeldInv, TypeOK
<1>1. ASSUME NEW b \in Boxes, NEW k \in BookingIds, AssignReads(c, b, k) PROVE UnracedInv'
  <2> DEFINE r == [op |-> "assign", box |-> b, booking |-> k, seen |-> row[b]]
  <2>1. r \in Request \ {Idle} /\ r.op = "assign" /\ r.seen = row[r.box]
    BY <1>0 DEF Request, Idle
  <2>2. Takes(c, r)
    BY <1>1 DEF AssignReads
  <2> HIDE DEF r
  <2> QED  BY <2>1, <2>2, TakesUnraced
<1>2. ASSUME NEW a \in Assignments, ReleaseReads(c, a) PROVE UnracedInv'
  <2> DEFINE r == [op |-> "release", assignment |-> a, box |-> made[a].box]
  <2>1. made[a] \in Assignment
    BY <1>0, <1>2 DEF ReleaseReads
  <2>2. r \in Request \ {Idle} /\ r.op = "release"
    BY <2>1 DEF Request, Idle, Assignment
  <2>3. Takes(c, r)
    BY <1>2 DEF ReleaseReads
  <2> HIDE DEF r
  <2> QED  BY <2>2, <2>3, TakesUnraced
<1>3. ASSUME ReleaseReadsBox(c) PROVE UnracedInv'
  <2> DEFINE q == request[c]
             r == [op |-> "revert", assignment |-> q.assignment, box |-> q.box,
                   seen |-> row[q.box]]
  <2>1. q.op = "release"
    BY <1>3 DEF ReleaseReadsBox
  <2>2. q.assignment \in Assignments /\ q.box \in Boxes
    BY <1>0, <2>1 DEF Request, Idle
  <2>3. row[q.box] \in Row
    BY <1>0, <2>2
  <2>4. Takes(c, r)
    BY <1>3 DEF ReleaseReadsBox
  <2> HIDE DEF q
  <2>5. r \in Request \ {Idle} /\ r.op = "revert" /\ r.seen = row[r.box]
    BY <2>2, <2>3 DEF Request, Idle
  <2> HIDE DEF r
  <2> QED  BY <2>4, <2>5, TakesUnraced
<1>4. ASSUME NEW b \in Boxes, NEW e \in Event, EventReads(c, b, e) PROVE UnracedInv'
  <2> DEFINE n == Recorded(row[b], e)
             r == [op |-> "event", box |-> b, seen |-> row[b], new |-> n]
  <2>1. row[b] \in Row
    BY <1>0
  <2>2. n \in Row /\ Consistent(n)
    BY <2>1, RecordedRow, RecordedIsConsistent
  <2>3. Takes(c, r)
    BY <1>4 DEF EventReads
  <2> HIDE DEF n
  <2>4. r \in Request \ {Idle} /\ r.op = "event" /\ r.seen = row[r.box] /\ r.new = n
    BY <2>1, <2>2 DEF Request, Idle
  <2> HIDE DEF r
  <2> QED  BY <2>2, <2>3, <2>4, TakesUnraced
<1> QED  BY <1>1, <1>2, <1>3, <1>4

\* A commit of a row that is consistent leaves the box so.
LEMMA CommitsUnraced ==
    ASSUME HeldInv, UnracedInv, NEW c \in Clerks, NEW new \in Row, Commits(c, new),
           HasRead(c), request[c].box \notin raced => Consistent(new)
    PROVE  UnracedInv'
<1> DEFINE b == request[c].box
<1>1. /\ request \in [Clerks -> Request] /\ row \in [Boxes -> Row] /\ request[c] \in Request
  BY DEF HeldInv, TypeOK
<1>2. b \in Boxes /\ request[c] # Idle
  BY <1>1 DEF HasRead, Request, Idle
<1>3. /\ row' = [row EXCEPT ![b] = Flushed(@, request[c].seen, new)]
      /\ request' = [request EXCEPT ![c] = Idle]
      /\ raced' = raced
  BY DEF Commits
<1>4. /\ row'[b] = Flushed(row[b], request[c].seen, new)
      /\ \A x \in Boxes \ {b} : row'[x] = row[x]
      /\ request'[c] = Idle /\ \A d \in Clerks \ {c} : request'[d] = request[d]
  BY <1>1, <1>2, <1>3
<1>5. \A x : /\ ~Holding(c, x)'
             /\ \A d \in Clerks \ {c} : Holding(d, x)' <=> Holding(d, x)
  BY <1>4 DEF Holding
<1>6. \A d \in Clerks \ {c} : HasRead(d)' <=> HasRead(d)
  BY <1>4 DEF HasRead
<1> SUFFICES ASSUME NEW x \in Boxes \ raced'
             PROVE  /\ Consistent(row'[x])
                    /\ \A e, d \in Clerks : Holding(e, x)' /\ Holding(d, x)' => e = d
                    /\ \A d \in Clerks : Holding(d, x)' =>
                          /\ HasRead(d)' => request'[d].seen = row'[x]
                          /\ request'[d].op = "event" => Consistent(request'[d].new)
  BY DEF UnracedInv, Consistent
<1>7. /\ Consistent(row[x])
      /\ \A e, d \in Clerks : Holding(e, x) /\ Holding(d, x) => e = d
      /\ \A d \in Clerks : Holding(d, x) =>
            /\ HasRead(d) => request[d].seen = row[x]
            /\ request[d].op = "event" => Consistent(request[d].new)
  BY <1>3 DEF UnracedInv
<1>8. CASE x = b
  <2>1. Holding(c, x)
    BY <1>2, <1>8 DEF Holding
  <2>2. request[c].seen = row[x] /\ row[x] \in Row
    BY <1>1, <1>2, <1>7, <1>8, <2>1
  <2>3. row'[x] = Flushed(row[x], request[c].seen, new)
    BY <1>4, <1>8
  <2>4. row'[x] = new
    BY <2>2, <2>3, FlushedUnchanged
  <2>5. ASSUME NEW d \in Clerks, Holding(d, x)' PROVE FALSE
    <3>1. d # c /\ Holding(d, x)
      BY <1>5, <2>5
    <3> QED  BY <1>7, <2>1, <3>1
  <2>6. Consistent(new)
    BY <1>3, <1>8
  <2> QED  BY <2>4, <2>5, <2>6
<1>9. CASE x # b
  <2>1. row'[x] = row[x]
    BY <1>4, <1>9
  <2> HIDE DEF b
  <2> QED  BY <1>4, <1>5, <1>6, <1>7, <2>1
<1> QED  BY <1>8, <1>9

LEMMA EachCommitUnraced ==
    ASSUME HeldInv, UnracedInv, NEW c \in Clerks,
           AssignCommits(c) \/ ReleaseCommits(c) \/ EventCommits(c)
    PROVE  UnracedInv'
<1> DEFINE q == request[c]
<1>0. q \in Request /\ row \in [Boxes -> Row]
  BY DEF HeldInv, TypeOK
<1>1. CASE AssignCommits(c)
  <2> DEFINE n == [q.seen EXCEPT !.status = "ASSIGNED"]
  <2>1. q.op = "assign" /\ Commits(c, n)
    BY <1>1 DEF AssignCommits
  <2>2. q.seen \in Row
    BY <1>0, <2>1 DEF Request, Idle
  <2>3. n \in Row /\ Consistent(n)
    BY <2>2 DEF Row, Statuses, Consistent
  <2> HIDE DEF n
  <2> QED  BY <2>1, <2>3, CommitsUnraced DEF HasRead
<1>2. CASE ReleaseCommits(c)
  <2> DEFINE n == Reverted(q.seen)
  <2>1. q.op = "revert" /\ Commits(c, n)
    BY <1>2 DEF ReleaseCommits
  <2>2. q.seen \in Row
    BY <1>0, <2>1 DEF Request, Idle
  <2>3. n \in Row /\ Consistent(n)
    BY <2>2 DEF Row, Statuses, Consistent, Reverted
  <2> HIDE DEF n
  <2> QED  BY <2>1, <2>3, CommitsUnraced DEF HasRead
<1>3. CASE EventCommits(c)
  <2>1. q.op = "event" /\ Commits(c, q.new)
    BY <1>3 DEF EventCommits
  <2>2. q.new \in Row /\ q.box \in Boxes /\ q # Idle
    BY <1>0, <2>1 DEF Request, Idle
  <2>3. Holding(c, q.box)
    BY <2>2 DEF Holding
  <2>4. q.box \notin raced => Consistent(q.new)
    BY <2>1, <2>2, <2>3 DEF UnracedInv
  <2> QED  BY <2>1, <2>2, <2>4, CommitsUnraced DEF HasRead
<1> QED  BY <1>1, <1>2, <1>3

LEMMA UnracedStep == HeldInv /\ UnracedInv /\ [DeskNext]_deskVars => UnracedInv'
<1> SUFFICES ASSUME HeldInv, UnracedInv, [DeskNext]_deskVars PROVE UnracedInv'
  OBVIOUS
<1>1. CASE DeskNext
  <2>1. PICK c \in Clerks :
           \/ \/ \E b \in Boxes, k \in BookingIds : AssignReads(c, b, k)
              \/ \E a \in Assignments : ReleaseReads(c, a)
              \/ ReleaseReadsBox(c)
              \/ \E b \in Boxes, e \in Event : EventReads(c, b, e)
           \/ AssignCommits(c) \/ ReleaseCommits(c) \/ EventCommits(c)
    BY <1>1 DEF DeskNext
  <2> QED  BY <2>1, ReadsUnraced, EachCommitUnraced
<1>2. CASE UNCHANGED deskVars
  BY <1>2 DEF deskVars, UnracedInv, Consistent, Holding, HasRead
<1> QED  BY <1>1, <1>2

LEMMA UnracedIsConsistent == HeldInv /\ UnracedInv => UnracedBoxIsConsistent
<1> SUFFICES ASSUME HeldInv, UnracedInv PROVE UnracedBoxIsConsistent
  OBVIOUS
<1>1. \A b \in Boxes \ raced : Consistent(row[b])
  BY DEF UnracedInv
<1>2. ASSUME raced = {}, NEW l \in Locations PROVE Inventory(l).in_transit = 0
  <2>1. {b \in Boxes : row[b].location = l /\ row[b].status \in {"IN_TRANSIT"}} = {}
    BY <1>1, <1>2, DeskAssumption DEF Consistent
  <2>2. Inventory(l).in_transit = Cardinality({})
    BY <2>1 DEF Inventory
  <2> QED  BY <2>2, FS_EmptySet
<1> QED  BY <1>1, <1>2 DEF UnracedBoxIsConsistent, Consistent

(***************************************************************************)
(* The columns of a box agree as long as no two requests had it at once,   *)
(* and the in-transit column of the inventory stays empty.                 *)
(***************************************************************************)
THEOREM UnracedConsistent == DeskSpec => []UnracedBoxIsConsistent
<1>1. DeskInit => HeldInv /\ UnracedInv
  BY HeldInit, UnracedInit
<1>2. HeldInv /\ UnracedInv /\ [DeskNext]_deskVars => (HeldInv /\ UnracedInv)'
  BY HeldStep, UnracedStep
<1> QED  BY <1>1, <1>2, UnracedIsConsistent, PTL DEF DeskSpec

=============================================================================
