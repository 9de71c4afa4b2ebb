---- MODULE Competition_proofs ----
(* The statistics of the competition service, for any matches, players and *)
(* ratings, whatever is reported and wherever requests are cut off.        *)
EXTENDS Competition, FiniteSetTheorems, SequenceTheorems, TLAPS

-----------------------------------------------------------------------------
(* Sums over finite sets.  MapThenSumSet is a recursive function on the       *)
(* subsets of its set; that it exists, and that its value is a number, is     *)
(* shown with the smallest subset for which it might fail.                    *)

Picked(s) == CHOOSE x \in s : TRUE

\* f adds up the values of e over the subsets of S.
Adds(e, S, f) ==
  f = [s \in SUBSET S |-> IF s = {} THEN 0 ELSE e[Picked(s)] + f[s \ {Picked(s)}]]

\* A set of subsets of a finite set has a member none of whose proper subsets is in it.
LEMMA SmallestSubset ==
  ASSUME NEW S, IsFiniteSet(S), NEW T \in SUBSET (SUBSET S), T # {}
  PROVE  \E s \in T : \A u \in T : u \subseteq s => u = s
<1>1. T \subseteq FiniteSubsetsOf(S)
  BY FS_Subset DEF FiniteSubsetsOf
<1>2. PICK s \in T : \A u \in T : <<u, s>> \notin StrictSubsetOrdering(S)
  BY <1>1, FS_StrictSubsetOrderingWellFounded, WFMin
<1>3. \A u \in T : u \subseteq s => u = s
  BY <1>2 DEF StrictSubsetOrdering
<1> QED
  BY <1>3

\* There is at most one such function.
LEMMA AddsIsUnique ==
  ASSUME NEW e, NEW S, IsFiniteSet(S), NEW f, NEW g, Adds(e, S, f), Adds(e, S, g)
  PROVE  f = g
<1> DEFINE T == {s \in SUBSET S : f[s] # g[s]}
<1>1. SUFFICES ASSUME T # {}
               PROVE  FALSE
  BY DEF Adds
<1>2. PICK s \in T : \A u \in T : u \subseteq s => u = s
  <2>1. T \in SUBSET (SUBSET S)
    OBVIOUS
  <2> HIDE DEF T
  <2> QED
    BY <1>1, <2>1, SmallestSubset
<1>3. s # {}
  BY <1>2 DEF Adds
<1>4. Picked(s) \in s
  BY <1>3 DEF Picked
<1>5. s \ {Picked(s)} \in SUBSET S /\ s \ {Picked(s)} # s
  BY <1>4
<1>6. f[s \ {Picked(s)}] = g[s \ {Picked(s)}]
  BY <1>2, <1>5
<1> QED
  BY <1>2, <1>3, <1>6 DEF Adds

\* Restricted to a smaller set it adds up the values over the subsets of that set.
LEMMA AddsOnSubset ==
  ASSUME NEW e, NEW S, NEW f, Adds(e, S, f), NEW U \in SUBSET S
  PROVE  Adds(e, U, [s \in SUBSET U |-> f[s]])
<1> DEFINE g == [s \in SUBSET U |-> f[s]]
<1>1. \A s \in SUBSET U : g[s] = IF s = {} THEN 0 ELSE e[Picked(s)] + g[s \ {Picked(s)}]
  BY DEF Adds
<1> QED
  BY <1>1 DEF Adds

\* There is such a function.
LEMMA AddsExists ==
  ASSUME NEW e, NEW S, IsFiniteSet(S)
  PROVE  \E f : Adds(e, S, f)
<1> DEFINE T == {s \in SUBSET S : ~\E f : Adds(e, s, f)}
<1>1. SUFFICES ASSUME T # {}
               PROVE  FALSE
  OBVIOUS
<1>2. PICK s \in T : \A u \in T : u \subseteq s => u = s
  <2>1. T \in SUBSET (SUBSET S)
    OBVIOUS
  <2> HIDE DEF T
  <2> QED
    BY <1>1, <2>1, SmallestSubset
<1> DEFINE F(u) == CHOOSE f : Adds(e, u, f)
<1>3. \A u \in SUBSET s : u # s => Adds(e, u, F(u))
  BY <1>2
<1> HIDE DEF F
<1> DEFINE G(u) == IF u = {} THEN 0 ELSE e[Picked(u)] + F(u \ {Picked(u)})[u \ {Picked(u)}]
           g == [u \in SUBSET s |-> G(u)]
<1>4. ASSUME NEW u \in SUBSET s, u # s
      PROVE  G(u) = F(u)[u]
  <2>1. F(u) = [t \in SUBSET u |-> IF t = {} THEN 0 ELSE e[Picked(t)] + F(u)[t \ {Picked(t)}]]
    BY <1>3, <1>4 DEF Adds
  <2>2. CASE u = {}
    BY <2>1, <2>2
  <2>3. CASE u # {}
    <3> DEFINE v == u \ {Picked(u)}
    <3>1. Picked(u) \in u
      BY <2>3 DEF Picked
    <3>2. v \in SUBSET u /\ v \in SUBSET s /\ v # s /\ IsFiniteSet(v)
      BY <1>2, <1>4, <3>1, FS_Subset
    <3>3. Adds(e, v, F(v)) /\ Adds(e, u, F(u))
      BY <1>3, <1>4, <3>2
    <3>4. Adds(e, v, [w \in SUBSET v |-> F(u)[w]])
      <4>1. PICK f : f = F(u)
        OBVIOUS
      <4> HIDE DEF v, F
      <4>2. Adds(e, u, f) /\ v \in SUBSET u
        BY <3>2, <3>3, <4>1
      <4>3. Adds(e, v, [w \in SUBSET v |-> f[w]])
        BY <4>2, AddsOnSubset
      <4> QED
        BY <4>1, <4>3
    <3>5. F(v) = [w \in SUBSET v |-> F(u)[w]]
      <4> HIDE DEF v
      <4> QED
        BY <3>2, <3>3, <3>4, AddsIsUnique
    <3>6. F(v)[v] = F(u)[v]
      BY <3>5
    <3>7. F(u)[u] = e[Picked(u)] + F(u)[v]
      BY <2>1, <2>3
    <3> QED
      BY <2>3, <3>6, <3>7
  <2> QED
    BY <2>2, <2>3
<1>5. \A u \in SUBSET s : u # {} => Picked(u) \in u
  BY DEF Picked
<1>6. ASSUME NEW u \in SUBSET s, u # {}
      PROVE  g[u] = e[Picked(u)] + g[u \ {Picked(u)}]
  <2> DEFINE v == u \ {Picked(u)}
  <2>1. v \in SUBSET s /\ v # s
    BY <1>5, <1>6
  <2>2. G(v) = F(v)[v]
    BY <1>4, <2>1
  <2>3. G(u) = e[Picked(u)] + F(v)[v]
    BY <1>6
  <2> HIDE DEF G
  <2>4. g[u] = G(u) /\ g[v] = G(v)
    BY <2>1
  <2> QED
    BY <2>2, <2>3, <2>4
<1>7. g[{}] = 0
  OBVIOUS
<1>8. Adds(e, s, g)
  <2>1. g = [u \in SUBSET s |-> g[u]]
    OBVIOUS
  <2>2. \A u \in SUBSET s : g[u] = IF u = {} THEN 0 ELSE e[Picked(u)] + g[u \ {Picked(u)}]
    BY <1>6, <1>7
  <2> HIDE DEF g
  <2> QED
    BY <2>1, <2>2 DEF Adds
<1> QED
  BY <1>2, <1>8

\* The sum of e over S.
Total(e, S) == (CHOOSE f : Adds(e, S, f))[S]

\* The sum of natural numbers is one.  MapThenSumSet(LAMBDA i : e[i], S) stands for
\* Total(e, S).
LEMMA SumIsNat ==
  ASSUME NEW T, NEW e \in [T -> Nat], NEW S \in SUBSET T, IsFiniteSet(S)
  PROVE  Total(e, S) \in Nat
<1> DEFINE f == CHOOSE g : Adds(e, S, g)
<1>2. Adds(e, S, f)
  BY AddsExists
<1> HIDE DEF f
<1> DEFINE B == {s \in SUBSET S : f[s] \notin Nat}
<1>3. B = {}
  <2> SUFFICES ASSUME B # {}
               PROVE  FALSE
    OBVIOUS
  <2>1. PICK s \in B : \A u \in B : u \subseteq s => u = s
    <3>1. B \in SUBSET (SUBSET S)
      OBVIOUS
    <3> HIDE DEF B
    <3> QED
      BY <3>1, SmallestSubset
  <2>2. s # {}
    BY <1>2, <2>1 DEF Adds
  <2>3. Picked(s) \in s
    BY <2>2 DEF Picked
  <2>4. f[s \ {Picked(s)}] \in Nat
    BY <2>1, <2>3
  <2>5. e[Picked(s)] \in Nat
    BY <2>1, <2>3
  <2>6. f[s] = e[Picked(s)] + f[s \ {Picked(s)}]
    BY <1>2, <2>1, <2>2 DEF Adds
  <2> QED
    BY <2>1, <2>4, <2>5, <2>6
<1>4. f[S] \in Nat
  BY <1>3
<1> QED
  BY <1>4 DEF f, Total

\* The sum over one element.
LEMMA SumOfOne ==
  ASSUME NEW e, NEW i, e[i] \in Nat
  PROVE  Total(e, {i}) = e[i]
<1> DEFINE f == CHOOSE g : Adds(e, {i}, g)
<1>1. Adds(e, {i}, f)
  BY AddsExists, FS_Singleton
<1> HIDE DEF f
<1>2. Picked({i}) = i
  BY DEF Picked
<1>3. f[{}] = 0
  BY <1>1 DEF Adds
<1>4. f[{i}] = e[i] + f[{}]
  <2>1. {i} \ {i} = {} /\ {i} # {}
    OBVIOUS
  <2> QED
    BY <1>1, <1>2, <2>1 DEF Adds
<1>5. f[{i}] = e[i]
  BY <1>3, <1>4
<1> QED
  BY <1>5 DEF f, Total

\* The sum over two.
LEMMA SumOfTwo ==
  ASSUME NEW e, NEW i, NEW j, i # j, e[i] \in Nat, e[j] \in Nat
  PROVE  Total(e, {i, j}) = e[i] + e[j]
<1> DEFINE f == CHOOSE g : Adds(e, {i, j}, g)
<1>1. Adds(e, {i, j}, f)
  <2>1. IsFiniteSet({i, j})
    <3>1. IsFiniteSet({i}) /\ IsFiniteSet({j}) /\ {i, j} = {i} \cup {j}
      BY FS_Singleton
    <3> QED
      BY <3>1, FS_Union
  <2> QED
    BY <2>1, AddsExists
<1> HIDE DEF f
<1>2. \A k \in {i, j} : f[{k}] = e[k]
  <2> TAKE k \in {i, j}
  <2>1. Picked({k}) = k /\ {k} \ {k} = {} /\ {k} # {}
    BY DEF Picked
  <2>2. f[{}] = 0
    BY <1>1 DEF Adds
  <2>3. f[{k}] = e[k] + f[{}]
    BY <1>1, <2>1 DEF Adds
  <2> QED
    BY <2>2, <2>3
<1>3. PICK k \in {i, j} : k = Picked({i, j})
  BY DEF Picked
<1>4. f[{i, j}] = e[k] + f[{i, j} \ {k}]
  BY <1>1, <1>3 DEF Adds
<1>5. f[{i, j}] = e[i] + e[j]
  <2>1. CASE k = i
    <3>1. {i, j} \ {k} = {j}
      BY <2>1
    <3> QED
      BY <1>2, <1>4, <2>1, <3>1
  <2>2. CASE k = j
    <3>1. {i, j} \ {k} = {i}
      BY <2>2
    <3>2. f[{i, j}] = e[j] + e[i]
      BY <1>2, <1>4, <2>2, <3>1
    <3>3. e[j] + e[i] = e[i] + e[j]
      BY e[i] \in Nat, e[j] \in Nat
    <3> QED
      BY <3>2, <3>3
  <2> QED
    BY <2>1, <2>2
<1> QED
  BY <1>5 DEF f, Total

-----------------------------------------------------------------------------
(* Ratings *)

\* The part of an interval of the curve that belongs to a difference of ratings.
LEMMA PartOfInterval ==
  ASSUME NEW c \in Nat, NEW e \in 0 .. 99
  PROVE  (c * e) \div 100 \in 0 .. c
<1>1. c * e \in Nat /\ c * (100 - e) \in Nat /\ c * e + c * (100 - e) = c * 100
  OBVIOUS
<1>2. PICK x \in Nat, y \in Nat : x = c * e /\ x + y = c * 100
  BY <1>1
<1>3. x \div 100 \in 0 .. c
  BY <1>2
<1> QED
  BY <1>2, <1>3

\* The curve rises from a half to 0.9901.
LEMMA CurveRises ==
  ASSUME NEW j \in 1 .. 9
  PROVE  /\ Curve[j] \in Nat /\ Curve[j + 1] \in Nat
         /\ 5000 <= Curve[j] /\ Curve[j] <= Curve[j + 1] /\ Curve[j + 1] <= 9901
<1>1. j \in {1, 2, 3, 4, 5, 6, 7, 8, 9}
  OBVIOUS
<1> QED
  BY <1>1 DEF Curve

\* The higher rated is expected to score a half or more, less than one, and an odd
\* number of units if the ratings differ.
LEMMA AboveInRange ==
  ASSUME NEW gap \in Nat
  PROVE  /\ Above(gap) \in Nat /\ 10000 <= Above(gap) /\ Above(gap) < 20000
         /\ Above(gap) = 10000 \/ Above(gap) % 2 = 1
         /\ gap = 0 => Above(gap) = 10000
<1>1. PICK d \in 0 .. 800 : d = IF gap > 800 THEN 800 ELSE gap
  OBVIOUS
<1>2. PICK i \in 1 .. 9, e \in 0 .. 99 : i = 1 + (d \div 100) /\ e = d % 100
  OBVIOUS
<1>3. PICK lower \in Nat, upper \in Nat :
        /\ lower = Curve[i] /\ upper = Curve[i + 1]
        /\ 5000 <= lower /\ lower <= upper /\ upper <= 9901
  BY CurveRises
<1>4. PICK c \in Nat : c = upper - lower
  BY <1>3
<1>5. (c * e) \div 100 \in 0 .. c
  BY PartOfInterval
<1>6. PICK x \in 0 .. c : x = (c * e) \div 100
  BY <1>5
<1>7. Above(gap) = LET score == lower + ((upper - lower) * e) \div 100
                   IN IF gap = 0 THEN 2 * score ELSE 2 * score + 1
  BY <1>1, <1>2, <1>3 DEF Above
<1>8. PICK score \in Nat : score = lower + x /\ 5000 <= score /\ score <= 9901
  BY <1>3, <1>4, <1>6
<1>9. Above(gap) = IF gap = 0 THEN 2 * score ELSE 2 * score + 1
  BY <1>4, <1>6, <1>7, <1>8
<1>10. CASE gap = 0
  <2>1. d = 0 /\ i = 1 /\ e = 0
    BY <1>1, <1>2, <1>10
  <2>2. lower = 5000
    BY <1>3, <2>1 DEF Curve
  <2>3. x = 0
    BY <1>6, <2>1
  <2> QED
    BY <1>8, <1>9, <1>10, <2>2, <2>3
<1>11. CASE gap # 0
  BY <1>8, <1>9, <1>11
<1> QED
  BY <1>10, <1>11

\* The expected score is a probability; it is a half or an odd number of units.
LEMMA ExpectedScoreInRange ==
  ASSUME NEW rating \in Nat, NEW opponent \in Nat
  PROVE  /\ ExpectedScore(rating, opponent) \in Nat
         /\ 0 < ExpectedScore(rating, opponent) /\ ExpectedScore(rating, opponent) < 20000
         /\ ExpectedScore(rating, opponent) = 10000 \/ ExpectedScore(rating, opponent) % 2 = 1
<1>1. CASE rating >= opponent
  <2>1. PICK d \in Nat : d = rating - opponent
    BY <1>1
  <2>2. PICK x \in Nat : x = Above(d) /\ 10000 <= x /\ x < 20000 /\ (x = 10000 \/ x % 2 = 1)
    BY AboveInRange
  <2>3. ExpectedScore(rating, opponent) = x
    BY <1>1, <2>1, <2>2 DEF ExpectedScore
  <2> QED
    BY <2>2, <2>3
<1>2. CASE ~(rating >= opponent)
  <2>1. PICK d \in Nat : d = opponent - rating
    BY <1>2
  <2>2. PICK x \in Nat : x = Above(d) /\ 10000 <= x /\ x < 20000 /\ (x = 10000 \/ x % 2 = 1)
    BY AboveInRange
  <2>3. PICK y \in Nat : y = 20000 - x /\ 0 < y /\ y < 20000 /\ (y = 10000 \/ y % 2 = 1)
    BY <2>2
  <2>4. ExpectedScore(rating, opponent) = y
    BY <1>2, <2>1, <2>2, <2>3 DEF ExpectedScore, One
  <2> QED
    BY <2>3, <2>4
<1> QED
  BY <1>1, <1>2

\* The expected scores of two opponents add up to one.
LEMMA ExpectedScoresAddUp ==
  ASSUME NEW a \in Nat, NEW b \in Nat
  PROVE  ExpectedScore(a, b) + ExpectedScore(b, a) = 20000
<1>1. CASE a = b
  <2>1. Above(0) = 10000
    BY AboveInRange
  <2>2. ExpectedScore(a, b) = Above(0) /\ ExpectedScore(b, a) = Above(0)
    BY <1>1 DEF ExpectedScore
  <2> QED
    BY <2>1, <2>2
<1>2. CASE a > b
  <2>1. a - b \in Nat
    BY <1>2
  <2>2. PICK x \in Nat : x = Above(a - b)
    BY <2>1, AboveInRange
  <2>3. ExpectedScore(a, b) = x /\ ExpectedScore(b, a) = 20000 - x
    BY <1>2, <2>2 DEF ExpectedScore, One
  <2> QED
    BY <2>3
<1>3. CASE b > a
  <2>1. b - a \in Nat
    BY <1>3
  <2>2. PICK x \in Nat : x = Above(b - a)
    BY <2>1, AboveInRange
  <2>3. ExpectedScore(b, a) = x /\ ExpectedScore(a, b) = 20000 - x
    BY <1>3, <2>2 DEF ExpectedScore, One
  <2> QED
    BY <2>3
<1> QED
  BY <1>1, <1>2, <1>3

\* No rating falls below the floor of 100.
LEMMA NewEloIsRating ==
  ASSUME NEW rating \in Nat, NEW opponent \in Nat, NEW won, NEW k \in Nat
  PROVE  NewElo(rating, opponent, won, k) \in Nat /\ NewElo(rating, opponent, won, k) >= 100
<1>1. PICK x \in Nat : x = ExpectedScore(rating, opponent)
  BY ExpectedScoreInRange
<1>2. \A y \in Int : Rounded(y) \in Int
  BY SMT DEF Rounded, One
<1>3. PICK y \in Int : y = One * rating + k * ((IF won THEN One ELSE 0) - x)
  BY SMT DEF One
<1>4. NewElo(rating, opponent, won, k) = IF Rounded(y) > 100 THEN Rounded(y) ELSE 100
  BY <1>1, <1>3 DEF NewElo
<1> QED
  BY <1>2, <1>4

\* y is half a point off a whole rating.
IsHalf(y) == y % One = One \div 2

\* Numbers of units that add up to whole points still do when both are rounded, if
\* neither is a half.
LEMMA RoundedMirrors ==
  ASSUME NEW s \in Nat, NEW y \in Int, NEW z \in Int, y + z = One * s, ~IsHalf(y)
  PROVE  Rounded(y) + Rounded(z) = s
BY SMTT(30) DEF Rounded, IsHalf, One

\* Within 40 points of a rating a number rounds to one within 40 points.
LEMMA RoundedNear ==
  ASSUME NEW a \in Nat, NEW y \in Int, One * (a - 40) <= y, y <= One * (a + 40)
  PROVE  Rounded(y) \in Int /\ a - 40 <= Rounded(y) /\ Rounded(y) <= a + 40
BY SMTT(30) DEF Rounded, One

\* No rating changes by a half.
LEMMA NoHalves ==
  ASSUME NEW k \in {20, 40}, NEW a \in Nat, NEW z \in Int, z = 10000 \/ z = - 10000 \/ z % 2 = 1
  PROVE  ~IsHalf(One * a + k * z)
<1>1. CASE k = 20
  BY <1>1, SMTT(30) DEF IsHalf, One
<1>2. CASE k = 40
  BY <1>2, SMTT(30) DEF IsHalf, One
<1> QED
  BY <1>1, <1>2

\* Far enough from the floor a player wins or loses at most 40 points, and what one of
\* two opponents of the same K-factor gains the other loses.
LEMMA NewElosMirror ==
  ASSUME NEW a \in Nat, NEW b \in Nat, NEW k \in {20, 40}, a >= 140, b >= 140, NEW won \in BOOLEAN
  PROVE  /\ NewElo(a, b, won, k) \in Int
         /\ a - 40 <= NewElo(a, b, won, k) /\ NewElo(a, b, won, k) <= a + 40
         /\ NewElo(a, b, won, k) + NewElo(b, a, ~won, k) = a + b
<1>1. PICK e \in Nat : e = ExpectedScore(a, b) /\ 0 < e /\ e < 20000 /\ (e = 10000 \/ e % 2 = 1)
  BY ExpectedScoreInRange
<1>2. PICK f \in Nat : f = ExpectedScore(b, a)
  BY ExpectedScoreInRange
<1>3. e + f = 20000
  BY <1>1, <1>2, ExpectedScoresAddUp
<1>4. PICK z \in Int : z = (IF won THEN One ELSE 0) - e
  BY SMT DEF One
<1>5. (IF ~won THEN One ELSE 0) - f = - z
  BY <1>3, <1>4, SMT DEF One
<1>6. - 20000 <= z /\ z <= 20000 /\ (z = 10000 \/ z = - 10000 \/ z % 2 = 1)
  BY <1>1, <1>4, SMT DEF One
<1>7. PICK y \in Int : y = One * a + k * z
  BY SMT DEF One
<1>8. PICK v \in Int : v = One * b + k * (- z)
  BY SMT DEF One
<1>9. One * (a - 40) <= y /\ y <= One * (a + 40) /\ One * (b - 40) <= v /\ v <= One * (b + 40)
  BY <1>6, <1>7, <1>8, SMT DEF One
<1>10. /\ Rounded(y) \in Int /\ a - 40 <= Rounded(y) /\ Rounded(y) <= a + 40
       /\ Rounded(v) \in Int /\ b - 40 <= Rounded(v)
  BY <1>9, RoundedNear
<1>11. NewElo(a, b, won, k) = IF Rounded(y) > 100 THEN Rounded(y) ELSE 100
  BY <1>1, <1>4, <1>7 DEF NewElo
<1>12. NewElo(b, a, ~won, k) = IF Rounded(v) > 100 THEN Rounded(v) ELSE 100
  BY <1>2, <1>5, <1>8 DEF NewElo
<1>13. NewElo(a, b, won, k) = Rounded(y) /\ NewElo(b, a, ~won, k) = Rounded(v)
  BY <1>10, <1>11, <1>12
<1>14. Rounded(y) + Rounded(v) = a + b
  <2>1. PICK s \in Nat : s = a + b
    OBVIOUS
  <2>2. y + v = One * s
    BY <1>7, <1>8, <2>1, SMT DEF One
  <2>3. ~IsHalf(y)
    BY <1>6, <1>7, NoHalves
  <2>4. Rounded(y) + Rounded(v) = s
    BY <2>2, <2>3, RoundedMirrors, Zenon
  <2> QED
    BY <2>1, <2>4
<1> QED
  BY <1>10, <1>13, <1>14

-----------------------------------------------------------------------------
(* The inductive invariant *)

\* The session of the request is being finalized.
Finalizes == request # Idle /\ request.at \in {"updating", "rating", "finishing"}

\* A request has its report stored before it is counted as received, has reporters
\* left exactly while it updates them, rates only in a ranked match, and finalizes
\* only what is not finalized.
RequestOK ==
  request # Idle =>
    /\ request.at \in {"stored", "marked"} /\ request.csid \in Matches
         => session[request.csid].received < Len(reports[request.csid])
    /\ request.left # {} <=> request.at \in {"updating", "rating"}
    /\ request.at = "rating" => RankedMatch(request.csid)
    /\ Finalizes => request.csid \in Matches /\ ~session[request.csid].finalized

\* Everyone who sent a report has a first one.
FirstsExist ==
  \A m \in Csids : \A i \in DOMAIN reports[m] :
    \E n \in FirstReports(m) : reports[m][n].persona = reports[m][i].persona

\* What every state satisfies, whatever the requests are.
StateInv == CompetitionTypeOK /\ RequestOK /\ FirstsExist

\* The reports of a csid are a sequence of bounded length.
LEMMA ReportRows ==
  ASSUME CompetitionTypeOK, NEW m \in Csids
  PROVE  /\ reports[m] \in Seq(Report)
         /\ Len(reports[m]) \in 0 .. MaxReports
         /\ DOMAIN reports[m] = 1 .. Len(reports[m])
<1>1. PICK n \in 0 .. MaxReports : reports[m] \in [1 .. n -> Report]
  <2>1. reports \in [Csids -> UNION {[1 .. n -> Report] : n \in 0 .. MaxReports}]
    BY DEF CompetitionTypeOK
  <2>2. reports[m] \in UNION {[1 .. n -> Report] : n \in 0 .. MaxReports}
    BY <2>1
  <2> QED
    BY <2>2
<1>2. n \in Nat
  BY <1>1, CompetitionAssumption
<1>3. reports[m] \in Seq(Report) /\ Len(reports[m]) = n
  BY <1>1, <1>2
<1> QED
  BY <1>1, <1>3

\* A new report leaves the first reports of others alone; it is itself a first
\* report when its sender has sent none before.
LEMMA NewReport ==
  ASSUME CompetitionTypeOK, NEW m \in Csids, NEW r \in Report, Len(reports[m]) < MaxReports,
         reports' = [reports EXCEPT ![m] = Append(@, r)]
  PROVE  /\ reports' \in [Csids -> UNION {[1 .. n -> Report] : n \in 0 .. MaxReports}]
         /\ DOMAIN reports'[m] = 1 .. (Len(reports[m]) + 1)
         /\ Len(reports'[m]) = Len(reports[m]) + 1
         /\ \A i \in 1 .. Len(reports[m]) : reports'[m][i] = reports[m][i]
         /\ reports'[m][Len(reports[m]) + 1] = r
         /\ FirstReports(m)' = FirstReports(m) \cup
              (IF \E i \in 1 .. Len(reports[m]) : reports[m][i].persona = r.persona
               THEN {} ELSE {Len(reports[m]) + 1})
<1> DEFINE k == Len(reports[m])
<1>1. reports[m] \in Seq(Report) /\ k \in Nat /\ k < MaxReports /\ DOMAIN reports[m] = 1 .. k
  BY ReportRows
<1>2. reports'[m] = Append(reports[m], r)
  BY DEF CompetitionTypeOK
<1>3. /\ Append(reports[m], r) \in Seq(Report)
      /\ Len(Append(reports[m], r)) = k + 1
      /\ \A i \in 1 .. k : Append(reports[m], r)[i] = reports[m][i]
      /\ Append(reports[m], r)[k + 1] = r
  BY <1>1, AppendProperties
<1>4. reports'[m] \in [1 .. (k + 1) -> Report] /\ k + 1 \in 0 .. MaxReports
  <2>1. MaxReports \in Nat
    BY CompetitionAssumption
  <2>2. Append(reports[m], r) \in [1 .. (k + 1) -> Report]
    BY <1>3, LenProperties
  <2> QED
    BY <1>1, <1>2, <2>1, <2>2
<1>5. reports' \in [Csids -> UNION {[1 .. n -> Report] : n \in 0 .. MaxReports}]
  BY <1>4 DEF CompetitionTypeOK
<1>6. DOMAIN reports'[m] = 1 .. (k + 1)
  BY <1>4
<1>7. \A n \in 1 .. k : n \in FirstReports(m)' <=> n \in FirstReports(m)
  <2> TAKE n \in 1 .. k
  <2>1. \A i \in 1 .. (n - 1) : reports'[m][i] = reports[m][i]
    BY <1>1, <1>2, <1>3
  <2> QED
    BY <1>1, <1>2, <1>3, <1>6, <2>1 DEF FirstReports
<1>8. k + 1 \in FirstReports(m)' <=> ~\E i \in 1 .. k : reports[m][i].persona = r.persona
  BY <1>1, <1>2, <1>3, <1>6 DEF FirstReports
<1>9. FirstReports(m)' \subseteq 1 .. (k + 1) /\ FirstReports(m) \subseteq 1 .. k
  BY <1>1, <1>6 DEF FirstReports
<1>10. FirstReports(m)' = FirstReports(m) \cup
         (IF \E i \in 1 .. k : reports[m][i].persona = r.persona THEN {} ELSE {k + 1})
  BY <1>1, <1>7, <1>8, <1>9
<1> QED
  BY <1>1, <1>2, <1>3, <1>5, <1>6, <1>10

\* No two first reports are of the same persona.
LEMMA FirstsDiffer ==
  ASSUME CompetitionTypeOK, NEW m \in Csids, NEW i \in FirstReports(m), NEW j \in FirstReports(m), i # j
  PROVE  reports[m][i].persona # reports[m][j].persona
<1>1. i \in Nat \ {0} /\ j \in Nat \ {0}
  BY ReportRows DEF FirstReports
<1>2. CASE i < j
  BY <1>1, <1>2 DEF FirstReports
<1>3. CASE j < i
  BY <1>1, <1>3 DEF FirstReports
<1> QED
  BY <1>1, <1>2, <1>3

\* The first reports are among the reports of their match.
LEMMA FirstsAreReports ==
  ASSUME CompetitionTypeOK, NEW m \in Csids
  PROVE  /\ FirstReports(m) \subseteq 1 .. Len(reports[m])
         /\ FirstReports(m) \subseteq 1 .. MaxReports
         /\ IsFiniteSet(FirstReports(m))
         /\ \A n \in FirstReports(m) : reports[m][n] \in Report
<1>1. Len(reports[m]) \in 0 .. MaxReports /\ FirstReports(m) \subseteq 1 .. Len(reports[m])
  BY ReportRows DEF FirstReports
<1>2. IsFiniteSet(1 .. Len(reports[m]))
  BY <1>1, FS_Interval
<1>3. \A n \in 1 .. Len(reports[m]) : reports[m][n] \in Report
  BY ReportRows
<1> QED
  <2>1. FirstReports(m) \in SUBSET (1 .. Len(reports[m])) /\ FirstReports(m) \subseteq 1 .. MaxReports
    BY <1>1, CompetitionAssumption
  <2>2. IsFiniteSet(FirstReports(m))
    BY <1>2, <2>1, FS_Subset
  <2> QED
    BY <1>3, <2>1, <2>2

\* A request in any of its steps is one the server can handle.
LEMMA RequestRecord ==
  ASSUME CompetitionTypeOK, request # Idle
  PROVE  /\ request \in Requests /\ request.csid \in Csids /\ request.persona \in Players
         /\ request.left \subseteq FirstReports(request.csid)
         /\ request.elo \in [1 .. MaxReports -> Nat]
BY DEF CompetitionTypeOK, Requests

\* The server starts with nothing stored and no request at work.
LEMMA InitEstablishesState == Init => StateInv
<1> SUFFICES ASSUME Init
             PROVE  StateInv
  OBVIOUS
<1>1. /\ outcome \in [Matches -> Outcomes] /\ cuts \in Nat /\ request = Idle
      /\ intents \in [Matches -> [Players -> {"none", "open", "reported"}]]
  BY DEF Init
<1>2. session \in [Matches -> [status : {"none", "active", "completed"},
                               received : 0 .. MaxReports, finalized : BOOLEAN]]
  BY CompetitionAssumption DEF Init
<1>3. \A m \in Csids : reports[m] = <<>>
  BY DEF Init
<1>4. reports \in [Csids -> UNION {[1 .. n -> Report] : n \in 0 .. MaxReports}]
  <2>1. 0 \in 0 .. MaxReports /\ <<>> \in [1 .. 0 -> Report]
    BY CompetitionAssumption
  <2> QED
    BY <2>1 DEF Init
<1>5. \A m \in Matches : session[m].received <= Len(reports[m])
  BY <1>3 DEF Init, Csids
<1>6. /\ stats \in [Players -> [wins : Nat, losses : Nat, games : Nat, rating : Nat]]
      /\ \A p \in Players : stats[p].rating >= 100
  BY CompetitionAssumption DEF Init
<1>7. CompetitionTypeOK
  BY <1>1, <1>2, <1>4, <1>5, <1>6 DEF CompetitionTypeOK
<1>8. RequestOK /\ FirstsExist
  BY <1>1, <1>3 DEF RequestOK, FirstsExist
<1> QED
  BY <1>7, <1>8 DEF StateInv

\* What a step does to the reports decides what they say.
LEMMA SameReports ==
  ASSUME UNCHANGED reports
  PROVE  \A m : /\ FirstReports(m)' = FirstReports(m)
                /\ RankedMatch(m)' = RankedMatch(m)
                /\ \A p : Sent(m, p)' = Sent(m, p)
BY DEF FirstReports, RankedMatch, Sent

\* The steps that leave the reports alone keep the state well typed if they do
\* so with what they change.
LEMMA QuietStepKeepsState ==
  ASSUME StateInv, UNCHANGED <<outcome, reports>>,
         session' \in [Matches -> [status : {"none", "active", "completed"},
                                   received : 0 .. MaxReports, finalized : BOOLEAN]],
         \A m \in Matches : session'[m].received <= Len(reports[m]),
         intents' \in [Matches -> [Players -> {"none", "open", "reported"}]],
         stats' \in [Players -> [wins : Nat, losses : Nat, games : Nat, rating : Nat]],
         \A p \in Players : stats'[p].rating >= 100,
         cuts' \in Nat,
         request' = Idle \/ (request' \in Requests /\ request'.left \subseteq FirstReports(request'.csid)),
         RequestOK'
  PROVE  StateInv'
<1>1. \A m \in Csids : FirstReports(m)' = FirstReports(m)
  BY SameReports
<1>2. \/ request' = Idle
      \/ request' \in Requests /\ request'.left \subseteq FirstReports(request.csid)'
  BY <1>1 DEF FirstReports
<1>3. CompetitionTypeOK'
  BY <1>2 DEF StateInv, CompetitionTypeOK
<1>4. FirstsExist'
  BY <1>1 DEF StateInv, FirstsExist
<1> QED
  BY <1>3, <1>4 DEF StateInv

\* handle_submit_report stores one report more.
LEMMA SubmitKeepsState ==
  ASSUME StateInv, NEW m \in Csids, NEW p \in Players, NEW final \in BOOLEAN, NEW form \in Forms \cup {"named"},
         NEW ranked \in BOOLEAN, Submit(m, p, final, form, ranked)
  PROVE  StateInv'
<1> DEFINE r == [persona |-> p, ranked |-> ranked,
                 result |-> IF m \in Matches THEN StoredResult(m, p, final, form) ELSE 0]
           k == Len(reports[m])
<1>1. r \in Report
  <2>1. ASSUME reports[m] # <<>>
        PROVE  reports[m][1].result \in {0, 1}
    <3>1. reports[m] \in Seq(Report) /\ Len(reports[m]) \in Nat /\ Len(reports[m]) # 0
      BY <2>1, ReportRows, EmptySeq, LenProperties DEF StateInv
    <3>2. reports[m][1] \in Report
      BY <3>1
    <3> QED
      BY <3>2 DEF Report
  <2>2. StoredResult(m, p, final, form) \in {0, 1}
    BY <2>1 DEF StoredResult
  <2> QED
    BY <2>2 DEF Report
<1>2. k < MaxReports /\ reports' = [reports EXCEPT ![m] = Append(@, r)]
  BY ReportRows, CompetitionAssumption DEF Submit, StateInv
<1>3. /\ request' = [csid |-> m, persona |-> p, final |-> final, at |-> "stored", left |-> {}, elo |-> NoElo]
      /\ request = Idle /\ UNCHANGED <<outcome, session, intents, stats, cuts>>
  BY DEF Submit
<1>4. request' \in Requests
  BY <1>3 DEF Requests, NoElo
<1> HIDE DEF r
<1>5. /\ reports' \in [Csids -> UNION {[1 .. n -> Report] : n \in 0 .. MaxReports}]
      /\ DOMAIN reports'[m] = 1 .. (k + 1) /\ Len(reports'[m]) = k + 1
      /\ \A i \in 1 .. k : reports'[m][i] = reports[m][i]
      /\ reports'[m][k + 1] = r
      /\ FirstReports(m)' = FirstReports(m) \cup
           (IF \E i \in 1 .. k : reports[m][i].persona = r.persona THEN {} ELSE {k + 1})
  BY <1>1, <1>2, NewReport DEF StateInv
<1>6. \A d \in Csids \ {m} : reports'[d] = reports[d] /\ FirstReports(d)' = FirstReports(d)
  BY <1>2 DEF StateInv, CompetitionTypeOK, FirstReports
<1>7. k \in Nat /\ DOMAIN reports[m] = 1 .. k
  BY ReportRows, CompetitionAssumption DEF StateInv
<1>8. \A d \in Matches : session'[d].received <= Len(reports'[d]) /\ (d = m => session'[d].received < Len(reports'[d]))
  <2> TAKE d \in Matches
  <2>1. session[d].received \in Int /\ session[d].received <= Len(reports[d]) /\ session' = session
    BY <1>3, CompetitionAssumption DEF StateInv, CompetitionTypeOK
  <2>2. CASE d = m
    BY <1>5, <1>7, <2>1, <2>2
  <2>3. CASE d # m
    BY <1>6, <2>1, <2>3 DEF Csids
  <2> QED
    BY <2>2, <2>3
<1>9. CompetitionTypeOK'
  <2>1. request'.left \subseteq FirstReports(request.csid)'
    BY <1>3
  <2> QED
    BY <1>3, <1>4, <1>5, <1>8, <2>1 DEF StateInv, CompetitionTypeOK
<1>10. RequestOK'
  BY <1>3, <1>8 DEF RequestOK, Finalizes
<1>11. FirstsExist'
  <2> SUFFICES ASSUME NEW d \in Csids, NEW i \in DOMAIN reports'[d]
               PROVE  \E n \in FirstReports(d)' : reports'[d][n].persona = reports'[d][i].persona
    BY DEF FirstsExist
  <2>1. CASE d # m
    BY <1>6, <2>1 DEF StateInv, FirstsExist
  <2>2. CASE d = m /\ i \in 1 .. k
    <3>1. PICK n \in FirstReports(m) : reports[m][n].persona = reports[m][i].persona
      BY <1>7, <2>2 DEF StateInv, FirstsExist
    <3>2. n \in 1 .. k
      BY <1>7 DEF FirstReports
    <3> QED
      BY <1>5, <2>2, <3>1, <3>2
  <2>3. CASE d = m /\ i = k + 1
    <3>1. CASE \E j \in 1 .. k : reports[m][j].persona = r.persona
      <4>1. PICK j \in 1 .. k : reports[m][j].persona = r.persona
        BY <3>1
      <4>2. PICK n \in FirstReports(m) : reports[m][n].persona = reports[m][j].persona
        BY <1>7, <4>1 DEF StateInv, FirstsExist
      <4>3. n \in 1 .. k
        BY <1>7 DEF FirstReports
      <4> QED
        BY <1>5, <2>3, <4>1, <4>2, <4>3
    <3>2. CASE ~\E j \in 1 .. k : reports[m][j].persona = r.persona
      BY <1>5, <2>3, <3>2
    <3> QED
      BY <3>1, <3>2
  <2> QED
    BY <1>5, <1>7, <2>1, <2>2, <2>3
<1> QED
  BY <1>9, <1>10, <1>11 DEF StateInv

\* A report in progress of a session that the server knows.
LEMMA CreatedIsMatch == \A m : Created(m) => m \in Matches
BY DEF Created

\* The rows of PlayerStats and of CompetitionSession stay rows when a column is updated.
LEMMA StatsRow ==
  ASSUME NEW row \in [wins : Nat, losses : Nat, games : Nat, rating : Nat], NEW new \in Nat
  PROVE  /\ [row EXCEPT !.wins = @ + 1] \in [wins : Nat, losses : Nat, games : Nat, rating : Nat]
         /\ [row EXCEPT !.losses = @ + 1] \in [wins : Nat, losses : Nat, games : Nat, rating : Nat]
         /\ [row EXCEPT !.games = @ + 1] \in [wins : Nat, losses : Nat, games : Nat, rating : Nat]
         /\ [row EXCEPT !.rating = new] \in [wins : Nat, losses : Nat, games : Nat, rating : Nat]
         /\ [row EXCEPT !.wins = @ + 1].rating = row.rating
         /\ [row EXCEPT !.losses = @ + 1].rating = row.rating
         /\ [row EXCEPT !.rating = new].rating = new
OBVIOUS

\* So do those of a session, as long as not every report is received.
LEMMA SessionRow ==
  ASSUME NEW row \in [status : {"none", "active", "completed"}, received : 0 .. MaxReports, finalized : BOOLEAN],
         NEW f \in BOOLEAN
  PROVE  /\ [row EXCEPT !.status = "completed", !.finalized = f] \in
              [status : {"none", "active", "completed"}, received : 0 .. MaxReports, finalized : BOOLEAN]
         /\ [row EXCEPT !.status = "completed", !.finalized = f].received = row.received
         /\ row.received < MaxReports => [row EXCEPT !.received = @ + 1] \in
              [status : {"none", "active", "completed"}, received : 0 .. MaxReports, finalized : BOOLEAN]
         /\ [row EXCEPT !.received = @ + 1].received = row.received + 1
<1>1. MaxReports \in Nat
  BY CompetitionAssumption
<1>2. [row EXCEPT !.status = "completed", !.finalized = f] \in
        [status : {"none", "active", "completed"}, received : 0 .. MaxReports, finalized : BOOLEAN]
  BY <1>1
<1>3. [row EXCEPT !.status = "completed", !.finalized = f].received = row.received
  BY <1>1
<1>4. row.received < MaxReports => [row EXCEPT !.received = @ + 1] \in
        [status : {"none", "active", "completed"}, received : 0 .. MaxReports, finalized : BOOLEAN]
  BY <1>1
<1>5. [row EXCEPT !.received = @ + 1].received = row.received + 1
  BY <1>1
<1> QED
  BY <1>2, <1>3, <1>4, <1>5

\* The average of the opponents' ratings is a rating again.
LEMMA OpponentEloIsNat ==
  ASSUME CompetitionTypeOK, request # Idle, NEW n
  PROVE  OpponentElo(n) \in Nat
<1> DEFINE rows == reports[request.csid]
           other == {i \in FirstReports(request.csid) : rows[i].result # rows[n].result}
           sum == Total(request.elo, other)
<1>1. /\ other \in SUBSET (1 .. MaxReports) /\ IsFiniteSet(other)
      /\ request.elo \in [1 .. MaxReports -> Nat]
  <2>1. FirstReports(request.csid) \subseteq 1 .. MaxReports /\ IsFiniteSet(FirstReports(request.csid))
    BY RequestRecord, FirstsAreReports
  <2>2. other \in SUBSET FirstReports(request.csid)
    OBVIOUS
  <2> QED
    BY <2>1, <2>2, RequestRecord, FS_Subset
<1>2. sum \in Nat
  <2> HIDE DEF other
  <2> QED
    BY <1>1, SumIsNat
<1>3. other # {} => Cardinality(other) \in Nat \ {0}
  BY <1>1, FS_EmptySet, FS_CardinalityType
<1> HIDE DEF sum, other
<1>4. other # {} => sum \div Cardinality(other) \in Nat
  BY <1>2, <1>3
<1>5. OpponentElo(n) = IF other = {} THEN 1200 ELSE sum \div Cardinality(other)
  BY DEF OpponentElo, other, sum, Total, MapThenSumSet, MapThenFoldSet, Adds, Picked
<1> QED
  BY <1>4, <1>5

\* The player at hand is done: the request goes on with the others or finishes.
LEMMA NextPlayerIsRequest ==
  ASSUME CompetitionTypeOK, RequestOK, Finalizes, NEW n \in request.left, request' = NextPlayer(n)
  PROVE  /\ request' \in Requests /\ request'.csid = request.csid
         /\ request'.left = request.left \ {n} /\ request'.elo = request.elo
         /\ request'.left # {} => request'.at = "updating"
         /\ request'.left = {} => request'.at = "finishing"
<1>1. request \in Requests
  BY RequestRecord DEF Finalizes
<1>2. request' = [request EXCEPT !.left = @ \ {n}, !.at = IF request.left = {n} THEN "finishing" ELSE "updating"]
  BY DEF NextPlayer
<1>3. request' \in Requests
  BY <1>1, <1>2 DEF Requests
<1>4. /\ request'.csid = request.csid /\ request'.left = request.left \ {n} /\ request'.elo = request.elo
      /\ request'.at = IF request.left = {n} THEN "finishing" ELSE "updating"
  BY <1>1, <1>2 DEF Requests
<1> QED
  BY <1>3, <1>4

\* The two updates of a player go on to the next report or finish.
LEMMA UpdatesKeepState ==
  ASSUME StateInv, UpdateWinLoss \/ UpdateElo
  PROVE  StateInv'
<1>1. /\ request # Idle /\ request.at \in {"updating", "rating"} /\ Finalizes
      /\ UNCHANGED <<outcome, session, intents, reports, cuts>>
  BY DEF UpdateWinLoss, UpdateElo, At, Finalizes
<1>2. /\ request \in Requests /\ request.csid \in Matches /\ ~session[request.csid].finalized
      /\ request.left \subseteq FirstReports(request.csid)
  BY <1>1, RequestRecord DEF StateInv, RequestOK
<1>3. ASSUME NEW n \in request.left
      PROVE  reports[request.csid][n] \in Report /\ reports[request.csid][n].persona \in Players
  BY <1>2, FirstsAreReports DEF StateInv, Csids, Report
<1>4. \A p \in Players : stats[p] \in [wins : Nat, losses : Nat, games : Nat, rating : Nat] /\ stats[p].rating >= 100
  BY DEF StateInv, CompetitionTypeOK
<1>5. /\ stats' \in [Players -> [wins : Nat, losses : Nat, games : Nat, rating : Nat]]
      /\ \A p \in Players : stats'[p].rating >= 100
  <2>1. CASE UpdateWinLoss
    <3>1. PICK n \in request.left :
            stats' = IF reports[request.csid][n].result = 0
                     THEN [stats EXCEPT ![reports[request.csid][n].persona].wins = @ + 1]
                     ELSE [stats EXCEPT ![reports[request.csid][n].persona].losses = @ + 1]
      BY <2>1 DEF UpdateWinLoss
    <3>2. PICK p \in Players : p = reports[request.csid][n].persona
      BY <1>3
    <3>3. \E row \in [wins : Nat, losses : Nat, games : Nat, rating : Nat] :
            row.rating >= 100 /\ stats' = [stats EXCEPT ![p] = row]
      <4>1. CASE reports[request.csid][n].result = 0
        <5>1. stats' = [stats EXCEPT ![p] = [stats[p] EXCEPT !.wins = @ + 1]]
          BY <3>1, <3>2, <4>1
        <5>2. PICK row : row = [stats[p] EXCEPT !.wins = @ + 1]
          OBVIOUS
        <5>3. row \in [wins : Nat, losses : Nat, games : Nat, rating : Nat] /\ row.rating >= 100
          BY <1>4, <5>2, StatsRow
        <5> QED
          BY <5>1, <5>2, <5>3
      <4>2. CASE reports[request.csid][n].result # 0
        <5>1. stats' = [stats EXCEPT ![p] = [stats[p] EXCEPT !.losses = @ + 1]]
          BY <3>1, <3>2, <4>2
        <5>2. PICK row : row = [stats[p] EXCEPT !.losses = @ + 1]
          OBVIOUS
        <5>3. row \in [wins : Nat, losses : Nat, games : Nat, rating : Nat] /\ row.rating >= 100
          BY <1>4, <5>2, StatsRow
        <5> QED
          BY <5>1, <5>2, <5>3
      <4> QED
        BY <4>1, <4>2
    <3> QED
      BY <1>4, <3>3 DEF StateInv, CompetitionTypeOK
  <2>2. CASE UpdateElo
    <3>1. PICK n \in request.left :
            LET p == reports[request.csid][n].persona
                k == KFactor(Earlier + stats[p].games, stats[p].rating)
            IN stats' = [stats EXCEPT ![p].games = @ + 1,
                                      ![p].rating = NewElo(@, OpponentElo(n), reports[request.csid][n].result = 0, k)]
      BY <2>2 DEF UpdateElo
    <3>2. PICK p \in Players : p = reports[request.csid][n].persona
      BY <1>3
    <3>3. PICK opponent \in Nat : opponent = OpponentElo(n)
      BY <1>1, OpponentEloIsNat DEF StateInv
    <3>4. PICK k \in Nat : k = KFactor(Earlier + stats[p].games, stats[p].rating)
      BY DEF KFactor
    <3>5. PICK won \in BOOLEAN : won <=> reports[request.csid][n].result = 0
      OBVIOUS
    <3> DEFINE new == NewElo(stats[p].rating, opponent, won, k)
    <3>6. new \in Nat /\ new >= 100
      BY <1>4, NewEloIsRating
    <3>7. new = NewElo(stats[p].rating, opponent, reports[request.csid][n].result = 0, k)
      BY <3>5 DEF NewElo
    <3> HIDE DEF new
    <3>8. stats' = [stats EXCEPT ![p].games = @ + 1, ![p].rating = new]
      BY <3>1, <3>2, <3>3, <3>4, <3>7 DEF StateInv, CompetitionTypeOK
    <3>9. PICK row : row = [stats[p] EXCEPT !.games = @ + 1]
      OBVIOUS
    <3>10. row \in [wins : Nat, losses : Nat, games : Nat, rating : Nat]
      BY <1>4, <3>9, StatsRow
    <3>11. PICK row2 : row2 = [row EXCEPT !.rating = new]
      OBVIOUS
    <3>12. row2 \in [wins : Nat, losses : Nat, games : Nat, rating : Nat] /\ row2.rating >= 100
      BY <3>6, <3>10, <3>11, StatsRow
    <3>13. stats' = [stats EXCEPT ![p] = row2]
      BY <3>8, <3>9, <3>11 DEF StateInv, CompetitionTypeOK
    <3> QED
      BY <1>4, <3>12, <3>13 DEF StateInv, CompetitionTypeOK
  <2> QED
    BY <2>1, <2>2
<1>6. /\ request' \in Requests /\ request'.left \subseteq FirstReports(request'.csid) /\ RequestOK'
  <2>1. CASE \E n \in request.left : request' = NextPlayer(n)
    <3>1. PICK n \in request.left : request' = NextPlayer(n)
      BY <2>1
    <3>2. /\ request' \in Requests /\ request'.csid = request.csid
          /\ request'.left = request.left \ {n} /\ request'.elo = request.elo
          /\ request'.left # {} => request'.at = "updating"
          /\ request'.left = {} => request'.at = "finishing"
      BY <1>1, <3>1, NextPlayerIsRequest DEF StateInv
    <3> QED
      BY <1>1, <1>2, <3>2 DEF RequestOK, Finalizes
  <2>2. CASE request' = [request EXCEPT !.at = "rating"]
    <3>1. request' \in Requests /\ request'.at = "rating" /\ request'.csid = request.csid /\ request'.left = request.left
      BY <1>2, <2>2 DEF Requests
    <3>2. \A n \in request.left : request' # NextPlayer(n)
      BY <1>2, <3>1 DEF NextPlayer, Requests
    <3>3. RankedMatch(request.csid)
      BY <3>2 DEF UpdateWinLoss, UpdateElo
    <3>4. RankedMatch(request.csid)'
      BY <1>1, <3>1, <3>3 DEF RankedMatch
    <3> QED
      BY <1>1, <1>2, <3>1, <3>4 DEF StateInv, RequestOK, Finalizes
  <2> QED
    BY <2>1, <2>2 DEF UpdateWinLoss, UpdateElo
<1> QED
  BY <1>1, <1>5, <1>6, QuietStepKeepsState DEF StateInv, CompetitionTypeOK

\* finalize_match begins with the reports of everyone who sent one.
LEMMA BeginFinalizeIsRequest ==
  ASSUME StateInv, BeginFinalize
  PROVE  /\ request # Idle /\ request.csid \in Matches /\ request.left = {}
         /\ UNCHANGED <<outcome, session, intents, reports, stats, cuts>>
         /\ \/ request' = Idle /\ session[request.csid].finalized
            \/ /\ ~session[request.csid].finalized
               /\ request' \in Requests /\ request' # Idle /\ request'.csid = request.csid
               /\ \/ /\ Cardinality(FirstReports(request.csid)) >= 2
                     /\ request'.at = "updating" /\ request'.left = FirstReports(request.csid)
                     /\ request'.left # {} /\ request'.elo = CurrentElo(request.csid)
                  \/ /\ ~(Cardinality(FirstReports(request.csid)) >= 2)
                     /\ request'.at = "finishing" /\ request'.left = {}
<1>1. /\ request # Idle /\ request.at = "counted" /\ Created(request.csid)
      /\ UNCHANGED <<outcome, session, intents, reports, stats, cuts>>
  BY DEF BeginFinalize, At
<1>2. request.csid \in Matches /\ request.left = {} /\ request \in Requests
  BY <1>1, RequestRecord, CreatedIsMatch DEF StateInv, RequestOK
<1>3. Idle \notin Requests
  BY CompetitionAssumption
<1>4. CASE session[request.csid].finalized
  BY <1>1, <1>2, <1>4 DEF BeginFinalize
<1>5. CASE ~session[request.csid].finalized /\ Cardinality(FirstReports(request.csid)) >= 2
  <2>1. request' = [request EXCEPT !.at = "updating", !.left = FirstReports(request.csid),
                                   !.elo = CurrentElo(request.csid)]
    BY <1>5 DEF BeginFinalize
  <2>2. FirstReports(request.csid) \subseteq 1 .. MaxReports /\ FirstReports(request.csid) # {}
    BY <1>2, <1>5, FirstsAreReports, FS_EmptySet DEF StateInv, Csids
  <2>3. CurrentElo(request.csid) \in [1 .. MaxReports -> Nat]
    <3>1. \A n \in FirstReports(request.csid) : reports[request.csid][n].persona \in Players
      BY <1>2, FirstsAreReports DEF StateInv, Csids, Report
    <3>2. \A p \in Players : stats[p].rating \in Nat
      BY DEF StateInv, CompetitionTypeOK
    <3> QED
      BY <3>1, <3>2 DEF CurrentElo
  <2>4. request' \in Requests
    BY <1>2, <2>1, <2>2, <2>3 DEF Requests
  <2> QED
    BY <1>1, <1>2, <1>3, <1>5, <2>1, <2>2, <2>4 DEF Requests
<1>6. CASE ~session[request.csid].finalized /\ ~(Cardinality(FirstReports(request.csid)) >= 2)
  <2>1. request' = [request EXCEPT !.at = "finishing"]
    BY <1>6 DEF BeginFinalize
  <2>2. request' \in Requests /\ request'.csid = request.csid /\ request'.at = "finishing" /\ request'.left = {}
    BY <1>2, <2>1 DEF Requests
  <2> QED
    BY <1>1, <1>2, <1>3, <1>6, <2>2
<1> QED
  BY <1>4, <1>5, <1>6

\* Every step keeps the state sound.
LEMMA NextKeepsState == StateInv /\ [Next]_vars => StateInv'
<1> SUFFICES ASSUME StateInv, [Next]_vars
             PROVE  StateInv'
  OBVIOUS
<1>1. /\ outcome \in [Matches -> Outcomes]
      /\ session \in [Matches -> [status : {"none", "active", "completed"},
                                  received : 0 .. MaxReports, finalized : BOOLEAN]]
      /\ \A m \in Matches : session[m].received <= Len(reports[m])
      /\ intents \in [Matches -> [Players -> {"none", "open", "reported"}]]
      /\ stats \in [Players -> [wins : Nat, losses : Nat, games : Nat, rating : Nat]]
      /\ \A p \in Players : stats[p].rating >= 100
      /\ cuts \in Nat
      /\ request = Idle \/ (request \in Requests /\ request.left \subseteq FirstReports(request.csid))
      /\ RequestOK
  BY DEF StateInv, CompetitionTypeOK
<1>2. ASSUME NEW m \in Matches, CreateSession(m)
      PROVE  StateInv'
  <2>1. request = Idle /\ UNCHANGED <<outcome, intents, reports, stats, request, cuts>>
        /\ session' = [session EXCEPT ![m].status = "active"]
    BY <1>2 DEF CreateSession
  <2>2. session' \in [Matches -> [status : {"none", "active", "completed"},
                                  received : 0 .. MaxReports, finalized : BOOLEAN]]
        /\ \A d \in Matches : session'[d].received = session[d].received
    <3>1. session' = [session EXCEPT ![m] = [session[m] EXCEPT !.status = "active"]]
      BY <2>1
    <3>2. PICK row : row = [session[m] EXCEPT !.status = "active"]
      OBVIOUS
    <3>3. /\ row \in [status : {"none", "active", "completed"}, received : 0 .. MaxReports, finalized : BOOLEAN]
          /\ row.received = session[m].received
      BY <1>1, <3>2
    <3> QED
      BY <1>1, <3>1, <3>2, <3>3
  <2>3. RequestOK'
    BY <2>1 DEF RequestOK
  <2> QED
    BY <1>1, <2>1, <2>2, <2>3, QuietStepKeepsState
<1>3. ASSUME NEW m \in Matches, NEW p \in Players, SetReportIntention(m, p)
      PROVE  StateInv'
  <2>1. request = Idle /\ UNCHANGED <<outcome, session, reports, stats, request, cuts>>
        /\ intents' = [intents EXCEPT ![m][p] = "open"]
    BY <1>3 DEF SetReportIntention
  <2>2. intents' \in [Matches -> [Players -> {"none", "open", "reported"}]]
    <3>1. intents' = [intents EXCEPT ![m] = [intents[m] EXCEPT ![p] = "open"]]
      BY <2>1
    <3>2. intents[m] \in [Players -> {"none", "open", "reported"}]
      BY <1>1
    <3>3. [intents[m] EXCEPT ![p] = "open"] \in [Players -> {"none", "open", "reported"}]
      BY <3>2
    <3> QED
      BY <1>1, <3>1, <3>3
  <2>3. RequestOK'
    BY <2>1 DEF RequestOK
  <2> QED
    BY <1>1, <2>1, <2>2, <2>3, QuietStepKeepsState
<1>4. ASSUME NEW m \in Matches, NEW p \in Players, NEW final \in BOOLEAN, NEW form \in Forms,
             NEW ranked \in RankedAs(m, p, final, form), Submit(m, p, final, form, ranked)
      PROVE  StateInv'
  <2>1. ranked \in BOOLEAN
    BY CompetitionAssumption, <1>1 DEF RankedAs, Outcomes
  <2> QED
    BY <1>4, <2>1, SubmitKeepsState DEF Csids
<1>5. ASSUME NEW p \in Players, NEW final \in BOOLEAN, Submit(NoMatch, p, final, "named", FALSE)
      PROVE  StateInv'
  BY <1>5, SubmitKeepsState DEF Csids
<1>6. CASE MarkReported
  <2>1. /\ request # Idle /\ request.at = "stored" /\ request' = [request EXCEPT !.at = "marked"]
        /\ UNCHANGED <<outcome, session, reports, stats, cuts>>
        /\ intents' = IF request.csid \in Matches
                      THEN [intents EXCEPT ![request.csid][request.persona] = "reported"] ELSE intents
    BY <1>6 DEF MarkReported, At
  <2>2. request \in Requests /\ request.persona \in Players /\ request.left = {}
    BY <1>1, <2>1, RequestRecord DEF StateInv, RequestOK
  <2>3. request' \in Requests /\ request'.left = {} /\ request'.at = "marked" /\ request'.csid = request.csid
    BY <2>1, <2>2 DEF Requests
  <2>4. intents' \in [Matches -> [Players -> {"none", "open", "reported"}]]
    BY <1>1, <2>1, <2>2
  <2>5. RequestOK'
    BY <1>1, <2>1, <2>2, <2>3 DEF RequestOK, Finalizes
  <2> QED
    BY <1>1, <2>1, <2>3, <2>4, <2>5, QuietStepKeepsState
<1>7. CASE IncrementReceived
  <2>1. /\ request # Idle /\ request.at = "marked" /\ request' = [request EXCEPT !.at = "counted"]
        /\ UNCHANGED <<outcome, intents, reports, stats, cuts>>
        /\ session' = IF Created(request.csid) THEN [session EXCEPT ![request.csid].received = @ + 1] ELSE session
    BY <1>7 DEF IncrementReceived, At
  <2>2. request \in Requests /\ request.left = {}
    BY <1>1, <2>1, RequestRecord DEF StateInv, RequestOK
  <2>3. request' \in Requests /\ request'.left = {} /\ request'.at = "counted" /\ request'.csid = request.csid
    BY <2>1, <2>2 DEF Requests
  <2>4. /\ session' \in [Matches -> [status : {"none", "active", "completed"},
                                     received : 0 .. MaxReports, finalized : BOOLEAN]]
        /\ \A m \in Matches : session'[m].received <= Len(reports[m])
    <3>1. CASE ~Created(request.csid)
      BY <1>1, <2>1, <3>1
    <3>2. CASE Created(request.csid)
      <4>1. PICK d \in Matches : d = request.csid
        BY <3>2, CreatedIsMatch
      <4>2. session[d].received < Len(reports[d]) /\ Len(reports[d]) \in 0 .. MaxReports /\ MaxReports \in Nat
        BY <1>1, <2>1, <4>1, ReportRows, CompetitionAssumption DEF RequestOK, StateInv, Csids
      <4>3. session[d].received \in Nat
            /\ session' = [session EXCEPT ![d] = [session[d] EXCEPT !.received = @ + 1]]
        BY <1>1, <2>1, <3>2, <4>1
      <4>4. PICK row : row = [session[d] EXCEPT !.received = @ + 1]
        OBVIOUS
      <4>5. /\ row \in [status : {"none", "active", "completed"}, received : 0 .. MaxReports, finalized : BOOLEAN]
            /\ row.received = session[d].received + 1
        <5>1. session[d].received < MaxReports
          BY <4>2, <4>3
        <5>2. session[d] \in [status : {"none", "active", "completed"}, received : 0 .. MaxReports, finalized : BOOLEAN]
          BY <1>1
        <5> QED
          BY <4>4, <5>1, <5>2, SessionRow
      <4> QED
        BY <1>1, <4>2, <4>3, <4>4, <4>5
    <3> QED
      BY <3>1, <3>2
  <2>5. RequestOK'
    BY <1>1, <2>1, <2>2, <2>3 DEF RequestOK, Finalizes
  <2> QED
    BY <1>1, <2>1, <2>3, <2>4, <2>5, QuietStepKeepsState
<1>8. CASE CompleteSession \/ MarkFinalized
  <2>1. /\ request # Idle /\ request' = Idle /\ UNCHANGED <<outcome, intents, reports, stats, cuts>>
    BY <1>8 DEF CompleteSession, MarkFinalized, At
  <2>2. /\ session' \in [Matches -> [status : {"none", "active", "completed"},
                                     received : 0 .. MaxReports, finalized : BOOLEAN]]
        /\ \A m \in Matches : session'[m].received = session[m].received
    <3>1. \/ session' = session
          \/ \E d \in Matches, f \in BOOLEAN :
               session' = [session EXCEPT ![d] = [session[d] EXCEPT !.status = "completed", !.finalized = f]]
      <4>1. CASE CompleteSession /\ Created(request.csid)
        <5>1. PICK d \in Matches : d = request.csid
          BY <4>1, CreatedIsMatch
        <5>2. session' = [session EXCEPT ![d] = [session[d] EXCEPT !.status = "completed", !.finalized = session[d].finalized]]
              /\ session[d].finalized \in BOOLEAN
          BY <1>1, <4>1, <5>1 DEF CompleteSession
        <5> QED
          BY <5>2
      <4>2. CASE CompleteSession /\ ~Created(request.csid)
        BY <4>2 DEF CompleteSession
      <4>3. CASE MarkFinalized
        <5>1. PICK d \in Matches : d = request.csid
          BY <1>1, <4>3 DEF MarkFinalized, At, RequestOK, Finalizes
        <5>2. session' = [session EXCEPT ![d] = [session[d] EXCEPT !.status = "completed", !.finalized = TRUE]]
          BY <1>1, <4>3, <5>1 DEF MarkFinalized
        <5> QED
          BY <5>2
      <4> QED
        BY <1>8, <4>1, <4>2, <4>3
    <3>2. ASSUME NEW d \in Matches, NEW f \in BOOLEAN
          PROVE  [session[d] EXCEPT !.status = "completed", !.finalized = f] \in
                   [status : {"none", "active", "completed"}, received : 0 .. MaxReports, finalized : BOOLEAN]
                 /\ [session[d] EXCEPT !.status = "completed", !.finalized = f].received = session[d].received
      <4>1. session[d] \in [status : {"none", "active", "completed"}, received : 0 .. MaxReports, finalized : BOOLEAN]
        BY <1>1
      <4> QED
        BY <4>1, SessionRow
    <3>3. CASE session' = session
      BY <1>1, <3>3
    <3>4. ASSUME NEW d \in Matches, NEW f \in BOOLEAN, NEW row,
                 row = [session[d] EXCEPT !.status = "completed", !.finalized = f],
                 session' = [session EXCEPT ![d] = row]
          PROVE  /\ session' \in [Matches -> [status : {"none", "active", "completed"},
                                               received : 0 .. MaxReports, finalized : BOOLEAN]]
                 /\ \A m \in Matches : session'[m].received = session[m].received
      <4>1. /\ row \in [status : {"none", "active", "completed"}, received : 0 .. MaxReports, finalized : BOOLEAN]
            /\ row.received = session[d].received
        BY <3>2, <3>4
      <4> QED
        BY <1>1, <3>4, <4>1
    <3> QED
      BY <3>1, <3>3, <3>4
  <2>3. RequestOK'
    BY <2>1 DEF RequestOK
  <2> QED
    BY <1>1, <2>1, <2>2, <2>3, QuietStepKeepsState
<1>9. CASE BeginFinalize
  <2>1. /\ request # Idle /\ request.csid \in Matches
        /\ UNCHANGED <<outcome, session, intents, reports, stats, cuts>>
        /\ \/ request' = Idle
           \/ /\ ~session[request.csid].finalized
              /\ request' \in Requests /\ request' # Idle /\ request'.csid = request.csid
              /\ \/ /\ request'.at = "updating" /\ request'.left = FirstReports(request.csid)
                    /\ request'.left # {}
                 \/ request'.at = "finishing" /\ request'.left = {}
    BY <1>9, BeginFinalizeIsRequest
  <2>2. RequestOK'
    BY <2>1 DEF RequestOK, Finalizes
  <2> QED
    BY <1>1, <2>1, <2>2, QuietStepKeepsState
<1>10. CASE CutOff
  <2>1. request' = Idle /\ UNCHANGED <<outcome, session, intents, reports, stats>> /\ cuts' \in Nat
    BY <1>1, <1>10 DEF CutOff
  <2>2. RequestOK'
    BY <2>1 DEF RequestOK
  <2> QED
    BY <1>1, <2>1, <2>2, QuietStepKeepsState
<1>11. CASE UNCHANGED vars
  <2>1. RequestOK'
    BY <1>1, <1>11, SameReports DEF vars, RequestOK, Finalizes
  <2> QED
    BY <1>1, <1>11, <2>1, QuietStepKeepsState DEF vars
<1> QED
  BY <1>2, <1>3, <1>4, <1>5, <1>6, <1>7, <1>8, <1>9, <1>10, <1>11, UpdatesKeepState DEF Next, Handle

\* In every reachable state the rows and the request are well typed, and a request
\* finalizes only a session that is not finalized.
THEOREM StateIsSound == Spec => []StateInv
BY InitEstablishesState, NextKeepsState, PTL DEF Spec

\* The rows and the request of the competition service stay well typed, a session
\* never counts more reports than are stored, and no rating falls below the floor.
THEOREM CompetitionTypeCorrect == Spec => []CompetitionTypeOK
BY StateIsSound, PTL DEF StateInv

-----------------------------------------------------------------------------
(* What finalizing a match does to the statistics, step by step.  A player    *)
(* is owed a win, a loss or a rated game while the request at hand has not    *)
(* yet reached the first report of his; what he has and what he is owed       *)
(* changes only when finalizing begins, and when it is cut off.               *)

\* The first reports that are in the request at hand and not yet in the statistics.
Uncounted == IF request = Idle THEN {}
             ELSE IF request.at = "rating" THEN {n \in request.left : ~IsNext(n)} ELSE request.left

\* Those whose players are still to be rated.
Unrated == IF request = Idle THEN {} ELSE IF RankedMatch(request.csid) THEN request.left ELSE {}

\* Among the reports of N there is one of p.
HasReport(N, p) == \E n \in N : reports[request.csid][n].persona = p
\* Among them is one by which p won, or one by which he did not.
HasWin(N, p) ==
  \E n \in N : reports[request.csid][n].persona = p /\ reports[request.csid][n].result = 0
HasLoss(N, p) ==
  \E n \in N : reports[request.csid][n].persona = p /\ reports[request.csid][n].result # 0

\* What a player has and what he is owed.
Wins(p) == stats[p].wins + (IF HasWin(Uncounted, p) THEN 1 ELSE 0)
Losses(p) == stats[p].losses + (IF HasLoss(Uncounted, p) THEN 1 ELSE 0)
Games(p) == stats[p].games + (IF HasReport(Unrated, p) THEN 1 ELSE 0)

\* The player who is counted and whose rating comes next.
AtHand(p) == IF HasReport(Unrated \ Uncounted, p) THEN 1 ELSE 0

\* Finalizing makes no difference to the statistics.
Quiet ==
  /\ UNCHANGED <<outcome, stats, cuts>>
  /\ \A m \in Matches : /\ Finalizing(m) => Finalizing(m)'
                        /\ \A p \in Players : Sent(m, p) => Sent(m, p)'
                        /\ FirstIsTrue(m)' => FirstIsTrue(m)
  /\ \/ UNCHANGED <<request, reports>>
     \/ /\ Uncounted = {} /\ Unrated = {} /\ Uncounted' = {} /\ Unrated' = {}
        /\ ~(Finalizes' /\ Cardinality(FirstReports(request.csid)') >= 2)

\* Two players or more are to be counted.
Begins ==
  /\ UNCHANGED <<outcome, session, reports, stats, cuts>>
  /\ request # Idle /\ request' # Idle /\ request.csid \in Matches /\ request'.csid = request.csid
  /\ ~session[request.csid].finalized /\ ~Finalizes /\ Finalizes'
  /\ Cardinality(FirstReports(request.csid)) >= 2
  /\ Uncounted = {} /\ Unrated = {}
  /\ Uncounted' = FirstReports(request.csid)
  /\ Unrated' = IF RankedMatch(request.csid) THEN FirstReports(request.csid) ELSE {}
  /\ request'.elo = CurrentElo(request.csid)

\* The player of report n is counted, or rated.
Proceeds ==
  /\ UNCHANGED <<outcome, session, reports, cuts>>
  /\ Finalizes /\ Finalizes' /\ request.csid \in Matches
  /\ request'.csid = request.csid /\ request'.elo = request.elo

\* The player of report n gets his win or his loss.
Counts(n) ==
  /\ Proceeds
  /\ n \in Uncounted /\ Uncounted' = Uncounted \ {n}
  /\ Unrated' = Unrated /\ Unrated \subseteq Uncounted
  /\ LET report == reports[request.csid][n] IN
     stats' = IF report.result = 0
              THEN [stats EXCEPT ![report.persona].wins = @ + 1]
              ELSE [stats EXCEPT ![report.persona].losses = @ + 1]

\* The rating that the player of report n gets.
NewRating(n) ==
  LET report == reports[request.csid][n]
      p == report.persona
  IN NewElo(stats[p].rating, OpponentElo(n), report.result = 0,
            KFactor(Earlier + stats[p].games, stats[p].rating))

\* The player of report n gets his rating.
Rates(n) ==
  /\ Proceeds
  /\ n \in Unrated /\ n \notin Uncounted /\ Unrated' = Unrated \ {n}
  /\ Uncounted' = Uncounted /\ Unrated' \subseteq Uncounted
  /\ stats' = [stats EXCEPT ![reports[request.csid][n].persona].games = @ + 1,
                            ![reports[request.csid][n].persona].rating = NewRating(n)]

\* Finalizing is cut off.
Stops ==
  /\ UNCHANGED <<outcome, session, reports, stats>>
  /\ Finalizes /\ request.csid \in Matches /\ request' = Idle /\ cuts' = cuts + 1

\* Only one report is the next.
LEMMA OneIsNext ==
  ASSUME NEW S \in SUBSET (1 .. MaxReports), NEW n \in S, \A j \in S : n <= j
  PROVE  \A i \in S : (\A j \in S : i <= j) <=> i = n
<1>1. \A i \in S : i \in Int
  BY CompetitionAssumption
<1> QED
  BY <1>1

\* update_player_win_loss counts the player at hand.
LEMMA UpdateWinLossCounts ==
  ASSUME StateInv, UpdateWinLoss
  PROVE  \E n \in request.left : Counts(n)
<1>1. /\ request # Idle /\ request.at = "updating" /\ Finalizes
      /\ UNCHANGED <<outcome, session, intents, reports, cuts>>
  BY DEF UpdateWinLoss, At, Finalizes
<1>2. /\ request \in Requests /\ request.csid \in Matches /\ request.left \subseteq 1 .. MaxReports
      /\ Idle \notin Requests
  BY <1>1, RequestRecord, CompetitionAssumption DEF StateInv, RequestOK, Requests
<1>3. PICK n \in request.left :
        /\ IsNext(n)
        /\ LET report == reports[request.csid][n] IN
           stats' = IF report.result = 0
                    THEN [stats EXCEPT ![report.persona].wins = @ + 1]
                    ELSE [stats EXCEPT ![report.persona].losses = @ + 1]
        /\ request' = IF RankedMatch(request.csid) THEN [request EXCEPT !.at = "rating"] ELSE NextPlayer(n)
  BY DEF UpdateWinLoss
<1>4. Uncounted = request.left
  BY <1>1 DEF Uncounted
<1>5. RankedMatch(request.csid) = RankedMatch(request.csid)'
  BY <1>1, <1>2, <1>3 DEF RankedMatch, NextPlayer, Requests
<1>6. CASE RankedMatch(request.csid)
  <2>1. /\ request' \in Requests /\ request' # Idle /\ request'.at = "rating"
        /\ request'.csid = request.csid /\ request'.left = request.left /\ request'.elo = request.elo
    BY <1>2, <1>3, <1>6 DEF Requests
  <2>2. \A i \in request.left : (\A j \in request.left : i <= j) <=> i = n
    <3>1. \A j \in request.left : n <= j
      BY <1>3 DEF IsNext
    <3> QED
      BY <1>2, <1>3, <3>1, OneIsNext
  <2>3. Uncounted' = request.left \ {n}
    BY <2>1, <2>2 DEF Uncounted, IsNext
  <2>4. Unrated = request.left /\ Unrated' = request.left
    BY <1>1, <1>5, <1>6, <2>1 DEF Unrated
  <2>5. Finalizes'
    BY <2>1 DEF Finalizes
  <2> QED
    <3>1. Proceeds
      BY <1>1, <1>2, <2>1, <2>5 DEF Proceeds
    <3>2. Counts(n)
      BY <1>3, <1>4, <2>3, <2>4, <3>1 DEF Counts
    <3> QED
      BY <3>2
<1>7. CASE ~RankedMatch(request.csid)
  <2>1. /\ request' \in Requests /\ request' # Idle /\ request'.at \in {"updating", "finishing"}
        /\ request'.csid = request.csid /\ request'.left = request.left \ {n} /\ request'.elo = request.elo
    BY <1>1, <1>2, <1>3, <1>7, NextPlayerIsRequest DEF StateInv
  <2>2. Uncounted' = request.left \ {n}
    BY <2>1 DEF Uncounted
  <2>3. Unrated = {} /\ Unrated' = {}
    BY <1>1, <1>5, <1>7, <2>1 DEF Unrated
  <2>4. Finalizes'
    BY <2>1 DEF Finalizes
  <2> QED
    <3>1. Proceeds
      BY <1>1, <1>2, <2>1, <2>4 DEF Proceeds
    <3>2. Counts(n)
      BY <1>3, <1>4, <2>2, <2>3, <3>1 DEF Counts
    <3> QED
      BY <3>2
<1> QED
  BY <1>6, <1>7

\* update_player_elo rates him.
LEMMA UpdateEloRates ==
  ASSUME StateInv, UpdateElo
  PROVE  \E n \in request.left : Rates(n)
<1>1. /\ request # Idle /\ request.at = "rating" /\ Finalizes
      /\ UNCHANGED <<outcome, session, intents, reports, cuts>>
  BY DEF UpdateElo, At, Finalizes
<1>2. /\ request \in Requests /\ request.csid \in Matches /\ request.left \subseteq 1 .. MaxReports
      /\ Idle \notin Requests /\ RankedMatch(request.csid)
  BY <1>1, RequestRecord, CompetitionAssumption DEF StateInv, RequestOK, Requests
<1>3. PICK n \in request.left :
        /\ IsNext(n)
        /\ stats' = [stats EXCEPT ![reports[request.csid][n].persona].games = @ + 1,
                                  ![reports[request.csid][n].persona].rating = NewRating(n)]
        /\ request' = NextPlayer(n)
  <2>1. PICK n \in request.left :
          /\ IsNext(n)
          /\ LET report == reports[request.csid][n]
                 p == report.persona
                 k == KFactor(Earlier + stats[p].games, stats[p].rating)
             IN stats' = [stats EXCEPT ![p].games = @ + 1,
                                       ![p].rating = NewElo(@, OpponentElo(n), report.result = 0, k)]
          /\ request' = NextPlayer(n)
    BY DEF UpdateElo
  <2>2. PICK p \in Players : p = reports[request.csid][n].persona
    BY <1>2, <2>1, FirstsAreReports, RequestRecord DEF StateInv, Csids, Report
  <2>3. stats' = [stats EXCEPT ![p].games = @ + 1,
                               ![p].rating = NewElo(stats[p].rating, OpponentElo(n), reports[request.csid][n].result = 0,
                                                    KFactor(Earlier + stats[p].games, stats[p].rating))]
    BY <2>1, <2>2 DEF StateInv, CompetitionTypeOK
  <2> QED
    <3>1. NewRating(n) = NewElo(stats[p].rating, OpponentElo(n), reports[request.csid][n].result = 0,
                                KFactor(Earlier + stats[p].games, stats[p].rating))
      BY <2>2 DEF NewRating
    <3>2. stats' = [stats EXCEPT ![p].games = @ + 1, ![p].rating = NewRating(n)]
      BY <2>3, <3>1
    <3>3. stats' = [stats EXCEPT ![reports[request.csid][n].persona].games = @ + 1,
                                 ![reports[request.csid][n].persona].rating = NewRating(n)]
      BY <2>2, <3>2
    <3>4. n \in request.left /\ IsNext(n) /\ request' = NextPlayer(n)
      BY <2>1
    <3> QED
      BY <3>3, <3>4, Zenon
<1>4. /\ request' \in Requests /\ request' # Idle /\ request'.at \in {"updating", "finishing"}
      /\ request'.csid = request.csid /\ request'.left = request.left \ {n} /\ request'.elo = request.elo
  BY <1>1, <1>2, <1>3, NextPlayerIsRequest DEF StateInv
<1>5. RankedMatch(request.csid)'
  BY <1>1, <1>2, <1>4 DEF RankedMatch
<1>6. Uncounted = request.left \ {n}
  <2>1. \A i \in request.left : (\A j \in request.left : i <= j) <=> i = n
    <3>1. \A j \in request.left : n <= j
      BY <1>3 DEF IsNext
    <3> QED
      BY <1>2, <1>3, <3>1, OneIsNext
  <2> QED
    BY <1>1, <2>1 DEF Uncounted, IsNext
<1>7. Uncounted' = request.left \ {n} /\ Unrated = request.left /\ Unrated' = request.left \ {n} /\ Finalizes'
  BY <1>1, <1>2, <1>4, <1>5 DEF Uncounted, Unrated, Finalizes
<1> QED
  <2>1. Proceeds
    BY <1>1, <1>2, <1>4, <1>7 DEF Proceeds
  <2>2. Rates(n)
    BY <1>3, <1>6, <1>7, <2>1 DEF Rates
  <2> QED
    BY <2>2

\* finalize_match begins to count two reporters or more, or does nothing.
LEMMA BeginFinalizeBegins ==
  ASSUME StateInv, BeginFinalize
  PROVE  Quiet \/ Begins
<1>1. /\ request # Idle /\ request.csid \in Matches /\ request.left = {} /\ request.at = "counted"
      /\ UNCHANGED <<outcome, session, intents, reports, stats, cuts>>
  BY BeginFinalizeIsRequest DEF BeginFinalize, At
<1>2. Uncounted = {} /\ Unrated = {} /\ ~Finalizes
  BY <1>1 DEF Uncounted, Unrated, Finalizes
<1>3. /\ \A m : FirstReports(m)' = FirstReports(m) /\ RankedMatch(m)' = RankedMatch(m)
      /\ \A m \in Matches, p \in Players : Sent(m, p)' = Sent(m, p)
      /\ \A m : FirstIsTrue(m)' = FirstIsTrue(m)
      /\ \A m \in Matches : Finalizing(m) => Finalizing(m)'
  BY <1>1, SameReports DEF FirstIsTrue, Finalizing
<1>4. CASE request' = Idle
  <2>1. Uncounted' = {} /\ Unrated' = {} /\ ~Finalizes'
    BY <1>4 DEF Uncounted, Unrated, Finalizes
  <2> QED
    BY <1>1, <1>2, <1>3, <2>1 DEF Quiet
<1>5. CASE /\ ~session[request.csid].finalized
           /\ request' \in Requests /\ request' # Idle /\ request'.csid = request.csid
           /\ Cardinality(FirstReports(request.csid)) >= 2
           /\ request'.at = "updating" /\ request'.left = FirstReports(request.csid)
           /\ request'.elo = CurrentElo(request.csid)
  <2>1. RankedMatch(request.csid)' = RankedMatch(request.csid)
    BY <1>1, <1>5 DEF RankedMatch
  <2>2. /\ Uncounted' = FirstReports(request.csid) /\ Finalizes'
        /\ Unrated' = IF RankedMatch(request.csid) THEN FirstReports(request.csid) ELSE {}
    BY <1>5, <2>1 DEF Uncounted, Unrated, Finalizes
  <2> QED
    BY <1>1, <1>2, <1>5, <2>2 DEF Begins
<1>6. CASE /\ request' \in Requests /\ request' # Idle /\ request'.csid = request.csid
           /\ ~(Cardinality(FirstReports(request.csid)) >= 2)
           /\ request'.at = "finishing" /\ request'.left = {}
  <2>1. Uncounted' = {} /\ Unrated' = {}
    BY <1>6 DEF Uncounted, Unrated
  <2>2. FirstReports(request.csid)' = FirstReports(request.csid)
    BY <1>1, <1>6 DEF FirstReports
  <2> QED
    BY <1>1, <1>2, <1>3, <1>6, <2>1, <2>2 DEF Quiet
<1> QED
  BY <1>4, <1>5, <1>6, BeginFinalizeIsRequest

\* A request that is not finalizing has nobody to count.
LEMMA NobodyOwed ==
  /\ StateInv /\ ~(request # Idle /\ request.at \in {"updating", "rating"}) => Uncounted = {} /\ Unrated = {}
  /\ StateInv' /\ ~(request' # Idle /\ request'.at \in {"updating", "rating"}) => Uncounted' = {} /\ Unrated' = {}
<1>1. StateInv /\ ~(request # Idle /\ request.at \in {"updating", "rating"}) => Uncounted = {} /\ Unrated = {}
  BY DEF StateInv, RequestOK, Uncounted, Unrated
<1>2. StateInv' /\ ~(request' # Idle /\ request'.at \in {"updating", "rating"}) => Uncounted' = {} /\ Unrated' = {}
  BY DEF StateInv, RequestOK, Uncounted, Unrated
<1> QED
  BY <1>1, <1>2

\* A step that finalizes nothing is quiet if no finalized session is reopened.
LEMMA OutsideFinalizing ==
  ASSUME StateInv, StateInv', UNCHANGED <<outcome, stats, cuts, reports>>,
         \A m \in Matches : session[m].finalized => session'[m].finalized,
         ~(request # Idle /\ request.at \in {"updating", "rating"}), ~Finalizes',
         Finalizes => session'[request.csid].finalized
  PROVE  Quiet
<1>1. Uncounted = {} /\ Unrated = {} /\ Uncounted' = {} /\ Unrated' = {}
  BY NobodyOwed DEF Finalizes
<1>2. \A m \in Matches : /\ FirstIsTrue(m)' => FirstIsTrue(m)
                         /\ \A p \in Players : Sent(m, p) => Sent(m, p)'
                         /\ Finalizing(m) => Finalizing(m)'
  BY DEF FirstIsTrue, Sent, Finalizing, Finalizes
<1> QED
  BY <1>1, <1>2 DEF Quiet

\* Storing a report leaves the others as they are.
LEMMA ReportIsAdded ==
  ASSUME StateInv, StateInv', NEW m \in Csids, NEW p \in Players, NEW final \in BOOLEAN, NEW form,
         NEW ranked, Submit(m, p, final, form, ranked), NEW d \in Csids
  PROVE  /\ outcome' = outcome
         /\ DOMAIN reports[d] \subseteq DOMAIN reports'[d]
         /\ \A i \in DOMAIN reports[d] : reports'[d][i] = reports[d][i]
         /\ reports[d] # <<>> => reports'[d] # <<>> /\ reports'[d][1] = reports[d][1]
<1>1. PICK r : outcome' = outcome /\ reports' = [reports EXCEPT ![m] = Append(@, r)]
  BY DEF Submit
<1>2. /\ reports[d] \in Seq(Report) /\ Len(reports[d]) \in Nat /\ DOMAIN reports[d] = 1 .. Len(reports[d])
      /\ Len(reports'[d]) \in Nat /\ DOMAIN reports'[d] = 1 .. Len(reports'[d])
  BY ReportRows, CompetitionAssumption DEF StateInv
<1>3. CASE d # m
  BY <1>1, <1>3 DEF StateInv, CompetitionTypeOK
<1>4. CASE d = m
  <2>1. reports'[d] = Append(reports[d], r)
    BY <1>1, <1>4 DEF StateInv, CompetitionTypeOK
  <2>2. /\ Len(reports'[d]) = Len(reports[d]) + 1
        /\ \A i \in 1 .. Len(reports[d]) : reports'[d][i] = reports[d][i]
    BY <1>2, <2>1
  <2>3. reports'[d] # <<>>
    BY <1>2, <2>2
  <2>4. reports[d] # <<>> => Len(reports[d]) > 0
    BY <1>2, EmptySeq
  <2> QED
    BY <1>1, <1>2, <2>2, <2>3, <2>4
<1> QED
  BY <1>1, <1>3, <1>4

\* A new report is not counted yet.
LEMMA SubmitIsQuiet ==
  ASSUME StateInv, StateInv', NEW m \in Csids, NEW p \in Players, NEW final \in BOOLEAN, NEW form,
         NEW ranked, Submit(m, p, final, form, ranked)
  PROVE  Quiet
<1>1. /\ request = Idle /\ request'.at = "stored"
      /\ UNCHANGED <<outcome, session, intents, stats, cuts>>
  BY DEF Submit
<1>2. Uncounted = {} /\ Unrated = {} /\ Uncounted' = {} /\ Unrated' = {} /\ ~Finalizes'
  BY <1>1, NobodyOwed DEF Finalizes
<1>3. ASSUME NEW d \in Csids
      PROVE  /\ \A i \in DOMAIN reports[d] : i \in DOMAIN reports'[d] /\ reports'[d][i] = reports[d][i]
             /\ reports[d] # <<>> => reports'[d] # <<>> /\ reports'[d][1] = reports[d][1]
  BY ReportIsAdded
<1>4. \A d \in Matches : /\ Finalizing(d) => Finalizing(d)'
                         /\ \A q \in Players : Sent(d, q) => Sent(d, q)'
                         /\ FirstIsTrue(d)' => FirstIsTrue(d)
  <2> TAKE d \in Matches
  <2>1. d \in Csids
    BY DEF Csids
  <2>2. Finalizing(d) => Finalizing(d)'
    BY <1>1 DEF Finalizing
  <2>3. \A q \in Players : Sent(d, q) => Sent(d, q)'
    BY <1>3, <2>1 DEF Sent
  <2>4. FirstIsTrue(d)' => FirstIsTrue(d)
    BY <1>1, <1>3, <2>1 DEF FirstIsTrue
  <2> QED
    BY <2>2, <2>3, <2>4
<1> QED
  BY <1>1, <1>2, <1>4 DEF Quiet

\* These are all the steps there are.
LEMMA StepKinds ==
  ASSUME StateInv, StateInv', [Next]_vars
  PROVE  Quiet \/ Begins \/ (\E n \in request.left : Counts(n) \/ Rates(n)) \/ Stops
<1>1. ASSUME NEW m \in Matches, CreateSession(m)
      PROVE  Quiet
  <2>1. /\ UNCHANGED <<outcome, reports, stats, request, cuts>>
        /\ \A d \in Matches : session'[d].finalized = session[d].finalized
    BY <1>1 DEF CreateSession, StateInv, CompetitionTypeOK
  <2> QED
    BY <2>1 DEF Quiet, Finalizing, Sent, FirstIsTrue
<1>2. ASSUME NEW m \in Matches, NEW p \in Players, SetReportIntention(m, p)
      PROVE  Quiet
  <2>1. UNCHANGED <<outcome, session, reports, stats, request, cuts>>
    BY <1>2 DEF SetReportIntention
  <2> QED
    BY <2>1 DEF Quiet, Finalizing, Sent, FirstIsTrue
<1>3. ASSUME NEW m \in Csids, NEW p \in Players, NEW final \in BOOLEAN, NEW form, NEW ranked,
             Submit(m, p, final, form, ranked)
      PROVE  Quiet
  BY <1>3, SubmitIsQuiet
<1>4. CASE MarkReported
  <2>1. /\ UNCHANGED <<outcome, session, reports, stats, cuts>> /\ request # Idle /\ request.at = "stored"
        /\ request' = [request EXCEPT !.at = "marked"]
    BY <1>4 DEF MarkReported, At
  <2>2. request'.at = "marked"
    BY <2>1, RequestRecord DEF Requests, StateInv
  <2> QED
    BY <2>1, <2>2, OutsideFinalizing DEF Finalizes
<1>5. CASE IncrementReceived
  <2>1. /\ UNCHANGED <<outcome, reports, stats, cuts>> /\ request # Idle /\ request.at = "marked"
        /\ request' = [request EXCEPT !.at = "counted"]
        /\ session' = IF Created(request.csid) THEN [session EXCEPT ![request.csid].received = @ + 1] ELSE session
    BY <1>5 DEF IncrementReceived, At
  <2>2. request'.at = "counted"
    BY <2>1, RequestRecord DEF Requests, StateInv
  <2>3. \A m \in Matches : session'[m].finalized = session[m].finalized
    BY <2>1 DEF StateInv, CompetitionTypeOK
  <2> QED
    BY <2>1, <2>2, <2>3, OutsideFinalizing DEF Finalizes
<1>6. CASE CompleteSession
  <2>1. /\ UNCHANGED <<outcome, reports, stats, cuts>> /\ request # Idle /\ request.at = "counted" /\ request' = Idle
        /\ session' = IF Created(request.csid) THEN [session EXCEPT ![request.csid].status = "completed"] ELSE session
    BY <1>6 DEF CompleteSession, At
  <2>2. \A m \in Matches : session'[m].finalized = session[m].finalized
    BY <2>1 DEF StateInv, CompetitionTypeOK
  <2> QED
    BY <2>1, <2>2, OutsideFinalizing DEF Finalizes
<1>7. CASE MarkFinalized
  <2>1. /\ UNCHANGED <<outcome, reports, stats, cuts>> /\ request # Idle /\ request.at = "finishing" /\ request' = Idle
        /\ session' = [session EXCEPT ![request.csid].finalized = TRUE, ![request.csid].status = "completed"]
    BY <1>7 DEF MarkFinalized, At
  <2>2. request.csid \in Matches
    BY <2>1 DEF StateInv, RequestOK, Finalizes
  <2>3. /\ \A m \in Matches : session[m].finalized => session'[m].finalized
        /\ session'[request.csid].finalized
    BY <2>1, <2>2 DEF StateInv, CompetitionTypeOK
  <2> QED
    BY <2>1, <2>3, OutsideFinalizing DEF Finalizes
<1>8. CASE CutOff
  <2>1. /\ UNCHANGED <<outcome, session, intents, reports, stats>> /\ request # Idle /\ request' = Idle
        /\ cuts' = IF Finalizes THEN cuts + 1 ELSE cuts
    BY <1>8 DEF CutOff, Finalizes
  <2>2. CASE Finalizes
    BY <2>1, <2>2 DEF Stops, StateInv, RequestOK
  <2>3. CASE ~Finalizes
    BY <2>1, <2>3, OutsideFinalizing DEF Finalizes
  <2> QED
    BY <2>2, <2>3
<1>9. CASE UNCHANGED vars
  BY <1>9 DEF vars, Quiet, Finalizing, Sent, FirstIsTrue
<1>10. \A m \in Matches : m \in Csids
  BY DEF Csids
<1>11. NoMatch \in Csids
  BY DEF Csids
<1> QED
  BY <1>1, <1>2, <1>3, <1>4, <1>5, <1>6, <1>7, <1>8, <1>9, <1>10, <1>11,
     UpdateWinLossCounts, UpdateEloRates, BeginFinalizeBegins DEF Next, Handle

-----------------------------------------------------------------------------
(* What a player has and is owed, together, in each kind of step.             *)

\* What a report is about: one player, who won or who did not.
LEMMA ReportsAreOfPlayers ==
  ASSUME StateInv, request # Idle, NEW n \in FirstReports(request.csid)
  PROVE  /\ reports[request.csid][n].persona \in Players
         /\ \A i \in FirstReports(request.csid) :
              reports[request.csid][i].persona = reports[request.csid][n].persona => i = n
BY RequestRecord, FirstsAreReports, FirstsDiffer DEF StateInv, Report

\* Only first reports are counted.
LEMMA OwedAreFirsts ==
  ASSUME StateInv
  PROVE  /\ request # Idle => Uncounted \subseteq FirstReports(request.csid) /\ Unrated \subseteq FirstReports(request.csid)
         /\ request = Idle => Uncounted = {} /\ Unrated = {}
BY RequestRecord DEF StateInv, Uncounted, Unrated

\* While a match is counted, nobody gains or loses but what he was owed.
LEMMA AccountsBalance ==
  ASSUME StateInv, StateInv', NEW n \in request.left, Counts(n) \/ Rates(n), NEW p \in Players
  PROVE  /\ Wins(p)' = Wins(p) /\ Losses(p)' = Losses(p) /\ Games(p)' = Games(p)
         /\ stats'[p].wins + stats'[p].losses >= stats[p].wins + stats[p].losses
<1>1. Proceeds /\ request # Idle /\ request' # Idle
  <2>1. Proceeds
    BY DEF Counts, Rates
  <2> QED
    BY <2>1 DEF Proceeds, Finalizes
<1>2. PICK d \in Matches : d = request.csid /\ d = request'.csid
  BY <1>1 DEF Proceeds
<1>3. PICK report : report = reports[d][n]
  OBVIOUS
<1>4. /\ n \in FirstReports(d) /\ report.persona \in Players
      /\ \A i \in FirstReports(d) : reports[d][i].persona = report.persona => i = n
      /\ Uncounted \subseteq FirstReports(d) /\ Unrated \subseteq FirstReports(d)
  BY <1>1, <1>2, <1>3, ReportsAreOfPlayers, OwedAreFirsts, RequestRecord DEF StateInv
<1>5. /\ stats[p].wins \in Nat /\ stats[p].losses \in Nat /\ stats[p].games \in Nat
      /\ stats \in [Players -> [wins : Nat, losses : Nat, games : Nat, rating : Nat]]
  BY DEF StateInv, CompetitionTypeOK
<1>6. reports' = reports
  BY <1>1 DEF Proceeds
<1>7. CASE Counts(n)
  <2>1. /\ Uncounted' = Uncounted \ {n} /\ n \in Uncounted /\ Unrated' = Unrated
        /\ stats' = IF report.result = 0
                    THEN [stats EXCEPT ![report.persona].wins = @ + 1]
                    ELSE [stats EXCEPT ![report.persona].losses = @ + 1]
    BY <1>2, <1>3, <1>7 DEF Counts
  <2>2. HasReport(Unrated, p)' <=> HasReport(Unrated, p)
    BY <1>2, <1>6, <2>1 DEF HasReport
  <2>3. /\ HasWin(Uncounted, p)' <=> HasWin(Uncounted, p) /\ ~(report.persona = p /\ report.result = 0)
        /\ HasLoss(Uncounted, p)' <=> HasLoss(Uncounted, p) /\ ~(report.persona = p /\ report.result # 0)
    BY <1>2, <1>3, <1>4, <1>6, <2>1 DEF HasWin, HasLoss
  <2>4. /\ report.persona = p /\ report.result = 0 => HasWin(Uncounted, p)
        /\ report.persona = p /\ report.result # 0 => HasLoss(Uncounted, p)
    BY <1>2, <1>3, <2>1 DEF HasWin, HasLoss
  <2>5. /\ stats'[p].wins = stats[p].wins + (IF report.persona = p /\ report.result = 0 THEN 1 ELSE 0)
        /\ stats'[p].losses = stats[p].losses + (IF report.persona = p /\ report.result # 0 THEN 1 ELSE 0)
        /\ stats'[p].games = stats[p].games
    BY <1>4, <1>5, <2>1
  <2> QED
    BY <1>5, <2>2, <2>3, <2>4, <2>5 DEF Wins, Losses, Games
<1>8. CASE Rates(n)
  <2>1. /\ Uncounted' = Uncounted /\ Unrated' = Unrated \ {n} /\ n \in Unrated
        /\ \E r : stats' = [stats EXCEPT ![report.persona].games = @ + 1, ![report.persona].rating = r]
    BY <1>2, <1>3, <1>8 DEF Rates
  <2>2. HasReport(Unrated, p)' <=> HasReport(Unrated, p) /\ report.persona # p
    BY <1>2, <1>3, <1>4, <1>6, <2>1 DEF HasReport
  <2>3. report.persona = p => HasReport(Unrated, p)
    BY <1>2, <1>3, <2>1 DEF HasReport
  <2>4. /\ HasWin(Uncounted, p)' <=> HasWin(Uncounted, p)
        /\ HasLoss(Uncounted, p)' <=> HasLoss(Uncounted, p)
    BY <1>2, <1>6, <2>1 DEF HasWin, HasLoss
  <2>5. /\ stats'[p].wins = stats[p].wins /\ stats'[p].losses = stats[p].losses
        /\ stats'[p].games = stats[p].games + (IF report.persona = p THEN 1 ELSE 0)
    BY <1>4, <1>5, <2>1
  <2> QED
    BY <1>5, <2>2, <2>3, <2>4, <2>5 DEF Wins, Losses, Games
<1> QED
  BY <1>7, <1>8

\* A quiet step changes nothing of what a player has or is owed.
LEMMA QuietBalances ==
  ASSUME StateInv, StateInv', Quiet, NEW p
  PROVE  Wins(p)' = Wins(p) /\ Losses(p)' = Losses(p) /\ Games(p)' = Games(p)
<1>1. stats' = stats
  BY DEF Quiet
<1>2. CASE UNCHANGED <<request, reports>>
  <2>1. /\ HasWin(Uncounted, p)' <=> HasWin(Uncounted, p)
        /\ HasLoss(Uncounted, p)' <=> HasLoss(Uncounted, p)
        /\ HasReport(Unrated, p)' <=> HasReport(Unrated, p)
    BY <1>2 DEF HasWin, HasLoss, HasReport, Uncounted, Unrated, IsNext, RankedMatch
  <2> QED
    BY <1>1, <2>1 DEF Wins, Losses, Games
<1>3. CASE Uncounted = {} /\ Unrated = {} /\ Uncounted' = {} /\ Unrated' = {}
  <2>1. /\ ~HasWin(Uncounted, p)' /\ ~HasWin(Uncounted, p)
        /\ ~HasLoss(Uncounted, p)' /\ ~HasLoss(Uncounted, p)
        /\ ~HasReport(Unrated, p)' /\ ~HasReport(Unrated, p)
    BY <1>3 DEF HasWin, HasLoss, HasReport
  <2> QED
    BY <1>1, <2>1 DEF Wins, Losses, Games
<1> QED
  BY <1>2, <1>3 DEF Quiet

\* The matches of M that count for player p.
Counted(M, p) == {m \in M : Finalizing(m) /\ Sent(m, p)}

\* Beginning to finalize owes each reporter the match, and only him.
LEMMA BeginsOwes ==
  ASSUME StateInv, StateInv', Begins, NEW p \in Players
  PROVE  /\ Wins(p) = stats[p].wins /\ Losses(p) = stats[p].losses /\ Games(p) = stats[p].games
         /\ Wins(p)' = stats[p].wins + (IF HasWin(FirstReports(request.csid), p) THEN 1 ELSE 0)
         /\ Losses(p)' = stats[p].losses + (IF HasLoss(FirstReports(request.csid), p) THEN 1 ELSE 0)
         /\ Games(p)' = stats[p].games +
              (IF HasReport(FirstReports(request.csid), p) /\ RankedMatch(request.csid) THEN 1 ELSE 0)
         /\ ~(HasWin(FirstReports(request.csid), p) /\ HasLoss(FirstReports(request.csid), p))
         /\ HasReport(FirstReports(request.csid), p) => Sent(request.csid, p)
         /\ HasWin(FirstReports(request.csid), p) \/ HasLoss(FirstReports(request.csid), p)
              <=> HasReport(FirstReports(request.csid), p)
<1> DEFINE F == FirstReports(request.csid)
<1>1. /\ stats[p].wins \in Nat /\ stats[p].losses \in Nat /\ stats[p].games \in Nat
  BY DEF StateInv, CompetitionTypeOK
<1>2. /\ stats' = stats /\ reports' = reports /\ request # Idle /\ request'.csid = request.csid
      /\ Uncounted = {} /\ Unrated = {} /\ Uncounted' = F
      /\ Unrated' = IF RankedMatch(request.csid) THEN F ELSE {}
  BY DEF Begins
<1>3. /\ ~HasWin(Uncounted, p) /\ ~HasLoss(Uncounted, p) /\ ~HasReport(Unrated, p)
      /\ HasWin(Uncounted, p)' <=> HasWin(F, p)
      /\ HasLoss(Uncounted, p)' <=> HasLoss(F, p)
      /\ HasReport(Unrated, p)' <=> HasReport(F, p) /\ RankedMatch(request.csid)
  BY <1>2 DEF HasWin, HasLoss, HasReport
<1>4. \A i, j \in F : reports[request.csid][i].persona = reports[request.csid][j].persona => i = j
  BY <1>2, ReportsAreOfPlayers
<1>5. ~(HasWin(F, p) /\ HasLoss(F, p)) /\ (HasWin(F, p) \/ HasLoss(F, p) <=> HasReport(F, p))
  BY <1>4 DEF HasWin, HasLoss, HasReport
<1>6. HasReport(F, p) => Sent(request.csid, p)
  BY DEF HasReport, Sent, FirstReports
<1> QED
  BY <1>1, <1>2, <1>3, <1>5, <1>6 DEF Wins, Losses, Games

\* The matches that count for a player only grow in number, by the one that begins
\* to count and less the one that is cut off.
LEMMA CountedInSteps ==
  ASSUME StateInv, StateInv', [Next]_vars, NEW M \in SUBSET Matches, NEW p \in Players
  PROVE  /\ Cardinality(Counted(M, p)) \in Nat /\ Cardinality(Counted(M, p)') \in Nat
         /\ Quiet \/ Begins \/ Proceeds => Cardinality(Counted(M, p)) <= Cardinality(Counted(M, p)')
         /\ Begins /\ request.csid \in M /\ Sent(request.csid, p) =>
              Cardinality(Counted(M, p)') = Cardinality(Counted(M, p)) + 1
         /\ Stops => Cardinality(Counted(M, p)) <= Cardinality(Counted(M, p)') + 1
         /\ Stops /\ request.csid \notin M => Cardinality(Counted(M, p)) <= Cardinality(Counted(M, p)')
<1> DEFINE A == Counted(M, p)
           B == Counted(M, p)'
<1>1. IsFiniteSet(M)
  BY CompetitionAssumption, FS_Subset
<1>2. A \in SUBSET M /\ B \in SUBSET M
  BY DEF Counted
<1>3. IsFiniteSet(A) /\ IsFiniteSet(B)
  BY <1>1, <1>2, FS_Subset
<1>4. Cardinality(A) \in Nat /\ Cardinality(B) \in Nat
  BY <1>3, FS_CardinalityType
<1>5. Quiet \/ Begins \/ Proceeds => A \subseteq B
  <2>1. Quiet => A \subseteq B
    BY DEF Quiet, Counted
  <2>2. Begins => A \subseteq B
    BY DEF Begins, Counted, Finalizing, Finalizes, Sent
  <2>3. Proceeds => A \subseteq B
    BY DEF Proceeds, Counted, Finalizing, Finalizes, Sent
  <2> QED
    BY <2>1, <2>2, <2>3
<1>6. Begins /\ request.csid \in M /\ Sent(request.csid, p) =>
        B = A \cup {request.csid} /\ request.csid \notin A
  BY DEF Begins, Counted, Finalizing, Finalizes, Sent
<1>7. Stops => A \subseteq B \cup {request.csid}
  BY DEF Stops, Counted, Finalizing, Finalizes, Sent
<1>8. Stops /\ request.csid \notin M => A \subseteq B
  BY DEF Stops, Counted, Finalizing, Finalizes, Sent
<1> HIDE DEF A, B
<1>9. A \subseteq B => Cardinality(A) <= Cardinality(B)
  BY <1>3, FS_Subset
<1>10. B = A \cup {request.csid} /\ request.csid \notin A => Cardinality(B) = Cardinality(A) + 1
  BY <1>3, FS_AddElement
<1>11. A \subseteq B \cup {request.csid} => Cardinality(A) <= Cardinality(B) + 1
  <2>1. IsFiniteSet(B \cup {request.csid}) /\ Cardinality(B \cup {request.csid}) <= Cardinality(B) + 1
    BY <1>3, <1>4, FS_AddElement
  <2>2. SUFFICES ASSUME A \subseteq B \cup {request.csid}
                 PROVE  Cardinality(A) <= Cardinality(B) + 1
    OBVIOUS
  <2>3. Cardinality(A) <= Cardinality(B \cup {request.csid}) /\ Cardinality(B \cup {request.csid}) \in Nat
    BY <2>1, <2>2, FS_Subset, FS_CardinalityType
  <2> QED
    BY <1>4, <2>1, <2>3
<1>12. /\ Cardinality(A) \in Nat /\ Cardinality(B) \in Nat
       /\ Quiet \/ Begins \/ Proceeds => Cardinality(A) <= Cardinality(B)
       /\ Begins /\ request.csid \in M /\ Sent(request.csid, p) => Cardinality(B) = Cardinality(A) + 1
       /\ Stops => Cardinality(A) <= Cardinality(B) + 1
       /\ Stops /\ request.csid \notin M => Cardinality(A) <= Cardinality(B)
  BY <1>4, <1>5, <1>6, <1>7, <1>8, <1>9, <1>10, <1>11
<1> QED
  BY <1>12 DEF A, B

\* Being cut off takes from what a player is owed.
LEMMA StopsOwesNothing ==
  ASSUME StateInv, StateInv', Stops, NEW p \in Players
  PROVE  /\ Wins(p)' = stats[p].wins /\ Losses(p)' = stats[p].losses
         /\ Wins(p)' <= Wins(p) /\ Losses(p)' <= Losses(p)
<1>1. stats[p].wins \in Nat /\ stats[p].losses \in Nat
  BY DEF StateInv, CompetitionTypeOK
<1>2. stats' = stats /\ Uncounted' = {}
  BY DEF Stops, Uncounted
<1>3. ~HasWin(Uncounted, p)' /\ ~HasLoss(Uncounted, p)'
  BY <1>2 DEF HasWin, HasLoss
<1> QED
  BY <1>1, <1>2, <1>3 DEF Wins, Losses

\* What a player has is part of what he has and is owed.
LEMMA AccountsAreNat ==
  ASSUME StateInv, NEW p \in Players
  PROVE  /\ Wins(p) \in Nat /\ Losses(p) \in Nat /\ Games(p) \in Nat
         /\ stats[p].wins \in Nat /\ stats[p].losses \in Nat /\ stats[p].games \in Nat /\ cuts \in Nat
         /\ stats[p].wins <= Wins(p) /\ stats[p].losses <= Losses(p)
BY DEF StateInv, CompetitionTypeOK, Wins, Losses, Games

-----------------------------------------------------------------------------
(* Each match counts once.                                                    *)

\* What a player has and is owed is one result for each match that counts for him.
CountsOK ==
  \A p \in Players :
    /\ Wins(p) + Losses(p) <= Cardinality(Counted(Matches, p)) + cuts
    /\ stats[p].games + AtHand(p) <= stats[p].wins + stats[p].losses

\* Nobody has or is owed anything at the start.
LEMMA InitCounts == Init => CountsOK
<1> SUFFICES ASSUME Init, NEW p \in Players
             PROVE  /\ Wins(p) + Losses(p) <= Cardinality(Counted(Matches, p)) + cuts
                    /\ stats[p].games + AtHand(p) <= stats[p].wins + stats[p].losses
  BY DEF CountsOK
<1>1. stats[p].wins = 0 /\ stats[p].losses = 0 /\ stats[p].games = 0 /\ cuts = 0 /\ request = Idle
  BY DEF Init
<1>2. Wins(p) = 0 /\ Losses(p) = 0 /\ AtHand(p) = 0
  BY <1>1 DEF Wins, Losses, AtHand, Uncounted, Unrated, HasWin, HasLoss, HasReport
<1>3. Cardinality(Counted(Matches, p)) \in Nat
  <2>1. Counted(Matches, p) \in SUBSET Matches
    BY DEF Counted
  <2> QED
    BY <2>1, CompetitionAssumption, FS_Subset, FS_CardinalityType
<1> QED
  BY <1>1, <1>2, <1>3

\* Finalizing owes a player as much as the match counts for.
LEMMA NextKeepsCounts == StateInv /\ StateInv' /\ CountsOK /\ [Next]_vars => CountsOK'
<1> SUFFICES ASSUME StateInv, StateInv', CountsOK, [Next]_vars, NEW p \in Players
             PROVE  /\ Wins(p)' + Losses(p)' <= Cardinality(Counted(Matches, p)') + cuts'
                    /\ stats'[p].games + AtHand(p)' <= stats'[p].wins + stats'[p].losses
  BY DEF CountsOK
<1>1. /\ Wins(p) + Losses(p) <= Cardinality(Counted(Matches, p)) + cuts
      /\ stats[p].games + AtHand(p) <= stats[p].wins + stats[p].losses
  BY DEF CountsOK
<1>2. /\ Wins(p) \in Nat /\ Losses(p) \in Nat /\ cuts \in Nat
      /\ stats[p].wins \in Nat /\ stats[p].losses \in Nat /\ stats[p].games \in Nat
  BY AccountsAreNat
<1>3. Wins(p)' \in Nat /\ Losses(p)' \in Nat /\ AtHand(p) \in {0, 1} /\ AtHand(p)' \in {0, 1}
  BY DEF StateInv, CompetitionTypeOK, Wins, Losses, AtHand
<1> DEFINE c == Cardinality(Counted(Matches, p))
           d == Cardinality(Counted(Matches, p)')
<1>4. /\ c \in Nat /\ d \in Nat
      /\ Quiet \/ Begins \/ Proceeds => c <= d
      /\ Begins /\ request.csid \in Matches /\ Sent(request.csid, p) => d = c + 1
      /\ Stops => c <= d + 1
  BY CountedInSteps
<1> HIDE DEF c, d
<1>5. CASE Quiet
  <2>1. Wins(p)' = Wins(p) /\ Losses(p)' = Losses(p) /\ UNCHANGED <<stats, cuts>>
    BY <1>5, QuietBalances DEF Quiet
  <2>2. AtHand(p)' <= AtHand(p)
    <3>1. CASE UNCHANGED <<request, reports>>
      BY <1>3, <3>1 DEF AtHand, HasReport, Uncounted, Unrated, IsNext, RankedMatch
    <3>2. CASE Unrated' = {}
      BY <1>3, <3>2 DEF AtHand, HasReport
    <3> QED
      BY <1>5, <3>1, <3>2 DEF Quiet
  <2> QED
    BY <1>1, <1>2, <1>3, <1>4, <1>5, <2>1, <2>2 DEF c, d
<1>6. CASE Begins
  <2>1. Wins(p)' + Losses(p)' <= d + cuts'
    BY <1>1, <1>2, <1>4, <1>6, BeginsOwes DEF Begins, c
  <2>2. AtHand(p)' = 0 /\ stats' = stats
    BY <1>6 DEF Begins, AtHand, HasReport
  <2> QED
    BY <1>1, <1>2, <1>3, <2>1, <2>2 DEF d
<1>7. CASE \E n \in request.left : Counts(n) \/ Rates(n)
  <2>1. PICK n \in request.left : Counts(n) \/ Rates(n)
    BY <1>7
  <2>2. Wins(p)' = Wins(p) /\ Losses(p)' = Losses(p) /\ Proceeds /\ cuts' = cuts
    BY <2>1, AccountsBalance DEF Counts, Rates, Proceeds
  <2>3. PICK who : who = reports[request.csid][n].persona
    OBVIOUS
  <2>4. /\ reports' = reports /\ request'.csid = request.csid
        /\ stats \in [Players -> [wins : Nat, losses : Nat, games : Nat, rating : Nat]]
    BY <2>2 DEF Proceeds, StateInv, CompetitionTypeOK
  <2>5. stats'[p].games + AtHand(p)' <= stats'[p].wins + stats'[p].losses
    <3>1. CASE Counts(n)
      <4>1. AtHand(p) = 0 /\ (AtHand(p)' = 1 => who = p)
        <5>1. /\ Unrated' = Unrated /\ Unrated \subseteq Uncounted /\ Uncounted' = Uncounted \ {n}
          BY <3>1 DEF Counts
        <5>2. ~HasReport(Unrated \ Uncounted, p)
          BY <5>1 DEF HasReport
        <5>3. HasReport(Unrated \ Uncounted, p)' => who = p
          BY <2>3, <2>4, <5>1 DEF HasReport
        <5> QED
          BY <5>2, <5>3 DEF AtHand
      <4>2. /\ stats'[p].games = stats[p].games
            /\ stats'[p].wins + stats'[p].losses = stats[p].wins + stats[p].losses + (IF who = p THEN 1 ELSE 0)
        <5>1. stats' = IF reports[request.csid][n].result = 0
                       THEN [stats EXCEPT ![who].wins = @ + 1] ELSE [stats EXCEPT ![who].losses = @ + 1]
          BY <2>3, <3>1 DEF Counts
        <5>2. stats'[p] = IF who = p
                          THEN IF reports[request.csid][n].result = 0
                               THEN [stats[p] EXCEPT !.wins = @ + 1] ELSE [stats[p] EXCEPT !.losses = @ + 1]
                          ELSE stats[p]
          BY <2>4, <5>1
        <5>3. stats[p] \in [wins : Nat, losses : Nat, games : Nat, rating : Nat]
          BY <2>4
        <5> QED
          BY <5>2, <5>3
      <4> QED
        BY <1>1, <1>2, <1>3, <4>1, <4>2
    <3>2. CASE Rates(n)
      <4>1. AtHand(p)' = 0 /\ (who = p => AtHand(p) = 1)
        BY <2>3, <2>4, <3>2 DEF Rates, AtHand, HasReport
      <4>2. /\ stats'[p].games = stats[p].games + (IF who = p THEN 1 ELSE 0)
            /\ stats'[p].wins = stats[p].wins /\ stats'[p].losses = stats[p].losses
        <5>1. PICK r : stats' = [stats EXCEPT ![who].games = @ + 1, ![who].rating = r]
          BY <2>3, <3>2 DEF Rates
        <5>2. stats'[p] = IF who = p THEN [stats[p] EXCEPT !.games = @ + 1, !.rating = r] ELSE stats[p]
          BY <2>4, <5>1
        <5>3. stats[p] \in [wins : Nat, losses : Nat, games : Nat, rating : Nat]
          BY <2>4
        <5> QED
          BY <5>2, <5>3
      <4> QED
        BY <1>1, <1>2, <1>3, <4>1, <4>2
    <3> QED
      BY <2>1, <3>1, <3>2
  <2> QED
    BY <1>1, <1>2, <1>4, <2>2, <2>5 DEF c, d
<1>8. CASE Stops
  <2>1. AtHand(p)' = 0 /\ stats' = stats /\ cuts' = cuts + 1
    BY <1>8 DEF Stops, AtHand, HasReport, Unrated
  <2> QED
    BY <1>1, <1>2, <1>3, <1>4, <1>8, <2>1, StopsOwesNothing DEF c, d
<1> QED
  BY <1>5, <1>6, <1>7, <1>8, StepKinds

\* The state, and each match once in the statistics.
CountsInv == StateInv /\ CountsOK

\* So no player ever has more results than matches and attempts.
LEMMA CountsInvHolds == Spec => []CountsInv
<1>1. Init => CountsInv
  BY InitEstablishesState, InitCounts DEF CountsInv
<1>2. CountsInv /\ [Next]_vars => CountsInv'
  BY NextKeepsState, NextKeepsCounts DEF CountsInv
<1> QED
  BY <1>1, <1>2, PTL DEF Spec

\* However often a match is reported and wherever requests are cut off, a player's
\* statistics hold it once, plus once for every time finalizing was cut off, and no
\* more games are rated than are counted.
THEOREM EachMatchCountsOnce == Spec => []CountedOnce
<1>1. CountsInv => CountedOnce
  <2> SUFFICES ASSUME CountsInv, NEW p \in Players
               PROVE  /\ stats[p].wins + stats[p].losses
                           <= Cardinality({m \in Matches : Finalizing(m) /\ Sent(m, p)}) + cuts
                      /\ stats[p].games <= stats[p].wins + stats[p].losses
    BY DEF CountedOnce
  <2>1. /\ Wins(p) + Losses(p) <= Cardinality(Counted(Matches, p)) + cuts
        /\ stats[p].games + AtHand(p) <= stats[p].wins + stats[p].losses
        /\ AtHand(p) \in {0, 1}
    BY DEF CountsInv, CountsOK, AtHand
  <2>2. Cardinality(Counted(Matches, p)) \in Nat
    <3>1. Counted(Matches, p) \in SUBSET Matches
      BY DEF Counted
    <3> QED
      BY <3>1, CompetitionAssumption, FS_Subset, FS_CardinalityType
  <2>3. Cardinality(Counted(Matches, p)) = Cardinality({m \in Matches : Finalizing(m) /\ Sent(m, p)})
    BY DEF Counted
  <2> QED
    BY <2>1, <2>2, <2>3, AccountsAreNat DEF CountsInv
<1> QED
  BY <1>1, CountsInvHolds, PTL

-----------------------------------------------------------------------------
(* Everyone who reported a match is counted before it is marked finalized.    *)

\* While a match is finalized, those of its reporters who are not owed anything any
\* more are in the statistics.
EveryoneOK ==
  Finalizes /\ Cardinality(FirstReports(request.csid)) >= 2 =>
    \A n \in FirstReports(request.csid) \ Uncounted :
      stats[reports[request.csid][n].persona].wins + stats[reports[request.csid][n].persona].losses >= 1

\* A reporter stops being owed only by being counted.
LEMMA NextKeepsEveryone == StateInv /\ StateInv' /\ EveryoneOK /\ [Next]_vars => EveryoneOK'
<1> SUFFICES ASSUME StateInv, StateInv', EveryoneOK, [Next]_vars
             PROVE  EveryoneOK'
  OBVIOUS
<1>1. CASE Quiet
  <2>1. CASE UNCHANGED <<request, reports>>
    <3>1. UNCHANGED <<request, reports, stats>>
      BY <1>1, <2>1 DEF Quiet
    <3> QED
      BY <3>1 DEF EveryoneOK, Finalizes, FirstReports, Uncounted, IsNext
  <2>2. CASE ~(Finalizes' /\ Cardinality(FirstReports(request.csid)') >= 2)
    BY <2>2 DEF EveryoneOK
  <2> QED
    BY <1>1, <2>1, <2>2 DEF Quiet
<1>2. CASE Begins
  <2>1. Uncounted' = FirstReports(request.csid)'
    BY <1>2 DEF Begins, FirstReports
  <2> QED
    BY <2>1 DEF EveryoneOK
<1>3. CASE \E n \in request.left : Counts(n) \/ Rates(n)
  <2>1. PICK n \in request.left : Counts(n) \/ Rates(n)
    BY <1>3
  <2>2. /\ Finalizes /\ reports' = reports /\ request # Idle /\ request'.csid = request.csid
        /\ FirstReports(request.csid)' = FirstReports(request.csid)
    BY <2>1 DEF Counts, Rates, Proceeds, Finalizes, FirstReports
  <2> SUFFICES ASSUME Cardinality(FirstReports(request.csid)) >= 2,
                      NEW i \in FirstReports(request.csid), i \notin Uncounted'
               PROVE  LET p == reports[request.csid][i].persona IN stats'[p].wins + stats'[p].losses >= 1
    BY <2>2 DEF EveryoneOK
  <2>3. PICK p \in Players : p = reports[request.csid][i].persona
    BY <2>2, ReportsAreOfPlayers
  <2>4. /\ stats[p].wins \in Nat /\ stats[p].losses \in Nat
        /\ stats'[p].wins \in Nat /\ stats'[p].losses \in Nat
        /\ stats \in [Players -> [wins : Nat, losses : Nat, games : Nat, rating : Nat]]
    BY DEF StateInv, CompetitionTypeOK
  <2>5. CASE i \notin Uncounted
    <3>1. stats[p].wins + stats[p].losses >= 1
      BY <2>2, <2>3, <2>5 DEF EveryoneOK
    <3>2. stats'[p].wins + stats'[p].losses >= stats[p].wins + stats[p].losses
      BY <2>1, AccountsBalance
    <3>3. stats'[p].wins + stats'[p].losses >= 1
      BY <2>4, <3>1, <3>2
    <3> QED
      BY <2>3, <3>3
  <2>6. CASE i \in Uncounted
    <3>1. i = n /\ Counts(n)
      BY <2>1, <2>6 DEF Counts, Rates
    <3>2. stats'[p].wins + stats'[p].losses = stats[p].wins + stats[p].losses + 1
      <4>1. stats' = IF reports[request.csid][i].result = 0 THEN [stats EXCEPT ![p].wins = @ + 1]
                     ELSE [stats EXCEPT ![p].losses = @ + 1]
        BY <2>3, <3>1 DEF Counts
      <4>2. stats'[p] = IF reports[request.csid][i].result = 0 THEN [stats[p] EXCEPT !.wins = @ + 1]
                        ELSE [stats[p] EXCEPT !.losses = @ + 1]
        BY <2>4, <4>1
      <4>3. stats[p] \in [wins : Nat, losses : Nat, games : Nat, rating : Nat]
        BY <2>4
      <4> QED
        BY <4>2, <4>3
    <3>3. stats[p].wins + stats[p].losses + 1 >= 1
      BY <2>4
    <3> QED
      BY <2>3, <3>2, <3>3
  <2> QED
    BY <2>5, <2>6
<1>4. CASE Stops
  BY <1>4 DEF Stops, EveryoneOK, Finalizes
<1> QED
  BY <1>1, <1>2, <1>3, <1>4, StepKinds

\* So a request that has nobody left has counted everyone.
LEMMA EveryoneHolds == Spec => [](StateInv /\ EveryoneOK)
<1>1. Init => StateInv /\ EveryoneOK
  BY InitEstablishesState DEF Init, EveryoneOK, Finalizes
<1>2. StateInv /\ EveryoneOK /\ [Next]_vars => (StateInv /\ EveryoneOK)'
  BY NextKeepsState, NextKeepsEveryone
<1> QED
  BY <1>1, <1>2, PTL DEF Spec

\* A session becomes finalized only when nobody is owed anything.
LEMMA OnlyMarkFinalizedFinalizes ==
  ASSUME StateInv, [Next]_vars, NEW m \in Matches, session'[m].finalized, ~session[m].finalized
  PROVE  request # Idle /\ request.at = "finishing" /\ request.csid = m
<1>1. session \in [Matches -> [status : {"none", "active", "completed"},
                               received : 0 .. MaxReports, finalized : BOOLEAN]]
  BY DEF StateInv, CompetitionTypeOK
<1>2. ASSUME NEW d \in Matches, CreateSession(d)
      PROVE  FALSE
  BY <1>1, <1>2 DEF CreateSession
<1>3. ~IncrementReceived
  BY <1>1 DEF IncrementReceived
<1>4. ~CompleteSession
  BY <1>1 DEF CompleteSession
<1>5. CASE MarkFinalized
  BY <1>1, <1>5 DEF MarkFinalized, At
<1>6. session' # session
  OBVIOUS
<1>7. (\E d \in Matches : CreateSession(d)) \/ IncrementReceived \/ CompleteSession \/ MarkFinalized
  <2>1. ~UNCHANGED vars
    BY <1>6 DEF vars
  <2>2. \A d, p : ~SetReportIntention(d, p)
    BY <1>6 DEF SetReportIntention
  <2>3. \A d, p, final, form, ranked : ~Submit(d, p, final, form, ranked)
    BY <1>6 DEF Submit
  <2>4. ~(MarkReported \/ BeginFinalize \/ UpdateWinLoss \/ UpdateElo \/ CutOff)
    BY <1>6 DEF MarkReported, BeginFinalize, UpdateWinLoss, UpdateElo, CutOff
  <2> QED
    BY <2>1, <2>2, <2>3, <2>4 DEF Next, Handle
<1> QED
  BY <1>2, <1>3, <1>4, <1>5, <1>7

\* A match with two reporters or more is never marked finalized before it is in the
\* statistics of all of them, wherever earlier attempts were cut off.
THEOREM FinalizedIsCounted == Spec => EveryoneIsCounted
<1>1. ASSUME StateInv, EveryoneOK, [Next]_vars, NEW m \in Matches,
             session'[m].finalized, ~session[m].finalized, Cardinality(FirstReports(m)) >= 2,
             NEW p \in Players, Sent(m, p)
      PROVE  stats[p].wins + stats[p].losses >= 1
  <2>1. request # Idle /\ request.at = "finishing" /\ request.csid = m /\ Uncounted = {} /\ Finalizes
    BY <1>1, OnlyMarkFinalizedFinalizes, NobodyOwed DEF Finalizes
  <2>2. PICK n \in FirstReports(m) : reports[m][n].persona = p
    BY <1>1 DEF Sent, StateInv, FirstsExist, Csids
  <2> QED
    BY <1>1, <2>1, <2>2 DEF EveryoneOK
<1>2. StateInv /\ EveryoneOK /\ [Next]_vars =>
        [\A m \in Matches :
          (session'[m].finalized /\ ~session[m].finalized /\ Cardinality(FirstReports(m)) >= 2) =>
            \A p \in Players : Sent(m, p) => stats[p].wins + stats[p].losses >= 1]_vars
  BY <1>1
<1> QED
  BY <1>2, EveryoneHolds, PTL DEF Spec, EveryoneIsCounted

-----------------------------------------------------------------------------
(* The statistics are true as far as the oldest reports are.                  *)

\* The oldest report of every match tells the truth.
Honest == \A m \in Matches : FirstIsTrue(m)

\* Then every first report does, whoever sent it and in whatever form.
TruthOK ==
  Honest => \A m \in Matches : \A n \in FirstReports(m) :
    reports[m][n].result = 0 <=> outcome[m].result[reports[m][n].persona] = "win"

\* The forms of reports from which the server can tell its sender's result.
Readable == "unreadable" \notin Forms /\ ("unnamed" \in Forms => Cardinality(Players) = 2)

\* Two different players are all there are.
LEMMA PlayersAreTwo ==
  ASSUME Cardinality(Players) = 2, NEW p \in Players, NEW q \in Players, p # q
  PROVE  Players = {p, q}
<1>1. IsFiniteSet({p}) /\ Cardinality({p}) = 1
  BY FS_Singleton
<1>2. Cardinality({p} \cup {q}) = 2
  BY <1>1, FS_AddElement
<1>3. {p} \cup {q} = Players
  <2>1. {p} \cup {q} \in SUBSET Players
    OBVIOUS
  <2> QED
    BY <1>2, <2>1, CompetitionAssumption, FS_Subset
<1> QED
  BY <1>3

\* Of two players one wins and the other does not.
LEMMA TwoPlayers ==
  ASSUME Cardinality(Players) = 2, NEW p \in Players, NEW q \in Players, p # q, NEW o \in Outcomes
  PROVE  Players = {p, q} /\ (o.result[p] = "win" <=> o.result[q] # "win")
BY PlayersAreTwo DEF Outcomes

\* A report that can be attributed is stored as what happened to its sender.
LEMMA SubmitKeepsTruth ==
  ASSUME Readable, StateInv, StateInv', TruthOK, NEW m \in Csids, NEW p \in Players, NEW final \in BOOLEAN,
         NEW form \in Forms \cup {"named"}, NEW ranked \in BOOLEAN, Submit(m, p, final, form, ranked)
  PROVE  TruthOK'
<1> DEFINE r == [persona |-> p, ranked |-> ranked,
                 result |-> IF m \in Matches THEN StoredResult(m, p, final, form) ELSE 0]
           k == Len(reports[m])
<1>1. /\ UNCHANGED <<outcome, session, intents, stats, cuts>>
      /\ reports' = [reports EXCEPT ![m] = Append(@, r)]
      /\ k < MaxReports
  BY ReportRows, CompetitionAssumption DEF Submit, StateInv
<1>2. Honest' => Honest
  BY SubmitIsQuiet DEF Quiet, Honest
<1>3. DOMAIN reports = Csids /\ reports[m] \in Seq(Report) /\ k \in Nat /\ DOMAIN reports[m] = 1 .. k
  <2>1. DOMAIN reports = Csids
    BY DEF StateInv, CompetitionTypeOK
  <2>2. reports[m] \in Seq(Report) /\ k \in 0 .. MaxReports /\ DOMAIN reports[m] = 1 .. k
    BY ReportRows DEF StateInv
  <2> QED
    BY <2>1, <2>2, CompetitionAssumption
<1>4. \A d \in Matches \ {m} : reports'[d] = reports[d] /\ FirstReports(d)' = FirstReports(d)
  BY <1>1, <1>3 DEF FirstReports, Csids
<1>5. reports'[m] = Append(reports[m], r)
  BY <1>1, <1>3
<1>6. r.persona = p /\ r.result = (IF m \in Matches THEN StoredResult(m, p, final, form) ELSE 0)
  OBVIOUS
<1> HIDE DEF r
<1>7. /\ \A i \in 1 .. k : reports'[m][i] = reports[m][i]
      /\ reports'[m][k + 1] = r /\ DOMAIN reports'[m] = 1 .. (k + 1) /\ Len(reports'[m]) = k + 1
  BY <1>3, <1>5
<1> SUFFICES ASSUME Honest', NEW d \in Matches, NEW n \in FirstReports(d)'
             PROVE  reports'[d][n].result = 0 <=> outcome[d].result[reports'[d][n].persona] = "win"
  BY <1>1 DEF TruthOK
<1>8. ASSUME NEW e \in Matches, NEW i \in FirstReports(e)
      PROVE  reports[e][i].result = 0 <=> outcome[e].result[reports[e][i].persona] = "win"
  BY <1>2 DEF TruthOK
<1>9. CASE d # m
  BY <1>4, <1>8, <1>9
<1>10. CASE d = m /\ n \in 1 .. k
  <2>1. \A i \in 1 .. (n - 1) : reports'[m][i].persona # reports'[m][n].persona /\ i \in 1 .. k
    BY <1>3, <1>10 DEF FirstReports
  <2>2. n \in FirstReports(m)
    BY <1>3, <1>7, <1>10, <2>1 DEF FirstReports
  <2> QED
    BY <1>7, <1>8, <1>10, <2>2
<1>11. CASE d = m /\ n = k + 1
  <2>1. reports'[d][n] = r /\ m \in Matches /\ r.result = StoredResult(m, p, final, form)
    BY <1>6, <1>7, <1>11
  <2>2. \A i \in 1 .. k : reports[m][i].persona # p
    BY <1>6, <1>7, <1>11 DEF FirstReports
  <2>3. SUFFICES StoredResult(m, p, final, form) = 0 <=> outcome[m].result[p] = "win"
    BY <1>6, <1>11, <2>1
  <2>4. CASE form = "named" \/ (form = "unnamed" /\ ~final)
    BY <2>4 DEF StoredResult
  <2>5. CASE ~(form = "named" \/ (form = "unnamed" /\ ~final))
    <3>1. form = "unnamed" /\ final /\ Cardinality(Players) = 2
      BY <2>5, CompetitionAssumption DEF Readable
    <3>2. CASE reports[m] = <<>>
      <4>1. StoredResult(m, p, final, form) = 0 /\ k = 0
        BY <2>5, <3>2 DEF StoredResult
      <4>2. reports'[m] # <<>> /\ reports'[m][1] = r
        BY <1>7, <4>1
      <4> QED
        BY <1>1, <1>6, <2>1, <4>1, <4>2 DEF Honest, FirstIsTrue
    <3>3. CASE reports[m] # <<>>
      <4>1. 1 \in 1 .. k
        BY <1>3, <3>3, EmptySeq
      <4>2. 1 \in FirstReports(m) /\ reports[m][1] \in Report
        BY <1>3, <4>1 DEF FirstReports
      <4>3. StoredResult(m, p, final, form) = 1 - reports[m][1].result
        BY <2>5, <3>1, <3>3 DEF StoredResult
      <4>4. PICK q \in Players : q = reports[m][1].persona
        BY <4>2 DEF Report
      <4>5. q # p
        BY <2>2, <4>1, <4>4
      <4>6. outcome[m].result[p] = "win" <=> outcome[m].result[q] # "win"
        <5>1. PICK o \in Outcomes : o = outcome[m]
          BY <2>1 DEF StateInv, CompetitionTypeOK
        <5> QED
          BY <3>1, <4>4, <4>5, <5>1, TwoPlayers
      <4>7. reports[m][1].result = 0 <=> outcome[m].result[q] = "win"
        BY <1>8, <2>1, <4>2, <4>4
      <4> QED
        BY <4>2, <4>3, <4>6, <4>7 DEF Report
    <3> QED
      BY <3>2, <3>3
  <2> QED
    BY <2>4, <2>5
<1>12. d = m => n \in 1 .. k \/ n = k + 1
  BY <1>3, <1>7 DEF FirstReports
<1> QED
  BY <1>9, <1>10, <1>11, <1>12

\* No step makes a true report false.
LEMMA NextKeepsTruth == Readable /\ StateInv /\ StateInv' /\ TruthOK /\ [Next]_vars => TruthOK'
<1> SUFFICES ASSUME Readable, StateInv, StateInv', TruthOK, [Next]_vars
             PROVE  TruthOK'
  OBVIOUS
<1>1. CASE UNCHANGED <<outcome, reports>>
  BY <1>1 DEF TruthOK, Honest, FirstIsTrue, FirstReports
<1>2. ASSUME NEW m \in Matches, NEW p \in Players, NEW final \in BOOLEAN, NEW form \in Forms,
             NEW ranked \in RankedAs(m, p, final, form), Submit(m, p, final, form, ranked)
      PROVE  TruthOK'
  <2>1. ranked \in BOOLEAN
    BY CompetitionAssumption DEF RankedAs, Outcomes, StateInv, CompetitionTypeOK
  <2> QED
    BY <1>2, <2>1, SubmitKeepsTruth DEF Csids
<1>3. ASSUME NEW p \in Players, NEW final \in BOOLEAN, Submit(NoMatch, p, final, "named", FALSE)
      PROVE  TruthOK'
  BY <1>3, SubmitKeepsTruth DEF Csids
<1> QED
  BY <1>1, <1>2, <1>3 DEF Next, Handle, vars, CreateSession, SetReportIntention, MarkReported, IncrementReceived,
     CompleteSession, BeginFinalize, UpdateWinLoss, UpdateElo, MarkFinalized, CutOff

\* The matches a player won.
Won(p) == {m \in Matches : outcome[m].result[p] = "win"}

\* A player has and is owed no more wins than matches he won that count for him, and
\* no more losses than matches he did not win.
WinsOK ==
  Honest => \A p \in Players :
    /\ Wins(p) <= Cardinality(Counted(Won(p), p)) + (IF Won(p) = {} THEN 0 ELSE cuts)
    /\ Losses(p) <= Cardinality(Counted(Matches \ Won(p), p)) + (IF Matches \ Won(p) = {} THEN 0 ELSE cuts)

\* There are no reports and no results at the start.
LEMMA InitTruth == Init => TruthOK /\ WinsOK
<1> SUFFICES ASSUME Init
             PROVE  TruthOK /\ WinsOK
  OBVIOUS
<1>1. TruthOK
  BY DEF Init, TruthOK, FirstReports, Csids
<1>2. ASSUME NEW p \in Players, NEW M \in SUBSET Matches
      PROVE  Wins(p) = 0 /\ Losses(p) = 0 /\ Cardinality(Counted(M, p)) \in Nat /\ cuts = 0
  <2>1. stats[p].wins = 0 /\ stats[p].losses = 0 /\ cuts = 0 /\ request = Idle
    BY DEF Init
  <2>2. Wins(p) = 0 /\ Losses(p) = 0
    BY <2>1 DEF Wins, Losses, Uncounted, HasWin, HasLoss
  <2>3. Counted(M, p) \in SUBSET Matches
    BY DEF Counted
  <2> QED
    BY <2>1, <2>2, <2>3, CompetitionAssumption, FS_Subset, FS_CardinalityType
<1>3. WinsOK
  <2> SUFFICES ASSUME NEW p \in Players
               PROVE  /\ Wins(p) <= Cardinality(Counted(Won(p), p)) + (IF Won(p) = {} THEN 0 ELSE cuts)
                      /\ Losses(p) <= Cardinality(Counted(Matches \ Won(p), p)) + (IF Matches \ Won(p) = {} THEN 0 ELSE cuts)
    BY DEF WinsOK
  <2>1. Won(p) \in SUBSET Matches /\ Matches \ Won(p) \in SUBSET Matches
    BY DEF Won
  <2> HIDE DEF Init
  <2> QED
    BY <1>2, <2>1
<1> QED
  BY <1>1, <1>3

\* When finalizing begins, a reporter is owed what the match was for him.
LEMMA OwedIsTrue ==
  ASSUME StateInv, TruthOK, Honest, request # Idle, request.csid \in Matches, NEW p \in Players
  PROVE  /\ HasWin(FirstReports(request.csid), p) => request.csid \in Won(p)
         /\ HasLoss(FirstReports(request.csid), p) => request.csid \notin Won(p)
BY DEF TruthOK, HasWin, HasLoss, Won

\* Results are owed for what the first reports tell, and each match counts once.
LEMMA NextKeepsWins == StateInv /\ StateInv' /\ TruthOK /\ WinsOK /\ [Next]_vars => WinsOK'
<1> SUFFICES ASSUME StateInv, StateInv', TruthOK, WinsOK, [Next]_vars, Honest', NEW p \in Players
             PROVE  /\ Wins(p)' <= Cardinality(Counted(Won(p), p)') + (IF Won(p)' = {} THEN 0 ELSE cuts')
                    /\ Losses(p)' <= Cardinality(Counted(Matches \ Won(p), p)') + (IF Matches \ Won(p)' = {} THEN 0 ELSE cuts')
  BY DEF WinsOK
<1>1. Quiet \/ Begins \/ (\E n \in request.left : (Counts(n) \/ Rates(n)) /\ Proceeds) \/ Stops
  BY StepKinds DEF Counts, Rates
<1>2. Honest /\ Won(p)' = Won(p) /\ outcome' = outcome
  <2>1. Quiet => Honest /\ outcome' = outcome
    BY DEF Quiet, Honest
  <2>2. Begins \/ Proceeds \/ Stops => Honest /\ outcome' = outcome
    BY DEF Begins, Proceeds, Stops, Honest, FirstIsTrue
  <2>3. outcome' = outcome => Won(p)' = Won(p)
    BY DEF Won
  <2> QED
    BY <1>1, <2>1, <2>2, <2>3
<1>3. PICK W \in SUBSET Matches : W = Won(p)
  BY DEF Won
<1>4. PICK L \in SUBSET Matches : L = Matches \ W
  OBVIOUS
<1>5. /\ Wins(p) <= Cardinality(Counted(W, p)) + (IF W = {} THEN 0 ELSE cuts)
      /\ Losses(p) <= Cardinality(Counted(L, p)) + (IF L = {} THEN 0 ELSE cuts)
  BY <1>2, <1>3, <1>4 DEF WinsOK
<1> SUFFICES /\ Wins(p)' <= Cardinality(Counted(W, p)') + (IF W = {} THEN 0 ELSE cuts')
             /\ Losses(p)' <= Cardinality(Counted(L, p)') + (IF L = {} THEN 0 ELSE cuts')
  <2>1. Counted(Won(p), p)' = Counted(W, p)' /\ Counted(Matches \ Won(p), p)' = Counted(L, p)'
    BY <1>2, <1>3, <1>4 DEF Counted
  <2> QED
    BY <1>2, <1>3, <1>4, <2>1
<1>6. /\ Wins(p) \in Nat /\ Losses(p) \in Nat /\ cuts \in Nat
      /\ stats[p].wins \in Nat /\ stats[p].losses \in Nat
      /\ Wins(p)' \in Nat /\ Losses(p)' \in Nat
      /\ stats[p].wins <= Wins(p) /\ stats[p].losses <= Losses(p)
  <2>1. Wins(p)' \in Nat /\ Losses(p)' \in Nat
    BY DEF StateInv, CompetitionTypeOK, Wins, Losses
  <2> QED
    BY <2>1, AccountsAreNat
<1> DEFINE a == Cardinality(Counted(W, p))
           b == Cardinality(Counted(W, p)')
           c == Cardinality(Counted(L, p))
           d == Cardinality(Counted(L, p)')
<1>7. /\ a \in Nat /\ b \in Nat
      /\ Quiet \/ Begins \/ Proceeds => a <= b
      /\ Begins /\ request.csid \in W /\ Sent(request.csid, p) => b = a + 1
      /\ Stops => a <= b + 1
      /\ Stops /\ request.csid \notin W => a <= b
  BY CountedInSteps
<1>8. /\ c \in Nat /\ d \in Nat
      /\ Quiet \/ Begins \/ Proceeds => c <= d
      /\ Begins /\ request.csid \in L /\ Sent(request.csid, p) => d = c + 1
      /\ Stops => c <= d + 1
      /\ Stops /\ request.csid \notin L => c <= d
  BY CountedInSteps
<1> HIDE DEF a, b, c, d
<1>9. Wins(p) <= a + (IF W = {} THEN 0 ELSE cuts) /\ Losses(p) <= c + (IF L = {} THEN 0 ELSE cuts)
  BY <1>5 DEF a, c
<1>10. SUFFICES Wins(p)' <= b + (IF W = {} THEN 0 ELSE cuts') /\ Losses(p)' <= d + (IF L = {} THEN 0 ELSE cuts')
  BY DEF b, d
<1>11. CASE Quiet
  <2>1. Wins(p)' = Wins(p) /\ Losses(p)' = Losses(p) /\ cuts' = cuts
    BY <1>11, QuietBalances DEF Quiet
  <2> QED
    BY <1>6, <1>7, <1>8, <1>9, <1>11, <2>1
<1>12. CASE Begins
  <2>1. /\ request # Idle /\ request.csid \in Matches /\ cuts' = cuts
    BY <1>12 DEF Begins
  <2>2. /\ HasWin(FirstReports(request.csid), p) => request.csid \in W /\ Sent(request.csid, p)
        /\ HasLoss(FirstReports(request.csid), p) => request.csid \in L /\ Sent(request.csid, p)
    BY <1>2, <1>3, <1>4, <1>12, <2>1, OwedIsTrue, BeginsOwes
  <2>3. /\ Wins(p)' = Wins(p) + (IF HasWin(FirstReports(request.csid), p) THEN 1 ELSE 0)
        /\ Losses(p)' = Losses(p) + (IF HasLoss(FirstReports(request.csid), p) THEN 1 ELSE 0)
    BY <1>12, BeginsOwes
  <2> QED
    BY <1>6, <1>7, <1>8, <1>9, <1>12, <2>1, <2>2, <2>3
<1>13. CASE \E n \in request.left : (Counts(n) \/ Rates(n)) /\ Proceeds
  <2>1. Wins(p)' = Wins(p) /\ Losses(p)' = Losses(p) /\ cuts' = cuts /\ Proceeds
    BY <1>13, AccountsBalance DEF Proceeds
  <2> QED
    BY <1>6, <1>7, <1>8, <1>9, <2>1
<1>14. CASE Stops
  <2>1. /\ Wins(p)' <= Wins(p) /\ Losses(p)' <= Losses(p) /\ cuts' = cuts + 1
        /\ request.csid \in Matches
    BY <1>14, StopsOwesNothing DEF Stops
  <2>2. W = {} => request.csid \notin W
    OBVIOUS
  <2>3. L = {} => request.csid \notin L
    OBVIOUS
  <2> QED
    BY <1>6, <1>7, <1>8, <1>9, <1>14, <2>1, <2>2, <2>3
<1> QED
  BY <1>1, <1>11, <1>12, <1>13, <1>14

\* Results that can be attributed are never more than the matches times the attempts.
LEMMA AttemptsBound ==
  ASSUME NEW w \in Nat, NEW a \in Nat, NEW c \in Nat, NEW k \in Nat, a <= c, w <= a + (IF c = 0 THEN 0 ELSE k)
  PROVE  w <= c * (1 + k)
<1>1. CASE c = 0
  BY <1>1
<1>2. CASE c # 0
  <2>1. c - 1 \in Nat /\ (c - 1) * k \in Nat
    BY <1>2
  <2>2. c * (1 + k) = c + k + (c - 1) * k
    OBVIOUS
  <2>3. w <= c + k
    BY <1>2
  <2> QED
    BY <2>1, <2>2, <2>3
<1> QED
  BY <1>1, <1>2

\* The inductive invariant for the wins and the losses.
TruthInv == StateInv /\ TruthOK /\ WinsOK

\* When every report can be attributed to its sender (it is readable, and names him
\* unless there are but two players), a player whose opponents' oldest reports are
\* true has no wins but of matches he won and no losses but of matches he did not
\* win, one for each such match and each attempt to finalize it.
THEOREM StatisticsAreTrue ==
  ASSUME Readable
  PROVE  Spec => []WinsAreTrue
<1>1. Init => TruthInv
  BY InitEstablishesState, InitTruth DEF TruthInv
<1>2. TruthInv /\ [Next]_vars => TruthInv'
  BY NextKeepsState, NextKeepsTruth, NextKeepsWins DEF TruthInv
<1>3. TruthInv => WinsAreTrue
  <2> SUFFICES ASSUME TruthInv, Honest, NEW p \in Players
               PROVE  /\ stats[p].wins <= Cardinality(Won(p)) * (1 + cuts)
                      /\ stats[p].losses <= Cardinality(Matches \ Won(p)) * (1 + cuts)
    BY DEF WinsAreTrue, Honest, Won
  <2>1. /\ Wins(p) <= Cardinality(Counted(Won(p), p)) + (IF Won(p) = {} THEN 0 ELSE cuts)
        /\ Losses(p) <= Cardinality(Counted(Matches \ Won(p), p)) + (IF Matches \ Won(p) = {} THEN 0 ELSE cuts)
    BY DEF TruthInv, WinsOK
  <2>2. /\ Wins(p) \in Nat /\ Losses(p) \in Nat /\ cuts \in Nat /\ stats[p].wins \in Nat /\ stats[p].losses \in Nat
        /\ stats[p].wins <= Wins(p) /\ stats[p].losses <= Losses(p)
    BY AccountsAreNat DEF TruthInv
  <2>3. ASSUME NEW M \in SUBSET Matches
        PROVE  /\ Cardinality(M) \in Nat /\ Cardinality(Counted(M, p)) \in Nat
               /\ Cardinality(Counted(M, p)) <= Cardinality(M) /\ (Cardinality(M) = 0 <=> M = {})
    <3>1. IsFiniteSet(M)
      BY CompetitionAssumption, FS_Subset
    <3>2. Counted(M, p) \in SUBSET M
      BY DEF Counted
    <3>3. IsFiniteSet(Counted(M, p)) /\ Cardinality(Counted(M, p)) <= Cardinality(M)
      BY <3>1, <3>2, FS_Subset
    <3> QED
      BY <3>1, <3>3, FS_CardinalityType, FS_EmptySet
  <2>4. ASSUME NEW M \in SUBSET Matches, NEW w \in Nat,
               w <= Cardinality(Counted(M, p)) + (IF M = {} THEN 0 ELSE cuts)
        PROVE  w <= Cardinality(M) * (1 + cuts)
    <3>1. w <= Cardinality(Counted(M, p)) + (IF Cardinality(M) = 0 THEN 0 ELSE cuts)
      BY <2>3, <2>4
    <3> QED
      BY <2>2, <2>3, <3>1, AttemptsBound
  <2>5. Won(p) \in SUBSET Matches /\ Matches \ Won(p) \in SUBSET Matches
    BY DEF Won
  <2>6. /\ Wins(p) <= Cardinality(Won(p)) * (1 + cuts)
        /\ Losses(p) <= Cardinality(Matches \ Won(p)) * (1 + cuts)
    BY <2>1, <2>2, <2>4, <2>5
  <2>7. Cardinality(Won(p)) * (1 + cuts) \in Nat /\ Cardinality(Matches \ Won(p)) * (1 + cuts) \in Nat
    <3>1. \A x, y \in Nat : x * (1 + y) \in Nat
      OBVIOUS
    <3>2. Cardinality(Won(p)) \in Nat /\ Cardinality(Matches \ Won(p)) \in Nat
      BY <2>3, <2>5
    <3> QED
      BY <2>2, <3>1, <3>2
  <2> QED
    BY <2>2, <2>6, <2>7
<1> QED
  BY <1>1, <1>2, <1>3, PTL DEF Spec

-----------------------------------------------------------------------------
(* A ladder of two.                                                           *)

\* What one of the two has and is owed in wins, the other has and is owed in losses.
AgreeOK ==
  Honest /\ cuts = 0 => \A p, q \in Players : p # q =>
    Wins(p) = Losses(q) /\ Games(p) = Games(q)

\* Two first reports are those of both players of a ladder of two.
LEMMA TwoReports ==
  ASSUME StateInv, NEW m \in Matches, Cardinality(Players) = 2, Cardinality(FirstReports(m)) >= 2
  PROVE  \A p \in Players : \E n \in FirstReports(m) : reports[m][n].persona = p
<1> DEFINE F == FirstReports(m)
<1>1. IsFiniteSet(F) /\ \A n \in F : reports[m][n] \in Report
  BY FirstsAreReports DEF StateInv, Csids
<1>2. \A i, j \in F : i # j => reports[m][i].persona # reports[m][j].persona
  BY FirstsDiffer DEF StateInv, Csids
<1>3. Cardinality(F) >= 2
  OBVIOUS
<1> HIDE DEF F
<1>4. F # {}
  BY <1>3, FS_EmptySet
<1>5. PICK i \in F : TRUE
  BY <1>4
<1>6. F # {i}
  <2>1. Cardinality({i}) = 1
    BY FS_Singleton
  <2> QED
    BY <1>3, <2>1
<1>7. PICK j \in F : j # i
  BY <1>4, <1>5, <1>6
<1>8. PICK p, q \in Players : p = reports[m][i].persona /\ q = reports[m][j].persona
  BY <1>1, <1>5, <1>7 DEF Report
<1>9. p # q
  BY <1>2, <1>7, <1>8
<1>10. PICK o \in Outcomes : o = outcome[m]
  BY DEF StateInv, CompetitionTypeOK
<1>11. Players = {p, q}
  BY <1>9, TwoPlayers
<1>12. \A r \in Players : \E n \in F : reports[m][n].persona = r
  BY <1>5, <1>7, <1>8, <1>11
<1> QED
  BY <1>12 DEF F

\* When a match begins to count, one is owed a win and the other a loss.
LEMMA NextKeepsAgree ==
  ASSUME Cardinality(Players) = 2, StateInv, StateInv', TruthOK, AgreeOK, [Next]_vars
  PROVE  AgreeOK'
<1> SUFFICES ASSUME Honest', cuts' = 0, NEW p \in Players, NEW q \in Players, p # q
             PROVE  Wins(p)' = Losses(q)' /\ Games(p)' = Games(q)'
  BY DEF AgreeOK
<1>1. Quiet \/ Begins \/ (\E n \in request.left : (Counts(n) \/ Rates(n)) /\ Proceeds) \/ Stops
  BY StepKinds DEF Counts, Rates
<1>2. cuts \in Nat
  BY DEF StateInv, CompetitionTypeOK
<1>3. ~Stops
  BY <1>2 DEF Stops
<1>4. Honest /\ cuts = 0
  <2>1. Quiet => Honest /\ cuts' = cuts
    BY DEF Quiet, Honest
  <2>2. Begins \/ Proceeds => Honest /\ cuts' = cuts
    BY DEF Begins, Proceeds, Honest, FirstIsTrue
  <2> QED
    BY <1>1, <1>3, <2>1, <2>2
<1>5. Wins(p) = Losses(q) /\ Games(p) = Games(q)
  BY <1>4 DEF AgreeOK
<1>6. CASE Quiet
  BY <1>5, <1>6, QuietBalances
<1>7. CASE \E n \in request.left : (Counts(n) \/ Rates(n)) /\ Proceeds
  BY <1>5, <1>7, AccountsBalance
<1>8. CASE Begins
  <2>1. request # Idle /\ request.csid \in Matches /\ Cardinality(FirstReports(request.csid)) >= 2
    BY <1>8 DEF Begins
  <2>2. PICK o \in Outcomes : o = outcome[request.csid]
    BY <2>1 DEF StateInv, CompetitionTypeOK
  <2>3. o.result[p] = "win" <=> o.result[q] # "win"
    BY TwoPlayers
  <2>4. request.csid \in Won(p) <=> request.csid \notin Won(q)
    BY <2>1, <2>2, <2>3 DEF Won
  <2>5. HasReport(FirstReports(request.csid), p) /\ HasReport(FirstReports(request.csid), q)
    BY <2>1, TwoReports DEF HasReport
  <2>6. HasWin(FirstReports(request.csid), p) <=> HasLoss(FirstReports(request.csid), q)
    <3>1. /\ HasWin(FirstReports(request.csid), p) => request.csid \in Won(p)
          /\ HasLoss(FirstReports(request.csid), p) => request.csid \notin Won(p)
          /\ HasWin(FirstReports(request.csid), q) => request.csid \in Won(q)
          /\ HasLoss(FirstReports(request.csid), q) => request.csid \notin Won(q)
      BY <1>4, <2>1, OwedIsTrue
    <3>2. /\ HasWin(FirstReports(request.csid), p) \/ HasLoss(FirstReports(request.csid), p)
          /\ HasWin(FirstReports(request.csid), q) \/ HasLoss(FirstReports(request.csid), q)
      BY <1>8, <2>5, BeginsOwes
    <3> QED
      BY <2>4, <3>1, <3>2
  <2>7. /\ Wins(p) = stats[p].wins /\ Games(p) = stats[p].games
        /\ Wins(p)' = stats[p].wins + (IF HasWin(FirstReports(request.csid), p) THEN 1 ELSE 0)
        /\ Games(p)' = stats[p].games +
             (IF HasReport(FirstReports(request.csid), p) /\ RankedMatch(request.csid) THEN 1 ELSE 0)
    BY <1>8, BeginsOwes
  <2>8. /\ Losses(q) = stats[q].losses /\ Games(q) = stats[q].games
        /\ Losses(q)' = stats[q].losses + (IF HasLoss(FirstReports(request.csid), q) THEN 1 ELSE 0)
        /\ Games(q)' = stats[q].games +
             (IF HasReport(FirstReports(request.csid), q) /\ RankedMatch(request.csid) THEN 1 ELSE 0)
    BY <1>8, BeginsOwes
  <2>9. stats[p].wins = stats[q].losses /\ stats[p].games = stats[q].games
    BY <1>5, <2>7, <2>8
  <2>10. Wins(p)' = Losses(q)'
    BY <2>6, <2>7, <2>8, <2>9
  <2>11. Games(p)' = Games(q)'
    BY <2>5, <2>7, <2>8, <2>9
  <2> QED
    BY <2>10, <2>11
<1> QED
  BY <1>1, <1>3, <1>6, <1>7, <1>8

\* The inductive invariant for the accounts of two opponents.
AgreeInv == StateInv /\ TruthOK /\ AgreeOK

\* In a ladder of two, whose reports are readable, each win of one is a loss of the
\* other and the same number of games is rated for both, whenever no request is at
\* work, unless one was cut off while it counted or an oldest report is not true.
THEOREM OpponentsMirror ==
  ASSUME Cardinality(Players) = 2, "unreadable" \notin Forms
  PROVE  Spec => []OpponentsAgree
<1>1. Init => AgreeInv
  <2> SUFFICES ASSUME Init
               PROVE  AgreeOK
    BY InitEstablishesState, InitTruth DEF AgreeInv
  <2>1. request = Idle /\ \A p \in Players : stats[p].wins = 0 /\ stats[p].losses = 0 /\ stats[p].games = 0
    BY DEF Init
  <2> QED
    BY <2>1 DEF AgreeOK, Wins, Losses, Games, Uncounted, Unrated, HasWin, HasLoss, HasReport
<1>2. AgreeInv /\ [Next]_vars => AgreeInv'
  BY NextKeepsState, NextKeepsTruth, NextKeepsAgree DEF AgreeInv, Readable
<1>3. AgreeInv => OpponentsAgree
  <2> SUFFICES ASSUME AgreeInv, request = Idle, cuts = 0, Honest, NEW p \in Players, NEW q \in Players, p # q
               PROVE  stats[p].wins = stats[q].losses /\ stats[p].games = stats[q].games
    BY DEF OpponentsAgree, Honest
  <2>1. Wins(p) = Losses(q) /\ Games(p) = Games(q)
    BY DEF AgreeInv, AgreeOK
  <2>2. Uncounted = {} /\ Unrated = {}
    BY DEF Uncounted, Unrated
  <2>3. /\ stats[p].wins \in Nat /\ stats[q].losses \in Nat /\ stats[p].games \in Nat /\ stats[q].games \in Nat
    BY AccountsAreNat DEF AgreeInv
  <2> QED
    BY <2>1, <2>2, <2>3 DEF Wins, Losses, Games, HasWin, HasLoss, HasReport
<1> QED
  BY <1>1, <1>2, <1>3, PTL DEF Spec
-----------------------------------------------------------------------------
(* The ratings of a ladder of two.                                            *)

\* Only reports of a ranked match are ranked.
RowsOK == \A m \in Matches : \A i \in DOMAIN reports[m] : reports[m][i].ranked => outcome[m].ranked

\* Nothing was cut off, the oldest reports are true and no ladder is missing.
Clean ==
  /\ cuts = 0 /\ Honest
  /\ \A m \in Matches : outcome[m].ranked => \A i \in DOMAIN reports[m] : reports[m][i].ranked

\* What a player can still win or lose, 40 points in each match.
Margin(p) == 40 * (Cardinality(Matches) - stats[p].games)

\* It leads him neither to the floor nor to an elite player's K-factor.
InRange == \A p \in Players :
  /\ 100 + Margin(p) <= stats[p].rating
  /\ stats[p].rating <= 2399 - Margin(p)

\* The ratings of the two players have the sum they began with.
SumsOK == \A p, q \in Players : p # q => stats[p].rating + stats[q].rating = Points

\* The sender of first report i, and his rating before the match.
Name(i) == reports[request.csid][i].persona
Before(i) == request.elo[i]

\* What his rating becomes against the sender of first report j.
After(i, j) ==
  NewElo(Before(i), Before(j), reports[request.csid][i].result = 0,
         KFactor(Earlier + stats[Name(i)].games - 1, Before(i)))

\* While a ranked match is counted, its players' ratings before it have the sum they
\* always had, and each rating is still that one or already the one that follows.
RatesOK ==
  /\ Cardinality(FirstReports(request.csid)) >= 2
  /\ \A i, j \in FirstReports(request.csid) : i # j =>
       /\ Before(i) + Before(j) = Points
       /\ 140 <= Before(i) /\ Before(i) < 2400
       /\ stats[Name(i)].rating = IF i \in Unrated THEN Before(i) ELSE After(i, j)

\* Between the matches the sum is kept, and within one each rating is as RatesOK has it.
MirrorOK == Clean => InRange /\ (Unrated = {} => SumsOK) /\ (Unrated # {} => RatesOK)

\* Reports stay as they are stored.
LEMMA ReportsStay ==
  ASSUME StateInv, StateInv', [Next]_vars, NEW d \in Csids
  PROVE  /\ outcome' = outcome
         /\ DOMAIN reports[d] \subseteq DOMAIN reports'[d]
         /\ \A i \in DOMAIN reports[d] : reports'[d][i] = reports[d][i]
<1>1. CASE UNCHANGED <<outcome, reports>>
  BY <1>1
<1>2. ASSUME NEW m \in Csids, NEW p \in Players, NEW final \in BOOLEAN, NEW form, NEW ranked,
             Submit(m, p, final, form, ranked)
      PROVE  /\ outcome' = outcome
             /\ DOMAIN reports[d] \subseteq DOMAIN reports'[d]
             /\ \A i \in DOMAIN reports[d] : reports'[d][i] = reports[d][i]
  BY <1>2, ReportIsAdded
<1>3. NoMatch \in Csids /\ \A m \in Matches : m \in Csids
  BY DEF Csids
<1> QED
  BY <1>1, <1>2, <1>3 DEF Next, Handle, vars, CreateSession, SetReportIntention, MarkReported, IncrementReceived,
     CompleteSession, BeginFinalize, UpdateWinLoss, UpdateElo, MarkFinalized, CutOff

\* What is clean was so before.
LEMMA CleanBefore ==
  ASSUME StateInv, StateInv', [Next]_vars, Clean'
  PROVE  Clean
<1>1. cuts \in Nat /\ cuts' = 0 /\ Honest'
  BY DEF StateInv, CompetitionTypeOK, Clean
<1>2. Quiet \/ Begins \/ (\E n \in request.left : (Counts(n) \/ Rates(n)) /\ Proceeds) \/ Stops
  BY StepKinds DEF Counts, Rates
<1>3. ~Stops
  BY <1>1 DEF Stops
<1>4. Honest /\ cuts = 0
  <2>1. Quiet => Honest /\ cuts' = cuts
    BY <1>1 DEF Quiet, Honest
  <2>2. Begins \/ Proceeds => Honest /\ cuts' = cuts
    BY <1>1 DEF Begins, Proceeds, Honest, FirstIsTrue
  <2> QED
    BY <1>1, <1>2, <1>3, <2>1, <2>2
<1>5. ASSUME NEW m \in Matches, outcome[m].ranked, NEW i \in DOMAIN reports[m]
      PROVE  reports[m][i].ranked
  <2>1. outcome' = outcome /\ i \in DOMAIN reports'[m] /\ reports'[m][i] = reports[m][i]
    BY ReportsStay DEF Csids
  <2> QED
    BY <1>5, <2>1 DEF Clean
<1> QED
  BY <1>4, <1>5 DEF Clean

\* A report is ranked only if its match is.
LEMMA NextKeepsRows == StateInv /\ StateInv' /\ RowsOK /\ [Next]_vars => RowsOK'
<1> SUFFICES ASSUME StateInv, StateInv', RowsOK, [Next]_vars
             PROVE  RowsOK'
  OBVIOUS
<1>1. CASE UNCHANGED <<outcome, reports>>
  BY <1>1 DEF RowsOK
<1>2. ASSUME NEW m \in Csids, NEW p \in Players, NEW final \in BOOLEAN, NEW form, NEW ranked,
             m \in Matches => (ranked => outcome[m].ranked), Submit(m, p, final, form, ranked)
      PROVE  RowsOK'
  <2> SUFFICES ASSUME NEW d \in Matches, NEW i \in DOMAIN reports'[d], reports'[d][i].ranked
               PROVE  outcome'[d].ranked
    BY DEF RowsOK
  <2>1. outcome' = outcome /\ d \in Csids
    BY <1>2 DEF Submit, Csids
  <2>2. PICK r : reports' = [reports EXCEPT ![m] = Append(@, r)] /\ r.ranked = ranked
    <3> DEFINE row == [persona |-> p, ranked |-> ranked,
                       result |-> IF m \in Matches THEN StoredResult(m, p, final, form) ELSE 0]
    <3>1. reports' = [reports EXCEPT ![m] = Append(@, row)]
      BY <1>2 DEF Submit
    <3>2. row.ranked = ranked
      OBVIOUS
    <3> HIDE DEF row
    <3> QED
      BY <3>1, <3>2
  <2>3. /\ reports[d] \in Seq(Report) /\ Len(reports[d]) \in Nat /\ DOMAIN reports[d] = 1 .. Len(reports[d])
        /\ DOMAIN reports'[d] = 1 .. Len(reports'[d])
    BY <2>1, ReportRows, CompetitionAssumption DEF StateInv
  <2>4. CASE d # m
    BY <2>1, <2>2, <2>4 DEF RowsOK, StateInv, CompetitionTypeOK
  <2>5. CASE d = m
    <3>1. reports'[d] = Append(reports[d], r)
      BY <2>1, <2>2, <2>5 DEF StateInv, CompetitionTypeOK
    <3>2. /\ Len(reports'[d]) = Len(reports[d]) + 1
          /\ \A j \in 1 .. Len(reports[d]) : reports'[d][j] = reports[d][j]
          /\ reports'[d][Len(reports[d]) + 1] = r
      BY <2>3, <3>1
    <3>3. i \in 1 .. Len(reports[d]) \/ i = Len(reports[d]) + 1
      BY <2>3, <3>2
    <3>4. CASE i \in 1 .. Len(reports[d])
      BY <2>1, <2>3, <3>2, <3>4 DEF RowsOK
    <3>5. CASE i = Len(reports[d]) + 1
      BY <1>2, <2>1, <2>2, <2>5, <3>2, <3>5
    <3> QED
      BY <3>3, <3>4, <3>5
  <2> QED
    BY <2>4, <2>5
<1>3. ASSUME NEW m \in Matches, NEW p \in Players, NEW final \in BOOLEAN, NEW form \in Forms,
             NEW ranked \in RankedAs(m, p, final, form)
      PROVE  ranked => outcome[m].ranked
  BY DEF RankedAs
<1>4. NoMatch \in Csids /\ NoMatch \notin Matches /\ \A m \in Matches : m \in Csids
  BY CompetitionAssumption DEF Csids
<1> QED
  BY <1>1, <1>2, <1>3, <1>4 DEF Next, Handle, vars, CreateSession, SetReportIntention, MarkReported,
     IncrementReceived, CompleteSession, BeginFinalize, UpdateWinLoss, UpdateElo, MarkFinalized, CutOff

\* The first reports of a match of two are those of its winner and its loser.
LEMMA TwoFirsts ==
  ASSUME Cardinality(Players) = 2, StateInv, TruthOK, Honest, request # Idle, request.csid \in Matches,
         NEW i \in FirstReports(request.csid), NEW j \in FirstReports(request.csid), i # j
  PROVE  /\ Name(i) # Name(j) /\ Players = {Name(i), Name(j)} /\ FirstReports(request.csid) = {i, j}
         /\ reports[request.csid][i].result # reports[request.csid][j].result
         /\ reports[request.csid][i].result = 0 <=> ~(reports[request.csid][j].result = 0)
<1>1. PICK p \in Players, q \in Players : p = Name(i) /\ q = Name(j)
  BY ReportsAreOfPlayers DEF Name
<1>2. p # q
  BY <1>1, ReportsAreOfPlayers DEF Name
<1>3. PICK o \in Outcomes : o = outcome[request.csid]
  BY DEF StateInv, CompetitionTypeOK
<1>4. Players = {p, q} /\ (o.result[p] = "win" <=> o.result[q] # "win")
  BY <1>2, TwoPlayers
<1>5. FirstReports(request.csid) = {i, j}
  <2> SUFFICES ASSUME NEW k \in FirstReports(request.csid), k # i, k # j
               PROVE  FALSE
    OBVIOUS
  <2>1. Name(k) \in Players /\ Name(k) # Name(i) /\ Name(k) # Name(j)
    BY ReportsAreOfPlayers DEF Name
  <2> QED
    BY <1>1, <1>4, <2>1
<1>6. /\ reports[request.csid][i].result = 0 <=> o.result[p] = "win"
      /\ reports[request.csid][j].result = 0 <=> o.result[q] = "win"
  BY <1>1, <1>3 DEF TruthOK, Name
<1>7. reports[request.csid][i].result = 0 <=> ~(reports[request.csid][j].result = 0)
  BY <1>4, <1>6
<1>8. reports[request.csid][i].result # reports[request.csid][j].result
  BY <1>7
<1> QED
  BY <1>1, <1>2, <1>4, <1>5, <1>7, <1>8

\* A player's opponent is the other one, at his rating before the match.
LEMMA OpponentOf ==
  ASSUME Cardinality(Players) = 2, StateInv, TruthOK, Honest, request # Idle, request.csid \in Matches,
         NEW i \in FirstReports(request.csid), NEW j \in FirstReports(request.csid), i # j
  PROVE  OpponentElo(i) = Before(j)
<1> DEFINE rows == reports[request.csid]
           other == {k \in FirstReports(request.csid) : rows[k].result # rows[i].result}
           sum == Total(request.elo, other)
<1>1. FirstReports(request.csid) = {i, j} /\ rows[i].result # rows[j].result
  BY TwoFirsts
<1>2. other = {j}
  BY <1>1
<1>3. request.elo[j] \in Nat
  <2>1. request.elo \in [1 .. MaxReports -> Nat] /\ j \in 1 .. MaxReports
    BY RequestRecord, FirstsAreReports DEF StateInv
  <2> QED
    BY <2>1
<1>4. sum = request.elo[j]
  <2>1. Total(request.elo, {j}) = request.elo[j]
    BY <1>3, SumOfOne
  <2> QED
    BY <1>2, <2>1
<1>5. Cardinality(other) = 1 /\ other # {}
  BY <1>2, FS_Singleton
<1> HIDE DEF sum, other
<1>6. OpponentElo(i) = IF other = {} THEN 1200 ELSE sum \div Cardinality(other)
  BY DEF OpponentElo, other, sum, Total, MapThenSumSet, MapThenFoldSet, Adds, Picked
<1>7. sum \div 1 = sum
  BY <1>3, <1>4
<1> QED
  BY <1>4, <1>5, <1>6, <1>7 DEF Before

\* Below 2400 the K-factor is 20 or 40 and depends on the number of games alone.
LEMMA KFactorBelowElite ==
  ASSUME NEW games \in Int, NEW a \in Int, NEW b \in Int, a < 2400, b < 2400
  PROVE  KFactor(games, a) \in {20, 40} /\ KFactor(games, b) = KFactor(games, a)
BY DEF KFactor

\* A match that begins to count for a player was not among his games yet.
LEMMA AnotherGame ==
  ASSUME StateInv, StateInv', CountsOK', Begins, cuts' = 0, NEW i \in FirstReports(request.csid)
  PROVE  stats[Name(i)].games + 1 <= Cardinality(Matches) /\ Cardinality(Matches) \in Nat
<1>1. PICK p \in Players : p = Name(i)
  BY ReportsAreOfPlayers DEF Name, Begins
<1>2. HasReport(FirstReports(request.csid), p)
  BY <1>1 DEF HasReport, Name
<1>3. /\ stats[p].wins \in Nat /\ stats[p].losses \in Nat /\ stats[p].games \in Nat
      /\ stats' = stats
  BY DEF StateInv, CompetitionTypeOK, Begins
<1>4. Wins(p)' + Losses(p)' = stats[p].wins + stats[p].losses + 1
  BY <1>2, <1>3, BeginsOwes
<1>5. Wins(p)' + Losses(p)' <= Cardinality(Counted(Matches, p)')
  <2>1. Wins(p)' + Losses(p)' <= Cardinality(Counted(Matches, p)') + 0
    BY DEF CountsOK
  <2>2. Cardinality(Counted(Matches, p)') \in Nat
    <3>1. Counted(Matches, p)' \in SUBSET Matches
      BY DEF Counted
    <3> QED
      BY <3>1, CompetitionAssumption, FS_Subset, FS_CardinalityType
  <2> QED
    BY <2>1, <2>2
<1>6. /\ Cardinality(Matches) \in Nat /\ Cardinality(Counted(Matches, p)') \in Nat
      /\ Cardinality(Counted(Matches, p)') <= Cardinality(Matches)
  <2>1. Counted(Matches, p)' \in SUBSET Matches
    BY DEF Counted
  <2> QED
    BY <2>1, CompetitionAssumption, FS_Subset, FS_CardinalityType
<1>7. stats[p].games <= stats[p].wins + stats[p].losses
  <2>1. stats[p].games + AtHand(p)' <= stats[p].wins + stats[p].losses
    BY <1>3 DEF CountsOK
  <2>2. AtHand(p)' \in {0, 1}
    BY DEF AtHand
  <2> QED
    BY <1>3, <2>1, <2>2
<1> QED
  BY <1>1, <1>3, <1>4, <1>5, <1>6, <1>7

\* The ratings looked up when a match begins to count are the players' own.
LEMMA BeginsMirror ==
  ASSUME Cardinality(Players) = 2, StateInv, StateInv', CountsOK', RowsOK, Clean, InRange, SumsOK,
         Begins, cuts' = 0
  PROVE  InRange' /\ (Unrated' = {} => SumsOK') /\ (Unrated' # {} => RatesOK')
<1>1. /\ stats' = stats /\ reports' = reports /\ request # Idle /\ request' # Idle
      /\ request.csid \in Matches /\ request'.csid = request.csid
      /\ Cardinality(FirstReports(request.csid)) >= 2
      /\ request'.elo = CurrentElo(request.csid)
      /\ Unrated' = IF RankedMatch(request.csid) THEN FirstReports(request.csid) ELSE {}
  BY DEF Begins
<1>2. InRange'
  BY <1>1 DEF InRange, Margin
<1>3. SumsOK'
  BY <1>1 DEF SumsOK
<1>4. ASSUME RankedMatch(request.csid)
      PROVE  RatesOK'
  <2>1. \A i \in DOMAIN reports[request.csid] : reports[request.csid][i].ranked
    BY <1>1, <1>4 DEF RankedMatch, RowsOK, Clean
  <2>2. ASSUME NEW i \in FirstReports(request.csid)
        PROVE  /\ Name(i) \in Players /\ Name(i)' = Name(i)
               /\ Before(i)' = stats[Name(i)].rating
               /\ 140 <= stats[Name(i)].rating /\ stats[Name(i)].rating < 2400
    <3>1. i \in 1 .. MaxReports /\ i \in DOMAIN reports[request.csid]
      BY <1>1, FirstsAreReports DEF StateInv, Csids, FirstReports
    <3>2. request'.elo[i] = stats[reports[request.csid][i].persona].rating
      BY <1>1, <2>1, <3>1 DEF CurrentElo
    <3>3. PICK p \in Players : p = Name(i)
      BY <1>1, ReportsAreOfPlayers DEF Name
    <3>4. PICK g \in Nat, r \in Nat, n \in Nat :
            /\ g = stats[p].games /\ r = stats[p].rating /\ n = Cardinality(Matches) /\ g + 1 <= n
      BY <3>3, AnotherGame DEF StateInv, CompetitionTypeOK
    <3>5. 100 + 40 * (n - g) <= r /\ r <= 2399 - 40 * (n - g)
      BY <3>4 DEF InRange, Margin
    <3>6. 140 <= r /\ r < 2400
      BY <3>4, <3>5
    <3> QED
      BY <1>1, <3>2, <3>3, <3>4, <3>6 DEF Name, Before
  <2>3. ASSUME NEW i \in FirstReports(request.csid), NEW j \in FirstReports(request.csid), i # j
        PROVE  stats[Name(i)].rating + stats[Name(j)].rating = Points
    <3>1. Name(i) # Name(j)
      BY <1>1, <2>3, ReportsAreOfPlayers DEF Name
    <3> QED
      BY <2>2, <3>1 DEF SumsOK
  <2>4. FirstReports(request.csid)' = FirstReports(request.csid)
    BY <1>1 DEF FirstReports
  <2>5. Unrated' = FirstReports(request.csid)
    BY <1>1, <1>4
  <2> QED
    BY <1>1, <2>2, <2>3, <2>4, <2>5 DEF RatesOK
<1> QED
  BY <1>1, <1>2, <1>3, <1>4

\* Rating one of two players keeps what will be their ratings' sum, and when he is the
\* second of them it is their sum again.
LEMMA RatesMirror ==
  ASSUME Cardinality(Players) = 2, StateInv, StateInv', TruthOK, AgreeOK, Clean, InRange, RatesOK,
         NEW n \in request.left, Rates(n)
  PROVE  InRange' /\ (Unrated' = {} => SumsOK') /\ (Unrated' # {} => RatesOK')
<1>1. /\ request # Idle /\ request' # Idle /\ request.csid \in Matches
      /\ request'.csid = request.csid /\ request'.elo = request.elo /\ reports' = reports
      /\ n \in Unrated /\ Unrated' = Unrated \ {n}
  <2>1. Proceeds /\ n \in Unrated /\ Unrated' = Unrated \ {n}
    BY DEF Rates
  <2> QED
    BY <2>1 DEF Proceeds, Finalizes
<1>2. Unrated \subseteq FirstReports(request.csid) /\ n \in FirstReports(request.csid)
  BY <1>1, OwedAreFirsts
<1>3. PICK j \in FirstReports(request.csid) : j # n
  <2>1. FirstReports(request.csid) # {n}
    <3>1. Cardinality({n}) = 1
      BY FS_Singleton
    <3> QED
      BY <3>1 DEF RatesOK
  <2> QED
    BY <1>2, <2>1
<1>4. Honest /\ cuts = 0
  BY DEF Clean
<1>5. PICK p \in Players, q \in Players : p = Name(n) /\ q = Name(j)
  BY <1>1, <1>2, ReportsAreOfPlayers DEF Name
<1>6. /\ p # q /\ Players = {p, q} /\ FirstReports(request.csid) = {n, j}
      /\ reports[request.csid][n].result = 0 <=> ~(reports[request.csid][j].result = 0)
  BY <1>1, <1>2, <1>3, <1>4, <1>5, TwoFirsts
<1>7. OpponentElo(n) = Before(j)
  BY <1>1, <1>2, <1>3, <1>4, OpponentOf
<1>8. PICK b \in Nat, c \in Nat : /\ b = Before(n) /\ c = Before(j) /\ b + c = Points
                                  /\ 140 <= b /\ b < 2400 /\ 140 <= c /\ c < 2400
  <2>1. request.elo \in [1 .. MaxReports -> Nat] /\ n \in 1 .. MaxReports /\ j \in 1 .. MaxReports
    BY <1>1, <1>2, RequestRecord, FirstsAreReports DEF StateInv
  <2>2. Before(n) \in Nat /\ Before(j) \in Nat
    BY <2>1 DEF Before
  <2> QED
    BY <1>2, <1>3, <2>2 DEF RatesOK
<1>9. PICK won \in BOOLEAN : /\ won <=> reports[request.csid][n].result = 0
                             /\ ~won <=> reports[request.csid][j].result = 0
  BY <1>6
<1>10. PICK g \in Nat, h \in Nat : g = stats[p].games /\ h = stats[q].games
  BY DEF StateInv, CompetitionTypeOK
<1>11. PICK k \in {20, 40} : k = KFactor(Earlier + g, b) /\ k = KFactor(Earlier + g, c)
  BY <1>8, <1>10, KFactorBelowElite, CompetitionAssumption
<1>12. PICK new \in Int : /\ new = NewElo(b, c, won, k) /\ b - 40 <= new /\ new <= b + 40
                          /\ new + NewElo(c, b, ~won, k) = b + c
  <2>1. b >= 140 /\ c >= 140
    BY <1>8
  <2>2. /\ NewElo(b, c, won, k) \in Int
        /\ b - 40 <= NewElo(b, c, won, k) /\ NewElo(b, c, won, k) <= b + 40
        /\ NewElo(b, c, won, k) + NewElo(c, b, ~won, k) = b + c
    BY <2>1, NewElosMirror
  <2> QED
    BY <2>2
<1>13. stats[p].rating = b /\ NewRating(n) = new
  <2>1. stats[p].rating = b
    BY <1>1, <1>2, <1>3, <1>5, <1>8 DEF RatesOK
  <2>2. NewRating(n) = NewElo(b, c, reports[request.csid][n].result = 0, k)
    <3>1. NewRating(n) = NewElo(stats[p].rating, OpponentElo(n), reports[request.csid][n].result = 0,
                                KFactor(Earlier + stats[p].games, stats[p].rating))
      BY <1>5 DEF NewRating, Name
    <3> QED
      BY <1>7, <1>8, <1>10, <1>11, <2>1, <3>1
  <2>3. NewElo(b, c, reports[request.csid][n].result = 0, k) = NewElo(b, c, won, k)
    BY <1>9 DEF NewElo
  <2> QED
    BY <1>12, <2>1, <2>2, <2>3
<1>14. /\ stats'[p].games = g + 1 /\ stats'[p].rating = new
       /\ stats'[q].games = h /\ stats'[q].rating = stats[q].rating
  <2>1. stats' = [stats EXCEPT ![p].games = @ + 1, ![p].rating = new]
    BY <1>5, <1>13 DEF Rates, Name
  <2>2. stats \in [Players -> [wins : Nat, losses : Nat, games : Nat, rating : Nat]]
    BY DEF StateInv, CompetitionTypeOK
  <2> QED
    BY <1>6, <1>10, <2>1, <2>2
<1>15. Name(n)' = p /\ Name(j)' = q /\ Before(n)' = b /\ Before(j)' = c
  BY <1>1, <1>5, <1>8 DEF Name, Before
<1>16. InRange'
  <2>1. PICK m \in Nat : m = Cardinality(Matches)
    BY CompetitionAssumption, FS_CardinalityType
  <2>2. 100 + 40 * (m - g) <= b /\ b <= 2399 - 40 * (m - g)
    BY <1>10, <1>13, <2>1 DEF InRange, Margin
  <2>3. 100 + 40 * (m - (g + 1)) <= new /\ new <= 2399 - 40 * (m - (g + 1))
    BY <1>12, <2>2
  <2>4. 100 + 40 * (m - h) <= stats[q].rating /\ stats[q].rating <= 2399 - 40 * (m - h)
    BY <1>10, <2>1 DEF InRange, Margin
  <2> QED
    BY <1>6, <1>14, <2>1, <2>3, <2>4 DEF InRange, Margin
<1>17. CASE Unrated' = {}
  <2>1. j \notin Unrated
    BY <1>1, <1>3, <1>17
  <2>2. h = g + 1
    <3>1. HasReport(Unrated, p) /\ ~HasReport(Unrated, q)
      BY <1>1, <1>2, <1>5, <1>6, <2>1 DEF HasReport, Name
    <3>2. Games(p) = g + 1 /\ Games(q) = h
      BY <1>10, <3>1 DEF Games
    <3> QED
      BY <1>4, <1>6, <3>2 DEF AgreeOK
  <2>3. stats[q].rating = NewElo(c, b, ~won, k)
    <3>1. stats[q].rating = After(j, n)
      BY <1>2, <1>3, <1>5, <2>1 DEF RatesOK
    <3>2. Earlier + h - 1 = Earlier + g
      BY <1>10, <2>2, CompetitionAssumption
    <3>3. After(j, n) = NewElo(c, b, reports[request.csid][j].result = 0, k)
      BY <1>5, <1>8, <1>10, <1>11, <3>2 DEF After
    <3>4. NewElo(c, b, reports[request.csid][j].result = 0, k) = NewElo(c, b, ~won, k)
      BY <1>9 DEF NewElo
    <3> QED
      BY <3>1, <3>3, <3>4
  <2>4. PICK other \in Int : other = stats[q].rating
    BY DEF StateInv, CompetitionTypeOK
  <2>5. new + other = Points /\ other + new = Points
    BY <1>8, <1>12, <2>3, <2>4
  <2>6. SumsOK'
    BY <1>6, <1>14, <2>4, <2>5 DEF SumsOK
  <2> QED
    BY <1>16, <1>17, <2>6
<1>18. CASE Unrated' # {}
  <2>1. j \in Unrated' /\ n \notin Unrated'
    BY <1>1, <1>2, <1>6, <1>18
  <2>2. stats[q].rating = c
    BY <1>1, <1>2, <1>3, <1>5, <1>8, <2>1 DEF RatesOK
  <2>3. After(n, j)' = new
    <3>1. Earlier + (g + 1) - 1 = Earlier + g
      BY <1>10, CompetitionAssumption
    <3>2. After(n, j)' = NewElo(b, c, reports[request.csid][n].result = 0, k)
      BY <1>1, <1>11, <1>14, <1>15, <3>1 DEF After
    <3>3. NewElo(b, c, reports[request.csid][n].result = 0, k) = NewElo(b, c, won, k)
      BY <1>9 DEF NewElo
    <3> QED
      BY <1>12, <3>2, <3>3
  <2>4. FirstReports(request.csid)' = {n, j}
    BY <1>1, <1>6 DEF FirstReports
  <2>5. Cardinality(FirstReports(request.csid)') >= 2
    BY <1>6, <2>4 DEF RatesOK
  <2>6. b + c = Points /\ c + b = Points
    BY <1>8
  <2>7. RatesOK'
    BY <1>3, <1>8, <1>14, <1>15, <2>1, <2>2, <2>3, <2>4, <2>5, <2>6 DEF RatesOK
  <2> QED
    BY <1>16, <1>18, <2>7
<1> QED
  BY <1>17, <1>18

\* The other steps change neither the ratings nor what they will be.
LEMMA OthersMirror ==
  ASSUME StateInv, StateInv', Clean, MirrorOK, Quiet \/ (\E n \in request.left : Counts(n))
  PROVE  InRange' /\ (Unrated' = {} => SumsOK') /\ (Unrated' # {} => RatesOK')
<1>1. InRange /\ (Unrated = {} => SumsOK) /\ (Unrated # {} => RatesOK)
  BY DEF MirrorOK
<1>2. CASE UNCHANGED <<stats, request, reports>>
  <2>1. InRange'
    BY <1>1, <1>2 DEF InRange, Margin
  <2>2. SumsOK' = SumsOK
    BY <1>2 DEF SumsOK
  <2>3. Unrated' = Unrated
    BY <1>2 DEF Unrated, RankedMatch, FirstReports
  <2>4. FirstReports(request.csid)' = FirstReports(request.csid)
    BY <1>2 DEF FirstReports
  <2>5. ASSUME NEW i
        PROVE  /\ Before(i)' = Before(i) /\ stats[Name(i)].rating' = stats[Name(i)].rating
               /\ \A j : After(i, j)' = After(i, j)
    BY <1>2 DEF Before, Name, After
  <2>6. RatesOK' = RatesOK
    BY <2>3, <2>4, <2>5 DEF RatesOK
  <2> QED
    BY <1>1, <2>1, <2>2, <2>3, <2>6
<1>3. CASE stats' = stats /\ Unrated = {} /\ Unrated' = {}
  BY <1>1, <1>3 DEF InRange, Margin, SumsOK
<1>4. ASSUME NEW n \in request.left, Counts(n)
      PROVE  InRange' /\ (Unrated' = {} => SumsOK') /\ (Unrated' # {} => RatesOK')
  <2>1. /\ request # Idle /\ request.csid \in Matches /\ Unrated' = Unrated
        /\ request'.csid = request.csid /\ request'.elo = request.elo /\ reports' = reports
    <3>1. Proceeds /\ Unrated' = Unrated
      BY <1>4 DEF Counts
    <3> QED
      BY <3>1 DEF Proceeds, Finalizes
  <2>2. PICK p \in Players : p = Name(n)
    BY <1>4, <2>1, RequestRecord, ReportsAreOfPlayers DEF Name, StateInv
  <2>3. \A q \in Players : stats'[q].games = stats[q].games /\ stats'[q].rating = stats[q].rating
    <3>1. stats' = [stats EXCEPT ![p].wins = @ + 1] \/ stats' = [stats EXCEPT ![p].losses = @ + 1]
      BY <1>4, <2>2 DEF Counts, Name
    <3>2. stats \in [Players -> [wins : Nat, losses : Nat, games : Nat, rating : Nat]]
      BY DEF StateInv, CompetitionTypeOK
    <3> QED
      BY <3>1, <3>2
  <2>4. InRange' /\ (SumsOK => SumsOK')
    BY <1>1, <2>3 DEF InRange, Margin, SumsOK
  <2>5. ASSUME RatesOK
        PROVE  RatesOK'
    <3>1. FirstReports(request.csid)' = FirstReports(request.csid)
      BY <2>1 DEF FirstReports
    <3>2. ASSUME NEW i \in FirstReports(request.csid)
          PROVE  /\ Name(i)' = Name(i) /\ Before(i)' = Before(i)
                 /\ stats'[Name(i)].games = stats[Name(i)].games
                 /\ stats'[Name(i)].rating = stats[Name(i)].rating
      <4>1. Name(i) \in Players
        BY <2>1, ReportsAreOfPlayers DEF Name
      <4> QED
        BY <2>1, <2>3, <4>1 DEF Name, Before
    <3>3. ASSUME NEW i \in FirstReports(request.csid), NEW j \in FirstReports(request.csid)
          PROVE  After(i, j)' = After(i, j)
      BY <2>1, <3>2 DEF After
    <3> QED
      BY <2>1, <2>5, <3>1, <3>2, <3>3 DEF RatesOK
  <2> QED
    BY <1>1, <2>1, <2>4, <2>5
<1> QED
  <2>1. Quiet => stats' = stats /\ (UNCHANGED <<request, reports>> \/ (Unrated = {} /\ Unrated' = {}))
    BY DEF Quiet
  <2> QED
    BY <1>2, <1>3, <1>4, <2>1

\* The inductive invariant for the ratings.
MirrorInv == AgreeInv /\ CountsOK /\ RowsOK /\ MirrorOK

\* The invariant is inductive.
LEMMA NextKeepsMirror ==
  ASSUME Cardinality(Players) = 2, Readable, MirrorInv, [Next]_vars
  PROVE  MirrorInv'
<1>1. StateInv /\ StateInv' /\ TruthOK /\ AgreeOK /\ CountsOK /\ RowsOK /\ MirrorOK
  BY NextKeepsState DEF MirrorInv, AgreeInv
<1>2. TruthOK' /\ AgreeOK' /\ CountsOK' /\ RowsOK'
  BY <1>1, NextKeepsTruth, NextKeepsAgree, NextKeepsCounts, NextKeepsRows
<1>3. ASSUME Clean'
      PROVE  InRange' /\ (Unrated' = {} => SumsOK') /\ (Unrated' # {} => RatesOK')
  <2>1. Clean /\ cuts = 0 /\ cuts' = 0
    BY <1>1, <1>3, CleanBefore DEF Clean
  <2>2. InRange /\ (Unrated = {} => SumsOK) /\ (Unrated # {} => RatesOK)
    BY <1>1, <2>1 DEF MirrorOK
  <2>3. Quiet \/ Begins \/ (\E n \in request.left : Counts(n)) \/ (\E n \in request.left : Rates(n)) \/ Stops
    BY <1>1, StepKinds
  <2>4. ~Stops
    BY <2>1 DEF Stops
  <2>5. CASE Quiet \/ \E n \in request.left : Counts(n)
    BY <1>1, <2>1, <2>5, OthersMirror
  <2>6. CASE Begins
    <3>1. SumsOK
      BY <2>2, <2>6 DEF Begins
    <3> QED
      BY <1>1, <1>2, <2>1, <2>2, <2>6, <3>1, BeginsMirror
  <2>7. ASSUME NEW n \in request.left, Rates(n)
        PROVE  InRange' /\ (Unrated' = {} => SumsOK') /\ (Unrated' # {} => RatesOK')
    <3>1. RatesOK
      BY <2>2, <2>7 DEF Rates
    <3> QED
      BY <1>1, <2>1, <2>2, <2>7, <3>1, RatesMirror
  <2> QED
    BY <2>3, <2>4, <2>5, <2>6, <2>7
<1>4. MirrorOK'
  BY <1>3 DEF MirrorOK
<1> QED
  BY <1>1, <1>2, <1>4 DEF MirrorInv, AgreeInv

\* The sum of the ratings of two players is that of the one and the other.
LEMMA SumOfPlayers ==
  ASSUME Cardinality(Players) = 2, NEW e \in [Players -> Ratings], NEW p \in Players, NEW q \in Players, p # q
  PROVE  Total(e, Players) = e[p] + e[q]
<1>1. e[p] \in Nat /\ e[q] \in Nat
  BY CompetitionAssumption
<1>2. Players = {p, q}
  BY PlayersAreTwo
<1>3. Total(e, {p, q}) = e[p] + e[q]
  BY <1>1, SumOfTwo
<1> QED
  BY <1>2, <1>3

\* At the start the ratings have their sum and are far enough from their bounds.
LEMMA InitMirror ==
  ASSUME Cardinality(Players) = 2, Init,
         \A r \in Ratings : /\ 100 + 40 * Cardinality(Matches) <= r
                            /\ r <= 2399 - 40 * Cardinality(Matches)
  PROVE  RowsOK /\ MirrorOK
<1>1. PICK rating \in [Players -> Ratings] :
        /\ MapThenSumSet(LAMBDA p : rating[p], Players) = Points
        /\ stats = [p \in Players |-> [wins |-> 0, losses |-> 0, games |-> 0, rating |-> rating[p]]]
  BY DEF Init
<1>2. RowsOK
  BY DEF RowsOK, Init, Csids
<1>3. InRange
  <2>1. Cardinality(Matches) \in Nat
    BY CompetitionAssumption, FS_CardinalityType
  <2>2. \A p \in Players : stats[p].games = 0 /\ stats[p].rating = rating[p] /\ rating[p] \in Ratings
    BY <1>1
  <2>3. \A p \in Players : Margin(p) = 40 * Cardinality(Matches)
    BY <2>1, <2>2 DEF Margin
  <2> QED
    BY <2>2, <2>3 DEF InRange
<1>4. SumsOK
  <2>1. PICK e : e = rating
    OBVIOUS
  <2>2. /\ e \in [Players -> Ratings]
        /\ \A p \in Players : stats[p].rating = e[p]
    BY <1>1, <2>1
  <2>3. Total(e, Players) = Points
    BY <1>1, <2>1 DEF Total, MapThenSumSet, MapThenFoldSet, Adds, Picked
  <2>4. ASSUME NEW p \in Players, NEW q \in Players, p # q
        PROVE  stats[p].rating + stats[q].rating = Points
    <3>1. Total(e, Players) = e[p] + e[q]
      BY <2>2, <2>4, SumOfPlayers
    <3> QED
      BY <2>2, <2>3, <3>1
  <2> QED
    BY <2>4 DEF SumsOK
<1>5. Unrated = {}
  BY DEF Init, Unrated
<1> QED
  BY <1>2, <1>3, <1>4, <1>5 DEF MirrorOK

\* Two players who can win or lose 40 points in each match without coming to the floor
\* of 100 or to the K-factor of an elite player keep the sum of their ratings in any
\* number of matches: whenever no request is at work, what one has gained the other
\* has lost, unless a request was cut off while it counted, an oldest report is not
\* true, or a report lacks the ladder of its match.
THEOREM RatingsMirrored ==
  ASSUME Cardinality(Players) = 2, "unreadable" \notin Forms,
         \A r \in Ratings : /\ 100 + 40 * Cardinality(Matches) <= r
                            /\ r <= 2399 - 40 * Cardinality(Matches)
  PROVE  Spec => [](RatingsMirror /\ (request = Idle /\ Clean => SumsOK))
<1>1. Init => MirrorInv
  <2> SUFFICES ASSUME Init
               PROVE  AgreeOK /\ RowsOK /\ MirrorOK
    BY InitEstablishesState, InitTruth, InitCounts DEF MirrorInv, AgreeInv
  <2>1. request = Idle /\ \A p \in Players : stats[p].wins = 0 /\ stats[p].losses = 0 /\ stats[p].games = 0
    BY DEF Init
  <2>2. AgreeOK
    BY <2>1 DEF AgreeOK, Wins, Losses, Games, Uncounted, Unrated, HasWin, HasLoss, HasReport
  <2> QED
    BY <2>2, InitMirror
<1>2. MirrorInv /\ [Next]_vars => MirrorInv'
  BY NextKeepsMirror DEF Readable
<1>3. MirrorInv => RatingsMirror /\ (request = Idle /\ Clean => SumsOK)
  <2> SUFFICES ASSUME MirrorInv, request = Idle
               PROVE  RatingsMirror /\ (Clean => SumsOK)
    BY DEF RatingsMirror
  <2>1. Unrated = {}
    BY DEF Unrated
  <2>2. Clean => SumsOK
    BY <2>1 DEF MirrorInv, MirrorOK
  <2>3. ASSUME cuts = 0, Honest, NEW p \in Players, NEW q \in Players, p # q
        PROVE  \/ stats[p].rating + stats[q].rating = Points
               \/ \E m \in Matches : \E i \in DOMAIN reports[m] :
                    outcome[m].ranked /\ ~reports[m][i].ranked
    BY <2>2, <2>3 DEF Clean, SumsOK
  <2> QED
    BY <2>2, <2>3 DEF RatingsMirror, Honest
<1> QED
  BY <1>1, <1>2, <1>3, PTL DEF Spec
====
