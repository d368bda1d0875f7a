------------------------------ MODULE FoldFacts ------------------------------
(***************************************************************************)
(* Induction over data.  The models fold an operator over a sequence or a  *)
(* set, as the code's loops do.  The proofs about a loop instantiate this  *)
(* module with the loop's body, for Step, and with what is so when some    *)
(* members are done, for Keeps; p stands for what the loop is given and    *)
(* does not change.                                                        *)
(***************************************************************************)
EXTENDS Integers, Sequences, FiniteSets, SequencesExt, FiniteSetTheorems,
        WellFoundedInduction, TLAPS

CONSTANTS Step(_, _, _), Keeps(_, _, _)

\* over a sequence, over a set of numbers in their order, over a set in any order
Fold(p, r, s) == FoldLeft(LAMBDA acc, x : Step(p, acc, x), r, s)

FoldUp(p, r, S) == MapThenFoldSet(LAMBDA x, acc : Step(p, acc, x), r, LAMBDA x : x, Max, S)

FoldAny(p, r, S) == FoldSet(LAMBDA x, acc : Step(p, acc, x), r, S)
-----------------------------------------------------------------------------
(* A set of numbers that is not empty has a least member, and a greatest   *)
(* one if it is finite.                                                    *)
Below == {pair \in Nat \X Nat : pair[1] < pair[2]}

LEMMA BelowWellFounded == IsWellFoundedOn(Below, Nat)
BY NatLessThanWellFounded, Zenon DEF OpToRel, Below

LEMMA LeastMember ==
  ASSUME NEW T, T \subseteq Nat, T # {}
  PROVE  \E x \in T : \A y \in T : x <= y
<1>1. PICK x \in T : \A y \in T : ~ (<<y, x>> \in Below)
  BY BelowWellFounded, WFMin
<1>2. ASSUME NEW y \in T PROVE x <= y
  <2>1. ~ (<<y, x>> \in Below) /\ x \in Nat /\ y \in Nat
    BY <1>1
  <2>2. ~ (y < x)
    BY <2>1 DEF Below
  <2>3. QED BY <2>1, <2>2
<1>3. QED BY <1>2

\* a member of a family of finite sets with the fewest members
LEMMA SmallestSet ==
  ASSUME NEW F, F # {}, \A t \in F : IsFiniteSet(t)
  PROVE  \E t \in F : \A u \in F : Cardinality(t) <= Cardinality(u)
<1> DEFINE sizes == {Cardinality(t) : t \in F}
<1>1. sizes \subseteq Nat /\ sizes # {}
  BY FS_CardinalityType
<1>2. PICK n \in sizes : \A m \in sizes : n <= m
  BY <1>1, LeastMember
<1>3. QED BY <1>2

LEMMA GreatestMember ==
  ASSUME NEW T, IsFiniteSet(T), T \subseteq Nat, T # {}
  PROVE  Max(T) \in T /\ \A y \in T : y <= Max(T)
<1> DEFINE Bad == {t \in SUBSET T : t # {} /\ ~ \E x \in t : \A y \in t : x >= y}
<1>1. CASE Bad = {}
  <2>1. \E x \in T : \A y \in T : x >= y
    BY <1>1
  <2>2. Max(T) \in T /\ \A y \in T : Max(T) >= y
    BY <2>1 DEF Max
  <2>3. QED BY <2>2
<1>2. CASE Bad # {}
  <2>1. \A t \in Bad : IsFiniteSet(t)
    BY FS_Subset
  <2>2. PICK t \in Bad : \A u \in Bad : Cardinality(t) <= Cardinality(u)
    BY <1>2, <2>1, SmallestSet
  <2>3. PICK x \in t : TRUE
    OBVIOUS
  <2> DEFINE u == t \ {x}
  <2>4. Cardinality(u) = Cardinality(t) - 1 /\ Cardinality(t) \in Nat
    BY <2>1, <2>3, FS_RemoveElement, FS_CardinalityType
  <2>5. u \notin Bad
    <3>1. SUFFICES ASSUME u \in Bad PROVE FALSE
      OBVIOUS
    <3> HIDE DEF Bad, u
    <3>2. Cardinality(t) <= Cardinality(u)
      BY <2>2, <3>1
    <3>3. QED BY <2>4, <3>2
  <2>6. CASE u = {}
    <3>1. \A y \in t : y = x
      BY <2>6
    <3>2. x \in Nat
      OBVIOUS
    <3>3. QED BY <3>1, <3>2
  <2>7. CASE u # {}
    <3>1. PICK z \in u : \A y \in u : z >= y
      BY <2>5, <2>7
    <3>2. x \in Nat /\ z \in Nat /\ u \subseteq Nat
      OBVIOUS
    <3>3. CASE x >= z
      <4>1. \A y \in t : x >= y
        BY <3>1, <3>2, <3>3
      <4>2. QED BY <4>1
    <3>4. CASE z >= x
      <4>1. \A y \in t : z >= y
        BY <3>1, <3>2, <3>4
      <4>2. QED BY <3>1, <4>1
    <3>5. QED BY <3>2, <3>3, <3>4
  <2>8. QED BY <2>6, <2>7
<1>3. QED BY <1>1, <1>2
-----------------------------------------------------------------------------
(* The recursive function behind a fold, on the subsets of S with at most  *)
(* k members; the member of t that is done last is c[t], and its value is   *)
(* v[c[t]].                                                                *)
UpTo(S, k) == {t \in SUBSET S : Cardinality(t) <= k}

IsIter(g, p, r, c, v, D) ==
  g = [t \in D |-> IF t = {} THEN r ELSE Step(p, g[t \ {c[t]}], v[c[t]])]

LEMMA IterExists ==
  ASSUME NEW p, NEW r, NEW v, NEW S, IsFiniteSet(S),
         NEW c, \A t \in SUBSET S : t # {} => c[t] \in t
  PROVE  \E g : IsIter(g, p, r, c, v, SUBSET S)
<1>0. \A t \in SUBSET S : IsFiniteSet(t) /\ Cardinality(t) \in Nat
  BY FS_Subset, FS_CardinalityType
<1> DEFINE Bad == {k \in Nat : ~ \E g : IsIter(g, p, r, c, v, UpTo(S, k))}
<1>1. CASE Bad = {}
  <2>0. \A t \in SUBSET S : Cardinality(t) <= Cardinality(S)
    BY FS_Subset
  <2>1. UpTo(S, Cardinality(S)) = SUBSET S /\ Cardinality(S) \in Nat
    BY <2>0, FS_CardinalityType DEF UpTo
  <2>2. Cardinality(S) \notin Bad
    BY <1>1
  <2>3. \E g : IsIter(g, p, r, c, v, UpTo(S, Cardinality(S)))
    BY <2>1, <2>2
  <2> HIDE DEF Bad
  <2>4. QED BY <2>1, <2>3
<1>2. CASE Bad # {}
  <2>1. PICK k \in Bad : \A j \in Bad : k <= j
    BY <1>2, LeastMember
  <2>2. CASE k = 0
    <3> DEFINE g == [t \in UpTo(S, 0) |-> r]
    <3>1. \A t \in UpTo(S, 0) : t = {}
      <4>1. \A t \in UpTo(S, 0) : Cardinality(t) = 0
        BY <1>0 DEF UpTo
      <4>2. QED BY <1>0, <4>1, FS_EmptySet DEF UpTo
    <3>2. IsIter(g, p, r, c, v, UpTo(S, 0))
      BY <3>1 DEF IsIter
    <3>3. QED BY <2>1, <2>2, <3>2
  <2>3. CASE k # 0
    <3>0. k \in Nat /\ k - 1 \in Nat /\ k - 1 \notin Bad
      BY <2>1, <2>3
    <3>1. PICK f : IsIter(f, p, r, c, v, UpTo(S, k - 1))
      BY <3>0
    <3> DEFINE g == [t \in UpTo(S, k) |->
                       IF t = {} THEN r ELSE Step(p, f[t \ {c[t]}], v[c[t]])]
    <3>2. ASSUME NEW t \in UpTo(S, k), t # {}
          PROVE  t \ {c[t]} \in UpTo(S, k - 1)
      <4>1. c[t] \in t /\ t \in SUBSET S /\ Cardinality(t) <= k
        BY <3>2 DEF UpTo
      <4>2. Cardinality(t \ {c[t]}) = Cardinality(t) - 1
        BY <1>0, <4>1, FS_RemoveElement
      <4>3. QED BY <1>0, <3>0, <4>1, <4>2 DEF UpTo
    <3>3. \A t \in UpTo(S, k - 1) : t \in UpTo(S, k)
      BY <1>0, <3>0 DEF UpTo
    <3>4. ASSUME NEW t \in UpTo(S, k - 1) PROVE g[t] = f[t]
      BY <3>1, <3>3 DEF IsIter
    <3>5. ASSUME NEW t \in UpTo(S, k)
          PROVE  g[t] = IF t = {} THEN r ELSE Step(p, g[t \ {c[t]}], v[c[t]])
      BY <3>2, <3>4
    <3>6. IsIter(g, p, r, c, v, UpTo(S, k))
      <4>1. PICK h : h = g
        OBVIOUS
      <4>2. h = [t \in UpTo(S, k) |-> h[t]]
        BY <4>1
      <4>3. \A t \in UpTo(S, k) :
              h[t] = IF t = {} THEN r ELSE Step(p, h[t \ {c[t]}], v[c[t]])
        BY <3>5, <4>1
      <4> HIDE DEF g
      <4>4. IsIter(h, p, r, c, v, UpTo(S, k))
        BY <4>2, <4>3 DEF IsIter
      <4>5. QED BY <4>1, <4>4
    <3>7. QED BY <2>1, <3>6
  <2>4. QED BY <2>2, <2>3
<1>3. QED BY <1>1, <1>2

\* what such a function keeps: the sets it meets are those of R
LEMMA IterKeeps ==
  ASSUME NEW p, NEW r, NEW v, NEW S, IsFiniteSet(S),
         NEW c, \A t \in SUBSET S : t # {} => c[t] \in t,
         NEW g, IsIter(g, p, r, c, v, SUBSET S),
         NEW R, R \subseteq SUBSET S, \A t \in R : t # {} => t \ {c[t]} \in R,
         Keeps(p, {}, r),
         \A t \in R : \A acc :
           t # {} /\ Keeps(p, t \ {c[t]}, acc) => Keeps(p, t, Step(p, acc, v[c[t]]))
  PROVE  \A t \in R : Keeps(p, t, g[t])
<1> DEFINE Bad == {t \in R : ~ Keeps(p, t, g[t])}
<1>1. SUFFICES ASSUME Bad # {} PROVE FALSE
  OBVIOUS
<1>2. \A t \in R : IsFiniteSet(t) /\ Cardinality(t) \in Nat
  BY FS_Subset, FS_CardinalityType
<1>3. PICK t \in Bad : \A u \in Bad : Cardinality(t) <= Cardinality(u)
  BY <1>1, <1>2, SmallestSet
<1>4. t \in SUBSET S /\ t \in R
  OBVIOUS
<1>5. g[t] = IF t = {} THEN r ELSE Step(p, g[t \ {c[t]}], v[c[t]])
  BY <1>4 DEF IsIter
<1>6. t # {}
  BY <1>5
<1>7. c[t] \in t /\ t \ {c[t]} \in R
  BY <1>4, <1>6
<1>8. Cardinality(t \ {c[t]}) = Cardinality(t) - 1
  BY <1>2, <1>7, FS_RemoveElement
<1>9. t \ {c[t]} \notin Bad
  BY <1>2, <1>3, <1>8
<1>10. Keeps(p, t \ {c[t]}, g[t \ {c[t]}])
  BY <1>7, <1>9
<1>11. QED BY <1>4, <1>5, <1>6, <1>10
-----------------------------------------------------------------------------
(* What is so before the first member, and is so after one if it was so    *)
(* before it, is so after the last.                                        *)
AnyOf(t) == CHOOSE x \in t : TRUE

THEOREM FoldAnyKeeps ==
  ASSUME NEW p, NEW r, NEW S, IsFiniteSet(S),
         Keeps(p, {}, r),
         \A t \in SUBSET S : \A x \in S \ t : \A acc :
           Keeps(p, t, acc) => Keeps(p, t \cup {x}, Step(p, acc, x))
  PROVE  Keeps(p, S, FoldAny(p, r, S))
<1> DEFINE c == [t \in SUBSET S |-> AnyOf(t)]
           It(h) == h = [t \in SUBSET S |->
                           IF t = {} THEN r
                           ELSE Step(p, h[t \ {AnyOf(t)}], AnyOf(t))]
<1>1. \A t \in SUBSET S : t # {} => c[t] \in t
  BY DEF AnyOf
<1>2. \A t \in SUBSET S : c[t] = AnyOf(t)
  OBVIOUS
<1> DEFINE v == [x \in S |-> x]
<1>3. FoldAny(p, r, S) = (CHOOSE h : It(h))[S]
  BY DEF FoldAny, FoldSet, MapThenFoldSet, AnyOf
<1>4. PICK g : g = CHOOSE h : It(h)
  OBVIOUS
<1>5. \A h : It(h) <=> IsIter(h, p, r, c, v, SUBSET S)
  <2>1. \A t \in SUBSET S : t # {} => v[c[t]] = c[t]
    BY <1>1
  <2> HIDE DEF v, c
  <2>2. QED BY <1>2, <2>1 DEF IsIter
<1>6. IsIter(g, p, r, c, v, SUBSET S)
  <2>1. \E h : It(h)
    <3> HIDE DEF c, v, It
    <3>1. \E h : IsIter(h, p, r, c, v, SUBSET S)
      BY <1>1, IterExists
    <3>2. QED BY <1>5, <3>1
  <2> HIDE DEF c, v, It
  <2>2. It(CHOOSE h : It(h))
    BY <2>1
  <2>3. QED BY <1>4, <1>5, <2>2
<1>7. \A t \in SUBSET S : \A acc :
        t # {} /\ Keeps(p, t \ {c[t]}, acc) => Keeps(p, t, Step(p, acc, v[c[t]]))
  <2>1. SUFFICES ASSUME NEW t \in SUBSET S, NEW acc, t # {}, Keeps(p, t \ {c[t]}, acc)
                 PROVE  Keeps(p, t, Step(p, acc, v[c[t]]))
    OBVIOUS
  <2> HIDE DEF c
  <2>5. c[t] \in S /\ v[c[t]] = c[t]
    BY <1>1, <2>1
  <2>2. c[t] \in S \ (t \ {c[t]}) /\ t \ {c[t]} \in SUBSET S /\ (t \ {c[t]}) \cup {c[t]} = t
    BY <1>1, <2>1
  <2>3. Keeps(p, (t \ {c[t]}) \cup {c[t]}, Step(p, acc, v[c[t]]))
    BY <2>1, <2>2
  <2>4. QED BY <2>2, <2>3, <2>5
<1>8. Keeps(p, S, g[S])
  <2> HIDE DEF c, v
  <2>1. PICK R : R = SUBSET S
    OBVIOUS
  <2>2. R \subseteq SUBSET S /\ \A t \in R : t # {} => t \ {c[t]} \in R
    BY <2>1
  <2>4. \A t \in R : \A acc :
          t # {} /\ Keeps(p, t \ {c[t]}, acc) => Keeps(p, t, Step(p, acc, v[c[t]]))
    BY <1>7, <2>1
  <2>3. \A t \in R : Keeps(p, t, g[t])
    BY <1>1, <1>6, <2>2, <2>4, IterKeeps
  <2>5. QED BY <2>1, <2>3
<1>9. QED BY <1>3, <1>4, <1>8

Under(S, x) == {y \in S : y < x}
Through(S, x) == {y \in S : y <= x}

\* the sets of the members of S up to one
Downward(S) == {t \in SUBSET S : \A x \in t, y \in S : y <= x => y \in t}

LEMMA DownwardLast ==
  ASSUME NEW S, S \subseteq Nat, NEW t \in Downward(S), IsFiniteSet(S), t # {}
  PROVE  /\ Max(t) \in t
         /\ t = Through(S, Max(t))
         /\ t \ {Max(t)} = Under(S, Max(t))
         /\ t \ {Max(t)} \in Downward(S)
<1>1. t \subseteq S /\ IsFiniteSet(t) /\ t \subseteq Nat
  BY FS_Subset DEF Downward
<1>2. PICK m : m = Max(t)
  OBVIOUS
<1>3. m \in t /\ \A y \in t : y <= m
  BY <1>1, <1>2, GreatestMember
<1>4. \A y \in S : y <= m => y \in t
  BY <1>3 DEF Downward
<1>5. t = Through(S, m)
  BY <1>1, <1>3, <1>4 DEF Through
<1>6. t \ {m} = Under(S, m)
  <2>1. ASSUME NEW y \in S PROVE (y <= m /\ y # m) <=> y < m
    <3>1. y \in Nat /\ m \in Nat
      BY <1>1, <1>3
    <3>2. QED BY <3>1
  <2>2. QED BY <1>5, <2>1 DEF Through, Under
<1>7. Under(S, m) \in Downward(S)
  BY <1>1, <1>3 DEF Under, Downward
<1>8. QED BY <1>2, <1>3, <1>5, <1>6, <1>7

THEOREM FoldUpKeeps ==
  ASSUME NEW p, NEW r, NEW S, IsFiniteSet(S), S \subseteq Nat,
         Keeps(p, {}, r),
         \A x \in S : \A acc :
           Keeps(p, Under(S, x), acc) => Keeps(p, Through(S, x), Step(p, acc, x))
  PROVE  Keeps(p, S, FoldUp(p, r, S))
<1> DEFINE c == [t \in SUBSET S |-> IF t = {} THEN {} ELSE Max(t)]
           v == [x \in S |-> x]
           It(h) == h = [t \in SUBSET S |->
                           IF t = {} THEN r ELSE Step(p, h[t \ {Max(t)}], Max(t))]
<1>1. \A t \in SUBSET S : t # {} => c[t] = Max(t) /\ c[t] \in t
  BY FS_Subset, GreatestMember
<1>2. \A t \in SUBSET S : t # {} => v[c[t]] = c[t]
  BY <1>1
<1>3. FoldUp(p, r, S) = (CHOOSE h : It(h))[S]
  BY DEF FoldUp, MapThenFoldSet
<1>4. PICK g : g = CHOOSE h : It(h)
  OBVIOUS
<1>5. \A h : It(h) <=> IsIter(h, p, r, c, v, SUBSET S)
  <2> HIDE DEF c, v
  <2>2. QED BY <1>1, <1>2 DEF IsIter
<1> HIDE DEF c, v, It
<1>6. IsIter(g, p, r, c, v, SUBSET S)
  <2>1. \E h : It(h)
    <3>1. \E h : IsIter(h, p, r, c, v, SUBSET S)
      BY <1>1, IterExists
    <3>2. QED BY <1>5, <3>1
  <2>2. It(CHOOSE h : It(h))
    BY <2>1
  <2>3. QED BY <1>4, <1>5, <2>2
<1>7. PICK R : R = Downward(S)
  OBVIOUS
<1>8. R \subseteq SUBSET S /\ \A t \in R : t # {} => t \ {c[t]} \in R
  <2>1. R \subseteq SUBSET S
    BY <1>7 DEF Downward
  <2>2. QED BY <1>1, <1>7, <2>1, DownwardLast
<1>9. \A t \in R : \A acc :
        t # {} /\ Keeps(p, t \ {c[t]}, acc) => Keeps(p, t, Step(p, acc, v[c[t]]))
  <2>1. SUFFICES ASSUME NEW t \in R, NEW acc, t # {}, Keeps(p, t \ {c[t]}, acc)
                 PROVE  Keeps(p, t, Step(p, acc, v[c[t]]))
    OBVIOUS
  <2>2. PICK x : x = Max(t)
    OBVIOUS
  <2>3. x \in S /\ t = Through(S, x) /\ t \ {x} = Under(S, x)
    BY <1>7, <1>8, <2>1, <2>2, DownwardLast
  <2>4. c[t] = x /\ v[c[t]] = x
    BY <1>1, <1>2, <1>8, <2>1, <2>2
  <2>5. Keeps(p, Under(S, x), acc)
    BY <2>1, <2>3, <2>4
  <2>6. Keeps(p, Through(S, x), Step(p, acc, x))
    BY <2>3, <2>5
  <2>7. QED BY <2>3, <2>4, <2>6
<1>10. \A t \in R : Keeps(p, t, g[t])
  <2>1. \A t \in SUBSET S : t # {} => c[t] \in t
    BY <1>1
  <2>2. R \subseteq SUBSET S /\ \A t \in R : t # {} => t \ {c[t]} \in R
    BY <1>8
  <2>3. QED BY ONLY IsFiniteSet(S), Keeps(p, {}, r), <2>1, <1>6, <2>2, <1>9, IterKeeps
<1>11. S \in R
  BY <1>7 DEF Downward
<1>12. QED BY <1>3, <1>4, <1>10, <1>11

\* over a sequence, the members done are named by their places
THEOREM FoldKeeps ==
  ASSUME NEW p, NEW r, NEW s, NEW n \in Nat, DOMAIN s = 1 .. n,
         Keeps(p, 1 .. 0, r),
         \A i \in 1 .. n : \A acc :
           Keeps(p, 1 .. (i - 1), acc) => Keeps(p, 1 .. i, Step(p, acc, s[i]))
  PROVE  Keeps(p, 1 .. n, Fold(p, r, s))
<1> DEFINE S == 1 .. n
           c == [t \in SUBSET S |-> IF t = {} THEN {} ELSE Max(t)]
           It(h) == h = [t \in SUBSET S |->
                           IF t = {} THEN r ELSE Step(p, h[t \ {Max(t)}], s[Max(t)])]
<1>0. IsFiniteSet(S) /\ S \subseteq Nat
  BY FS_Interval
<1>3. Fold(p, r, s) = (CHOOSE h : It(h))[S]
  BY DEF Fold, FoldLeft, MapThenFoldSet
<1> HIDE DEF S
<1>1. \A t \in SUBSET S : t # {} => c[t] = Max(t) /\ c[t] \in t
  BY <1>0, FS_Subset, GreatestMember
<1>4. PICK g : g = CHOOSE h : It(h)
  OBVIOUS
<1>5. \A h : It(h) <=> IsIter(h, p, r, c, s, SUBSET S)
  <2> HIDE DEF c
  <2>2. QED BY <1>1 DEF IsIter
<1> HIDE DEF c, It
<1>6. IsIter(g, p, r, c, s, SUBSET S)
  <2>1. \E h : It(h)
    <3>1. \E h : IsIter(h, p, r, c, s, SUBSET S)
      BY <1>0, <1>1, IterExists
    <3>2. QED BY <1>5, <3>1
  <2>2. It(CHOOSE h : It(h))
    BY <2>1
  <2>3. QED BY <1>4, <1>5, <2>2
<1>7. PICK R : R = Downward(S)
  OBVIOUS
<1>8. R \subseteq SUBSET S /\ \A t \in R : t # {} => t \ {c[t]} \in R
  <2>1. R \subseteq SUBSET S
    BY <1>7 DEF Downward
  <2>2. QED BY <1>0, <1>1, <1>7, <2>1, DownwardLast
<1>9. \A t \in R : \A acc :
        t # {} /\ Keeps(p, t \ {c[t]}, acc) => Keeps(p, t, Step(p, acc, s[c[t]]))
  <2>1. SUFFICES ASSUME NEW t \in R, NEW acc, t # {}, Keeps(p, t \ {c[t]}, acc)
                 PROVE  Keeps(p, t, Step(p, acc, s[c[t]]))
    OBVIOUS
  <2>2. PICK i : i = Max(t)
    OBVIOUS
  <2>3. i \in S /\ t = Through(S, i) /\ t \ {i} = Under(S, i)
    BY <1>0, <1>7, <1>8, <2>1, <2>2, DownwardLast
  <2>4. i \in 1 .. n /\ Through(S, i) = 1 .. i /\ Under(S, i) = 1 .. (i - 1)
    BY <2>3 DEF S, Through, Under
  <2>5. c[t] = i
    BY <1>1, <1>8, <2>1, <2>2
  <2>6. Keeps(p, 1 .. (i - 1), acc)
    BY <2>1, <2>3, <2>4, <2>5
  <2>7. Keeps(p, 1 .. i, Step(p, acc, s[i]))
    BY <2>4, <2>6
  <2>8. QED BY <2>3, <2>4, <2>5, <2>7
<1>10. Keeps(p, {}, r)
  <2>1. 1 .. 0 = {}
    OBVIOUS
  <2>2. QED BY <2>1
<1>11. \A t \in R : Keeps(p, t, g[t])
  <2>1. \A t \in SUBSET S : t # {} => c[t] \in t
    BY <1>1
  <2>2. IsFiniteSet(S)
    BY <1>0
  <2>3. QED BY <1>6, <1>8, <1>9, <1>10, <2>1, <2>2, IterKeeps, ZenonT(60)
<1>12. S \in R
  BY <1>7 DEF Downward
<1>13. QED BY <1>3, <1>4, <1>11, <1>12 DEF S

\* one member more at the end of a sequence is one step more
THEOREM FoldAppend ==
  ASSUME NEW p, NEW r, NEW s, NEW n \in Nat, DOMAIN s = 1 .. n,
         NEW z, DOMAIN z = 1 .. n + 1, \A i \in 1 .. n : z[i] = s[i]
  PROVE  Fold(p, r, z) = Step(p, Fold(p, r, s), z[n + 1])
<1> DEFINE S == 1 .. n
           Z == 1 .. n + 1
           c == [t \in SUBSET Z |-> IF t = {} THEN {} ELSE Max(t)]
           It(h) == h = [t \in SUBSET S |->
                           IF t = {} THEN r ELSE Step(p, h[t \ {Max(t)}], s[Max(t)])]
           Jt(h) == h = [t \in SUBSET Z |->
                           IF t = {} THEN r ELSE Step(p, h[t \ {Max(t)}], z[Max(t)])]
<1>0. /\ IsFiniteSet(S) /\ S \subseteq Nat /\ IsFiniteSet(Z) /\ Z \subseteq Nat
      /\ S \subseteq Z /\ n + 1 \in Z /\ Z \ {n + 1} = S /\ \A i \in Z : i <= n + 1
  <2>1. IsFiniteSet(S) /\ IsFiniteSet(Z)
    BY FS_Interval
  <2>2. QED BY <2>1
<1>3. Fold(p, r, s) = (CHOOSE h : It(h))[S] /\ Fold(p, r, z) = (CHOOSE h : Jt(h))[Z]
  BY DEF Fold, FoldLeft, MapThenFoldSet
<1>13. \A i \in S : z[i] = s[i]
  OBVIOUS
<1> HIDE DEF S, Z
<1>1. \A t \in SUBSET Z : t # {} => c[t] = Max(t) /\ c[t] \in t
  BY <1>0, FS_Subset, GreatestMember
<1>14. \A t \in SUBSET S : t # {} => c[t] = Max(t) /\ c[t] \in t
  BY <1>0, <1>1
<1>2. PICK g : g = CHOOSE h : It(h)
  OBVIOUS
<1>4. PICK f : f = CHOOSE h : Jt(h)
  OBVIOUS
<1>5. /\ \A h : It(h) <=> IsIter(h, p, r, c, s, SUBSET S)
      /\ \A h : Jt(h) <=> IsIter(h, p, r, c, z, SUBSET Z)
  <2> HIDE DEF c
  <2>1. \A h : It(h) <=> IsIter(h, p, r, c, s, SUBSET S)
    BY <1>14 DEF IsIter
  <2>2. \A h : Jt(h) <=> IsIter(h, p, r, c, z, SUBSET Z)
    BY <1>1 DEF IsIter
  <2>3. QED BY <2>1, <2>2
<1> HIDE DEF c, It, Jt
<1>6. IsIter(g, p, r, c, s, SUBSET S)
  <2>1. \E h : IsIter(h, p, r, c, s, SUBSET S)
    BY <1>0, <1>14, IterExists
  <2>2. \E h : It(h)
    BY <1>5, <2>1
  <2>3. It(CHOOSE h : It(h))
    BY <2>2
  <2>4. QED BY <1>2, <1>5, <2>3
<1>7. IsIter(f, p, r, c, z, SUBSET Z)
  <2>1. \E h : IsIter(h, p, r, c, z, SUBSET Z)
    BY <1>0, <1>1, IterExists
  <2>2. \E h : Jt(h)
    BY <1>5, <2>1
  <2>3. Jt(CHOOSE h : Jt(h))
    BY <2>2
  <2>4. QED BY <1>4, <1>5, <2>3
<1>8. \A t \in SUBSET S : f[t] = g[t]
  <2> DEFINE Bad == {t \in SUBSET S : f[t] # g[t]}
  <2>1. SUFFICES ASSUME Bad # {} PROVE FALSE
    OBVIOUS
  <2>2. \A t \in SUBSET S : IsFiniteSet(t) /\ Cardinality(t) \in Nat
    BY <1>0, FS_Subset, FS_CardinalityType
  <2>3. PICK t \in Bad : \A u \in Bad : Cardinality(t) <= Cardinality(u)
    BY <2>1, <2>2, SmallestSet
  <2>4. t \in SUBSET S /\ t \in SUBSET Z /\ f[t] # g[t]
    BY <1>0
  <2>5. /\ g[t] = IF t = {} THEN r ELSE Step(p, g[t \ {c[t]}], s[c[t]])
        /\ f[t] = IF t = {} THEN r ELSE Step(p, f[t \ {c[t]}], z[c[t]])
    BY <1>6, <1>7, <2>4 DEF IsIter
  <2>6. t # {} /\ c[t] \in t /\ c[t] \in S /\ t \ {c[t]} \in SUBSET S
    BY <1>14, <2>4, <2>5
  <2>7. Cardinality(t \ {c[t]}) = Cardinality(t) - 1
    BY <2>2, <2>4, <2>6, FS_RemoveElement
  <2>8. t \ {c[t]} \notin Bad
    BY <2>2, <2>3, <2>4, <2>7
  <2>9. f[t \ {c[t]}] = g[t \ {c[t]}] /\ z[c[t]] = s[c[t]]
    BY <1>13, <2>6, <2>8
  <2>10. QED BY <2>4, <2>5, <2>6, <2>9
<1>9. Max(Z) = n + 1
  <2>1. Max(Z) \in Z /\ \A y \in Z : y <= Max(Z)
    BY <1>0, GreatestMember
  <2>2. Max(Z) \in Nat /\ Max(Z) <= n + 1 /\ n + 1 <= Max(Z)
    BY <1>0, <2>1
  <2>3. QED BY <2>2
<1>10. f[Z] = Step(p, f[S], z[n + 1])
  <2>1. Z # {} /\ Z \in SUBSET Z
    BY <1>0
  <2>2. c[Z] = n + 1
    BY <1>1, <1>9, <2>1
  <2>3. f[Z] = Step(p, f[Z \ {c[Z]}], z[c[Z]])
    BY <1>7, <2>1 DEF IsIter
  <2>4. QED BY <1>0, <2>2, <2>3
<1>11. QED BY <1>2, <1>3, <1>4, <1>8, <1>10
=============================================================================
