--------------------------- MODULE ComponentProofs ---------------------------
(***************************************************************************)
(* Proofs about the components that stand alone: the listing of            *)
(* conversations, the reading of their messages, the rate limiter of the   *)
(* authentication routes, the experiments of the reliability lab, and the  *)
(* delays between the attempts of the outbox worker.  They hold for any    *)
(* number of callers and every limit, page size, window and attempt count. *)
(***************************************************************************)
EXTENDS ConversationList, MessageHistory, RateLimit, Packet, Cache, Fence, Backoff,
        FiniteSetTheorems, SequenceTheorems, WellFoundedInduction, TLAPS
-----------------------------------------------------------------------------
(* Sets and sequences                                                      *)

\* A finite set of integers has a largest element.
LEMMA LargestExists ==
  ASSUME NEW S \in SUBSET Int, IsFiniteSet(S), S # {}
  PROVE  \E x \in S : \A y \in S : x >= y
<1> DEFINE Above(x) == {y \in S : y > x}
           T == {Cardinality(Above(x)) : x \in S}
<1>1. \A x \in S : IsFiniteSet(Above(x)) /\ Cardinality(Above(x)) \in Nat
  <2> TAKE x \in S
  <2>1. Above(x) \subseteq S
    OBVIOUS
  <2>2. IsFiniteSet(Above(x))
    BY <2>1, FS_Subset
  <2> QED BY <2>2, FS_CardinalityType
<1>2. T \subseteq Nat /\ T # {}
  BY <1>1
<1>3. PICK n \in T : \A m \in T : ~(<<m, n>> \in OpToRel(<, Nat))
  <2> HIDE DEF T
  <2> QED BY <1>2, NatLessThanWellFounded, WFMin
<1>4. \A m \in T : ~(m < n)
  BY <1>2, <1>3 DEF OpToRel
<1>5. PICK x \in S : n = Cardinality(Above(x))
  BY <1>3
<1>6. ASSUME NEW y \in S, y > x  PROVE FALSE
  <2>1. Above(y) \subseteq Above(x) /\ y \in Above(x) /\ y \notin Above(y)
    <3>1. x \in Int /\ y \in Int
      OBVIOUS
    <3>2. \A z \in S : z > y => z > x
      BY <1>6, <3>1
    <3>3. ~(y > y)
      BY <3>1
    <3> QED BY <1>6, <3>2, <3>3
  <2>2. Cardinality(Above(y)) <= Cardinality(Above(x))
        /\ (Cardinality(Above(y)) = Cardinality(Above(x)) => Above(y) = Above(x))
    <3> HIDE DEF Above
    <3> QED BY <1>1, <2>1, FS_Subset
  <2>3. Cardinality(Above(y)) < Cardinality(Above(x))
    <3> HIDE DEF Above
    <3> QED BY <1>1, <2>1, <2>2
  <2>4. Cardinality(Above(y)) \in T
    OBVIOUS
  <2> HIDE DEF T
  <2> QED BY <1>4, <1>5, <2>3, <2>4
<1> QED BY <1>6

\* It is what Max returns.
LEMMA MaxIs ==
  ASSUME NEW S \in SUBSET Int, IsFiniteSet(S), S # {}
  PROVE  Max(S) \in S /\ \A y \in S : Max(S) >= y
<1>1. \E x \in S : \A y \in S : x >= y
  BY LargestExists
<1> QED BY <1>1 DEF Max

\* A function on 1 .. n is a sequence of length n.
LEMMA FunctionSequence ==
  ASSUME NEW S, NEW n \in Nat, NEW s \in [1 .. n -> S]
  PROVE  s \in Seq(S) /\ Len(s) = n
  OBVIOUS
\* Induction over the natural numbers, for a set of them.
LEMMA NatInduct ==
  ASSUME NEW P, 0 \in P, \A n \in Nat : n \in P => n + 1 \in P
  PROVE  Nat \subseteq P
<1> DEFINE T == Nat \ P
<1>1. SUFFICES ASSUME T # {} PROVE FALSE
  OBVIOUS
<1>2. PICK n \in T : \A m \in T : ~(<<m, n>> \in OpToRel(<, Nat))
  <2>1. T \subseteq Nat
    OBVIOUS
  <2> HIDE DEF T
  <2> QED BY <1>1, <2>1, NatLessThanWellFounded, WFMin
<1>3. n \in Nat /\ n # 0
  OBVIOUS
<1>4. n - 1 \in Nat /\ n - 1 < n /\ n = (n - 1) + 1
  BY <1>3
<1>5. n - 1 \notin T
  BY <1>2, <1>3, <1>4 DEF OpToRel
<1> QED BY <1>4, <1>5

\* Induction over the subsets of a finite set, for a set of them.
LEMMA SubsetInduct ==
  ASSUME NEW S, IsFiniteSet(S), NEW P, {} \in P,
         \A t \in SUBSET S : t # {} /\ (\A x \in t : t \ {x} \in P) => t \in P
  PROVE  SUBSET S \subseteq P
<1> DEFINE N == {n \in Nat : \A t \in SUBSET S : Cardinality(t) = n => t \in P}
<1>1. \A t \in SUBSET S : IsFiniteSet(t) /\ Cardinality(t) \in Nat
  BY FS_Subset, FS_CardinalityType
<1>2. 0 \in N
  BY <1>1, FS_EmptySet
<1>3. ASSUME NEW n \in Nat, n \in N PROVE n + 1 \in N
  <2> SUFFICES ASSUME NEW t \in SUBSET S, Cardinality(t) = n + 1 PROVE t \in P
    OBVIOUS
  <2>1. t # {}
    BY FS_EmptySet
  <2>2. ASSUME NEW x \in t PROVE t \ {x} \in P
    <3>1. Cardinality(t \ {x}) = n
      BY <1>1, FS_RemoveElement
    <3> QED BY <1>3, <3>1
  <2> QED BY <2>1, <2>2
<1>4. Nat \subseteq N
  <2> HIDE DEF N
  <2> QED BY <1>2, <1>3, NatInduct
<1> QED BY <1>1, <1>4

\* Some element of a set.
One(s) == CHOOSE x \in s : TRUE

\* g sums f over the subsets of S, one element after the other.
Sums(g, f, S) ==
    g = [s \in SUBSET S |-> IF s = {} THEN 0 ELSE f[One(s)] + g[s \ {One(s)}]]

\* g sums f over the subsets of S, in any order.
Adds(g, f, S) ==
    /\ g \in [SUBSET S -> Int] /\ g[{}] = 0
    /\ \A s \in SUBSET S : \A x \in s : g[s] = f[x] + g[s \ {x}]

\* A set that is not empty has one.
LEMMA OneIs == ASSUME NEW s, s # {} PROVE One(s) \in s
  BY DEF One

\* Every finite set can be summed over: such a function exists, by induction on
\* the size of the subsets it is defined for.
LEMMA SumsExist ==
  ASSUME NEW S, IsFiniteSet(S), NEW f \in [S -> Int]
  PROVE  \E g : Sums(g, f, S)
<1> DEFINE D(n) == {s \in SUBSET S : Cardinality(s) <= n}
           R(g, s) == IF s = {} THEN 0 ELSE f[One(s)] + g[s \ {One(s)}]
           N == {n \in Nat : \E g : \A s \in D(n) : g[s] = R(g, s)}
<1>1. \A s \in SUBSET S : IsFiniteSet(s) /\ Cardinality(s) \in Nat
  BY FS_Subset, FS_CardinalityType
<1>2. \A n \in Nat : \A s \in D(n + 1) :
        s # {} => s \ {One(s)} \in D(n) /\ s \ {One(s)} \in D(n + 1)
  <2> TAKE n \in Nat
  <2> TAKE s \in D(n + 1)
  <2> HAVE s # {}
  <2>1. One(s) \in s
    BY OneIs
  <2>2. s \ {One(s)} \in SUBSET S /\ Cardinality(s \ {One(s)}) = Cardinality(s) - 1
    BY <1>1, <2>1, FS_RemoveElement
  <2> QED BY <1>1, <2>2
<1>3. 0 \in N
  <2> DEFINE g == [s \in {{}} |-> 0]
  <2>1. \A s \in D(0) : s = {}
    BY <1>1, FS_EmptySet
  <2>2. \A s \in D(0) : g[s] = R(g, s)
    BY <2>1
  <2> QED BY <2>2
<1>4. ASSUME NEW n \in Nat, n \in N PROVE n + 1 \in N
  <2>1. PICK g : \A s \in D(n) : g[s] = R(g, s)
    BY <1>4
  <2> DEFINE h == [s \in D(n + 1) |-> R(g, s)]
  <2>2. \A s \in D(n) : s \in D(n + 1)
    BY <1>1
  <2>3. \A s \in D(n) : h[s] = g[s]
    <3> HIDE DEF D, R
    <3> QED BY <2>1, <2>2
  <2>4. \A s \in D(n + 1) : h[s] = R(g, s)
    <3> HIDE DEF D, R
    <3> QED OBVIOUS
  <2>5. \A s \in D(n + 1) : R(h, s) = R(g, s)
    <3> HIDE DEF D, h
    <3> QED BY <1>2, <2>3
  <2>6. \A s \in D(n + 1) : h[s] = R(h, s)
    <3> HIDE DEF D, h, R
    <3> QED BY <2>4, <2>5
  <2> HIDE DEF h, D, R
  <2> QED BY <2>6
<1>5. Nat \subseteq N
  <2> HIDE DEF N
  <2> QED BY <1>3, <1>4, NatInduct
<1>6. Cardinality(S) \in Nat /\ SUBSET S = D(Cardinality(S))
  BY FS_Subset, FS_CardinalityType
<1>7. PICK g : \A s \in SUBSET S : g[s] = R(g, s)
  <2> HIDE DEF D, R
  <2> QED BY <1>5, <1>6
<1> DEFINE h == [s \in SUBSET S |-> R(g, s)]
<1>8. \A s \in SUBSET S : h[s] = g[s]
  <2> HIDE DEF R
  <2> QED BY <1>7
<1>9. \A s \in SUBSET S : R(g, s) = R(h, s)
  <2> HIDE DEF h
  <2> QED BY <1>8
<1>10. h = [s \in SUBSET S |-> R(h, s)]
  <2> DEFINE k == [s \in SUBSET S |-> R(h, s)]
  <2>1. \A s \in SUBSET S : h[s] = k[s]
    <3> HIDE DEF R
    <3> QED BY <1>9
  <2> HIDE DEF R
  <2> QED BY <1>9, <2>1
<1> HIDE DEF h
<1> QED BY <1>10 DEF Sums

\* The order in which a fold takes the elements does not matter.
LEMMA SumsAdd ==
  ASSUME NEW S, IsFiniteSet(S), NEW f \in [S -> Int], NEW g, Sums(g, f, S)
  PROVE  Adds(g, f, S)
<1>1. /\ DOMAIN g = SUBSET S
      /\ g = [s \in SUBSET S |-> g[s]]
      /\ g[{}] = 0
      /\ \A s \in SUBSET S : s # {} => g[s] = f[One(s)] + g[s \ {One(s)}]
  BY DEF Sums
<1>2. \A s \in SUBSET S : s # {} => One(s) \in s
  BY OneIs
<1> DEFINE P == {s \in SUBSET S :
                    /\ g[s] \in Int
                    /\ \A x \in s : g[s \ {x}] \in Int /\ g[s] = f[x] + g[s \ {x}]}
<1>3. {} \in P
  BY <1>1
<1>4. ASSUME NEW s \in SUBSET S, s # {}, \A x \in s : s \ {x} \in P PROVE s \in P
  <2> DEFINE c == One(s)
  <2>1. c \in s /\ g[s] = f[c] + g[s \ {c}] /\ g[s \ {c}] \in Int /\ f[c] \in Int
    BY <1>1, <1>2, <1>4
  <2> HIDE DEF c
  <2>2. g[s] \in Int
    BY <2>1
  <2>3. ASSUME NEW x \in s PROVE g[s] = f[x] + g[s \ {x}]
    <3>1. CASE x = c
      BY <2>1, <3>1
    <3>2. CASE x # c
      <4>1. g[s \ {c}] = f[x] + g[(s \ {c}) \ {x}]
        BY <1>4, <2>1, <3>2
      <4>2. g[s \ {x}] = f[c] + g[(s \ {x}) \ {c}]
        BY <1>4, <2>1, <3>2
      <4>3. (s \ {c}) \ {x} = (s \ {x}) \ {c}
        OBVIOUS
      <4>4. g[s \ {x}] \in Int /\ g[s \ {c}] \in Int /\ f[x] \in Int
        BY <1>4, <2>1
      <4>5. g[(s \ {c}) \ {x}] \in Int
        BY <1>4, <2>1, <3>2
      <4>6. PICK r \in Int : g[(s \ {c}) \ {x}] = r /\ g[(s \ {x}) \ {c}] = r
        <5> HIDE DEF P
        <5> QED BY <4>3, <4>5
      <4>7. g[s] = f[c] + (f[x] + r) /\ g[s \ {x}] = f[c] + r
        <5> HIDE DEF P
        <5> QED BY <2>1, <4>1, <4>2, <4>6
      <4> HIDE DEF P
      <4> QED BY <2>1, <4>4, <4>7
    <3> QED BY <3>1, <3>2
  <2>4. \A x \in s : g[s \ {x}] \in Int
    BY <1>4
  <2> QED BY <2>2, <2>3, <2>4
<1>5. SUBSET S \subseteq P
  <2> HIDE DEF P
  <2> QED BY <1>3, <1>4, SubsetInduct
<1>6. \A s \in SUBSET S : g[s] \in Int
  BY <1>5
<1>7. g \in [SUBSET S -> Int]
  BY <1>1, <1>6
<1> QED BY <1>1, <1>5, <1>7 DEF Adds

\* Sums over a part are the same whatever they are a part of.
LEMMA AddsAgree ==
  ASSUME NEW S, IsFiniteSet(S), NEW f, NEW W, Adds(W, f, S),
         NEW F \in SUBSET S, NEW h, NEW g, Adds(g, h, F), \A x \in F : h[x] = f[x]
  PROVE  g[F] = W[F]
<1> DEFINE P == {s \in SUBSET F : g[s] = W[s]}
<1>1. {} \in P
  BY DEF Adds
<1>2. ASSUME NEW s \in SUBSET F, s # {}, \A x \in s : s \ {x} \in P PROVE s \in P
  <2>1. PICK x \in s : TRUE
    BY <1>2
  <2>2. g[s] = h[x] + g[s \ {x}] /\ W[s] = f[x] + W[s \ {x}]
    BY DEF Adds
  <2> QED BY <1>2, <2>2
<1>3. IsFiniteSet(F)
  BY FS_Subset
<1>4. SUBSET F \subseteq P
  <2> HIDE DEF P
  <2> QED BY <1>1, <1>2, <1>3, SubsetInduct
<1> QED BY <1>4

\* Adding what the elements of C stand for, each for another element of S.
LEMMA AddsImage ==
  ASSUME NEW S, NEW f \in [S -> Int], NEW W, Adds(W, f, S),
         NEW C, IsFiniteSet(C), NEW c \in [C -> S], NEW h, NEW g, Adds(g, h, C),
         \A u \in C : h[u] = f[c[u]], \A u, v \in C : c[u] = c[v] => u = v,
         NEW F \in SUBSET S, \A u \in C : c[u] \notin F
  PROVE  W[F \cup {c[u] : u \in C}] = W[F] + g[C]
<1> DEFINE I(t) == F \cup {c[u] : u \in t}
           P == {t \in SUBSET C : W[I(t)] = W[F] + g[t]}
<1>1. \A t \in SUBSET C : I(t) \in SUBSET S
  OBVIOUS
<1>2. {} \in P
  <2>1. I({}) = F
    OBVIOUS
  <2>2. W[F] \in Int /\ g[{}] = 0
    BY DEF Adds
  <2> QED BY <2>1, <2>2
<1>3. ASSUME NEW t \in SUBSET C, t # {}, \A x \in t : t \ {x} \in P PROVE t \in P
  <2>1. PICK u \in t : TRUE
    BY <1>3
  <2>2. I(t) \ {c[u]} = I(t \ {u}) /\ c[u] \in I(t)
    OBVIOUS
  <2>3. W[I(t)] = f[c[u]] + W[I(t \ {u})]
    <3>1. I(t) \in SUBSET S
      BY <1>1
    <3> HIDE DEF I
    <3>2. W[I(t)] = f[c[u]] + W[I(t) \ {c[u]}]
      BY <2>2, <3>1 DEF Adds
    <3> QED BY <2>2, <3>2
  <2>4. g[t] = f[c[u]] + g[t \ {u}]
    BY DEF Adds
  <2>5. W[I(t \ {u})] = W[F] + g[t \ {u}]
    BY <1>3
  <2>6. W[F] \in Int /\ g[t \ {u}] \in Int /\ f[c[u]] \in Int
    BY DEF Adds
  <2>7. W[I(t)] = W[F] + g[t]
    <3> HIDE DEF I, P
    <3> QED BY <2>3, <2>4, <2>5, <2>6
  <2> QED BY <2>7
<1>4. SUBSET C \subseteq P
  <2> HIDE DEF P
  <2> QED BY <1>2, <1>3, SubsetInduct
<1> QED BY <1>4
-----------------------------------------------------------------------------
(* ConversationList                                                         *)

USE ConversationListAssumption

\* The ids of a page are numbered in their order, from 0 on.
LEMMA RankIs ==
  ASSUME NEW S \in SUBSET Nat, IsFiniteSet(S)
  PROVE  /\ Cardinality(S) \in Nat
         /\ \A c \in S : Rank(S, c) \in 0 .. Cardinality(S) - 1
         /\ \A c, d \in S : c < d => Rank(S, c) < Rank(S, d)
<1> DEFINE Below(c) == {d \in S : d < c}
<1>1. Cardinality(S) \in Nat
  BY FS_CardinalityType
<1>2. \A c \in S : IsFiniteSet(Below(c)) /\ Cardinality(Below(c)) \in Nat
                   /\ Cardinality(Below(c)) < Cardinality(S)
  <2> TAKE c \in S
  <2>1. Below(c) \subseteq S /\ c \notin Below(c)
    OBVIOUS
  <2> HIDE DEF Below
  <2>2. IsFiniteSet(Below(c)) /\ Cardinality(Below(c)) <= Cardinality(S)
        /\ (Cardinality(S) = Cardinality(Below(c)) => S = Below(c))
    BY <2>1, FS_Subset
  <2>3. Cardinality(Below(c)) \in Nat
    BY <2>2, FS_CardinalityType
  <2> QED BY <1>1, <2>1, <2>2, <2>3
<1>3. ASSUME NEW c \in S, NEW d \in S, c < d
      PROVE  Cardinality(Below(c)) < Cardinality(Below(d))
  <2>1. Below(c) \subseteq Below(d) /\ c \in Below(d) /\ c \notin Below(c)
    <3>1. c \in Nat /\ d \in Nat /\ ~(c < c)
      OBVIOUS
    <3>2. \A e \in S : e < c => e < d
      BY <1>3, <3>1
    <3> QED BY <1>3, <3>1, <3>2
  <2> HIDE DEF Below
  <2>2. Cardinality(Below(c)) <= Cardinality(Below(d))
        /\ (Cardinality(Below(d)) = Cardinality(Below(c)) => Below(d) = Below(c))
    BY <1>2, <2>1, FS_Subset
  <2> QED BY <1>2, <2>1, <2>2
<1>4. \A c \in S : Rank(S, c) = Cardinality(Below(c))
  BY DEF Rank
<1> HIDE DEF Below
<1> QED BY <1>1, <1>2, <1>3, <1>4

\* Every place of the order is taken.
LEMMA RankTaken ==
  ASSUME NEW S \in SUBSET Nat, IsFiniteSet(S), NEW k \in 0 .. Cardinality(S) - 1
  PROVE  \E c \in S : Rank(S, c) = k
<1> DEFINE T == 0 .. Cardinality(S) - 1
           f == [c \in S |-> Rank(S, c)]
<1>1. Cardinality(S) \in Nat /\ IsFiniteSet(T) /\ Cardinality(T) = Cardinality(S)
  BY RankIs, FS_Interval
<1>2. f \in [S -> T]
  BY RankIs
<1>3. \A c, d \in S : f[c] = f[d] => c = d
  <2> SUFFICES ASSUME NEW c \in S, NEW d \in S, Rank(S, c) = Rank(S, d)
               PROVE  c = d
    OBVIOUS
  <2>1. ~(c < d) /\ ~(d < c)
    BY RankIs
  <2> QED BY <2>1
<1>4. f \in Injection(S, T)
  <2> HIDE DEF f, T
  <2> QED BY <1>2, <1>3 DEF Injection, IsInjective
<1>5. f \in Surjection(S, T)
  <2> HIDE DEF f, T
  <2> QED BY <1>1, <1>4, FS_Injection
<1>6. \A t \in T : \E c \in S : f[c] = t
  <2> HIDE DEF f, T
  <2> QED BY <1>5 DEF Surjection
<1> QED BY <1>6

\* Ascending lists every id of the page once.
LEMMA AscendingIs ==
  ASSUME NEW S \in SUBSET (Nat \ {0}), IsFiniteSet(S)
  PROVE  /\ Ascending(S) \in Seq(Nat \ {0})
         /\ ToSet(Ascending(S)) = S
         /\ IsInjective(Ascending(S))
<1> DEFINE n == Cardinality(S)
           s == Ascending(S)
<1>1. n \in Nat /\ S \subseteq Nat
  BY FS_CardinalityType
<1>2. \A i \in 1 .. n : s[i] \in S /\ Rank(S, s[i]) = i - 1
  <2> TAKE i \in 1 .. n
  <2>1. i - 1 \in 0 .. n - 1
    BY <1>1
  <2>2. \E c \in S : Rank(S, c) = i - 1
    BY <1>1, <2>1, RankTaken
  <2>3. s[i] = CHOOSE c \in S : Rank(S, c) = i - 1
    BY DEF Ascending
  <2> QED BY <2>2, <2>3
<1>3. s \in [1 .. n -> Nat \ {0}]
  <2>1. s = [i \in 1 .. n |-> s[i]]
    BY DEF Ascending
  <2> HIDE DEF s, n
  <2> QED BY <1>2, <2>1
<1>4. DOMAIN s = 1 .. n
  BY DEF Ascending
<1>5. \A c \in S : \E i \in 1 .. n : s[i] = c
  <2> TAKE c \in S
  <2>1. Rank(S, c) \in 0 .. n - 1
    BY <1>1, RankIs
  <2> DEFINE i == Rank(S, c) + 1
  <2>2. i \in 1 .. n /\ i - 1 = Rank(S, c)
    BY <1>1, <2>1
  <2> HIDE DEF i, s, n
  <2>3. s[i] \in S /\ Rank(S, s[i]) = Rank(S, c)
    BY <1>2, <2>2
  <2>4. ~(s[i] < c) /\ ~(c < s[i]) /\ s[i] \in Nat /\ c \in Nat
    <3>1. \A e, d \in S : e < d => Rank(S, e) < Rank(S, d)
      BY <1>1, RankIs
    <3>2. Rank(S, c) \in Nat /\ ~(Rank(S, c) < Rank(S, c))
      BY <1>1, <2>1
    <3> QED BY <1>1, <2>3, <3>1, <3>2
  <2> QED BY <2>2, <2>4
<1> HIDE DEF n, s
<1>6. s \in Seq(Nat \ {0})
  BY <1>1, <1>3, FunctionSequence
<1>7. ToSet(s) = S
  BY <1>2, <1>4, <1>5 DEF ToSet
<1>8. IsInjective(s)
  <2> SUFFICES ASSUME NEW a \in 1 .. n, NEW b \in 1 .. n, s[a] = s[b] PROVE a = b
    BY <1>4 DEF IsInjective
  <2>1. a - 1 = b - 1
    BY <1>2
  <2> QED BY <1>1, <2>1
<1> QED BY <1>6, <1>7, <1>8 DEF s

\* A page is the beginning of its rows: it has the rows up to its last one, it
\* is not empty when the rows are not, and all of them when they fit.
LEMMA FirstIs ==
  ASSUME NEW S \in SUBSET Nat, IsFiniteSet(S), NEW n \in Nat \ {0}
  PROVE  /\ First(S, n) \subseteq S /\ IsFiniteSet(First(S, n))
         /\ \A d \in First(S, n), c \in S : c <= d => c \in First(S, n)
         /\ Cardinality(S) > 0 => First(S, n) # {}
         /\ Cardinality(S) <= n => First(S, n) = S
<1>1. First(S, n) \subseteq S /\ IsFiniteSet(First(S, n))
  <2>1. First(S, n) \subseteq S
    BY DEF First
  <2> QED BY <2>1, FS_Subset
<1>2. /\ Cardinality(S) \in Nat
      /\ \A c \in S : Rank(S, c) \in 0 .. Cardinality(S) - 1
      /\ \A c, d \in S : c < d => Rank(S, c) < Rank(S, d)
  BY RankIs
<1>3. ASSUME NEW d \in First(S, n), NEW c \in S, c <= d PROVE c \in First(S, n)
  <2>1. d \in S /\ Rank(S, d) < n
    BY DEF First
  <2>2. c = d \/ c < d
    BY <1>3, <2>1
  <2>3. Rank(S, c) < n
    BY <1>2, <2>1, <2>2
  <2> QED BY <2>3 DEF First
<1>4. ASSUME Cardinality(S) > 0 PROVE First(S, n) # {}
  <2>1. 0 \in 0 .. Cardinality(S) - 1
    BY <1>2, <1>4
  <2>2. \E c \in S : Rank(S, c) = 0
    BY <2>1, RankTaken
  <2> QED BY <2>2 DEF First
<1>5. ASSUME Cardinality(S) <= n PROVE First(S, n) = S
  <2>1. \A c \in S : Rank(S, c) < n
    BY <1>2, <1>5
  <2> QED BY <2>1 DEF First
<1> QED BY <1>1, <1>3, <1>4, <1>5

\* The page after a cursor: it has the rows up to the next cursor, all of them
\* when there are no more.
LEMMA PageIs ==
  ASSUME NEW after \in Nat, NEW rows \in SUBSET (Nat \ {0}), IsFiniteSet(rows),
         \A c \in rows : after < c
  PROVE  LET page == Page(after, rows) IN
         /\ page.ids \subseteq rows /\ IsFiniteSet(page.ids)
         /\ page.next \in Nat /\ after <= page.next
         /\ \A c \in page.ids : c <= page.next
         /\ \A c \in rows : c <= page.next => c \in page.ids
         /\ Cardinality(rows) > Limit => page.ids # {}
         /\ ~(Cardinality(rows) > Limit) => page.ids = rows
<1> DEFINE F == First(rows, Limit)
           m == Max(F \cup {after})
<1>1. Page(after, rows).ids = F /\ Page(after, rows).next = m
  BY DEF Page
<1>2. /\ F \subseteq rows /\ IsFiniteSet(F)
      /\ \A d \in F, c \in rows : c <= d => c \in F
      /\ Cardinality(rows) > 0 => F # {}
      /\ Cardinality(rows) <= Limit => F = rows
  BY FirstIs
<1>3. Cardinality(rows) \in Nat
  BY FS_CardinalityType
<1> HIDE DEF F
<1>4. m \in F \cup {after} /\ \A y \in F \cup {after} : m >= y
  <2>1. IsFiniteSet(F \cup {after})
    BY <1>2, FS_AddElement
  <2>2. F \cup {after} \in SUBSET Int
    BY <1>2
  <2> QED BY <2>1, <2>2, MaxIs
<1> HIDE DEF m
<1>5. m \in Nat /\ after <= m /\ \A c \in F : c <= m
  BY <1>2, <1>4
<1>6. ASSUME NEW c \in rows, c <= m PROVE c \in F
  <2>1. m # after
    BY <1>6
  <2> QED BY <1>2, <1>4, <1>6, <2>1
<1>7. /\ Cardinality(rows) > Limit => F # {}
      /\ ~(Cardinality(rows) > Limit) => F = rows
  BY <1>2, <1>3
<1> QED BY <1>1, <1>2, <1>5, <1>6, <1>7

\* A page of ids past everything listed is added without a repetition.
LEMMA PageAdded ==
  ASSUME NEW s \in Seq(Nat \ {0}), NEW t \in Seq(Nat \ {0}), NEW after \in Nat,
         IsInjective(s), IsInjective(t),
         \A n \in DOMAIN s : s[n] <= after, \A c \in ToSet(t) : after < c
  PROVE  /\ s \o t \in Seq(Nat \ {0}) /\ IsInjective(s \o t)
         /\ ToSet(s \o t) = ToSet(s) \cup ToSet(t)
<1> DEFINE u == s \o t
           k == Len(s)
           n == Len(t)
<1>1. /\ u \in Seq(Nat \ {0}) /\ Len(u) = k + n
      /\ \A i \in 1 .. k + n : u[i] = IF i <= k THEN s[i] ELSE t[i - k]
  BY ConcatProperties
<1>2. k \in Nat /\ n \in Nat /\ DOMAIN s = 1 .. k /\ DOMAIN t = 1 .. n
  OBVIOUS
<1>3. DOMAIN u = 1 .. k + n
  <2> HIDE DEF u
  <2> QED BY <1>1, <1>2
<1> HIDE DEF u, k, n
<1>4. \A i \in 1 .. k : i \in 1 .. k + n /\ u[i] = s[i]
  BY <1>1, <1>2
<1>5. \A j \in 1 .. n : j + k \in 1 .. k + n /\ u[j + k] = t[j]
  <2> TAKE j \in 1 .. n
  <2>1. j + k \in 1 .. k + n /\ ~(j + k <= k) /\ (j + k) - k = j
    BY <1>2
  <2> QED BY <1>1, <2>1
<1>6. \A i \in 1 .. k + n : i \in 1 .. k \/ (i - k \in 1 .. n /\ u[i] = t[i - k])
  BY <1>1, <1>2
<1>7. ToSet(u) = ToSet(s) \cup ToSet(t)
  BY <1>2, <1>3, <1>4, <1>5, <1>6 DEF ToSet
<1>8. IsInjective(u)
  <2>1. SUFFICES ASSUME NEW a \in 1 .. k + n, NEW b \in 1 .. k + n, u[a] = u[b]
                 PROVE  a = b
    BY <1>3 DEF IsInjective
  <2>2. \A i \in 1 .. k : u[i] <= after
    BY <1>2, <1>4
  <2>3. \A i \in 1 .. k + n : i \notin 1 .. k => after < u[i]
    BY <1>2, <1>6 DEF ToSet
  <2>4. u[a] \in Nat
    BY <1>1, <1>2
  <2>5. CASE a \in 1 .. k /\ b \in 1 .. k
    BY <1>2, <1>4, <2>1, <2>5 DEF IsInjective
  <2>6. CASE a \notin 1 .. k /\ b \notin 1 .. k
    <3>1. a - k \in 1 .. n /\ b - k \in 1 .. n /\ t[a - k] = t[b - k]
      BY <1>6, <2>1, <2>6
    <3>2. a - k = b - k
      BY <1>2, <3>1 DEF IsInjective
    <3> QED BY <1>2, <3>2
  <2>7. (a \in 1 .. k <=> b \in 1 .. k)
    BY <2>1, <2>2, <2>3, <2>4
  <2> QED BY <2>5, <2>6, <2>7
<1> QED BY <1>1, <1>7, <1>8 DEF u

\* No conversation and no walk yet.
LEMMA ListInitHolds == Init => ListInv
<1> SUFFICES ASSUME Init PROVE ListInv
  OBVIOUS
<1>1. <<>> \in Seq(Nat \ {0}) /\ DOMAIN <<>> = {}
  OBVIOUS
<1>2. ListTypeOK
  BY <1>1, FS_EmptySet DEF Init, ListTypeOK, NoSnapshot
<1>3. MomentsGrow
  BY DEF Init, MomentsGrow
<1>4. ListedBehindCursor
  BY <1>1 DEF Init, ListedBehindCursor, IsInjective
<1>5. NothingMissed
  BY DEF Init, NothingMissed
<1> QED BY <1>2, <1>3, <1>4, <1>5 DEF ListInv

\* Conversations that appear, or never do, while a client is between two calls.
LEMMA ConversationStep ==
  ASSUME ListInv, \/ InsertConversation
                  \/ \E c \in open : CommitConversation(c) \/ RollbackConversation(c)
  PROVE  ListInv'
<1> USE DEF ListInv
<1>1. CASE InsertConversation
  BY <1>1 DEF InsertConversation, ListTypeOK, MomentsGrow, ListedBehindCursor,
              NothingMissed, Stayed
<1>2. ASSUME NEW c \in open, CommitConversation(c) PROVE ListInv'
  <2>1. /\ member' = member \cup {c} /\ open' = open \ {c} /\ scan' = scan
        /\ moments' = moments \cup {member'} /\ nextId' = nextId
    BY <1>2 DEF CommitConversation
  <2>2. IsFiniteSet(member \cup {c})
    BY FS_AddElement DEF ListTypeOK
  <2>3. ListTypeOK'
    BY <2>1, <2>2 DEF ListTypeOK
  <2>4. MomentsGrow'
    BY <2>1 DEF MomentsGrow
  <2>5. Stayed' \subseteq Stayed
    BY <2>1 DEF Stayed, MomentsGrow
  <2>6. ListedBehindCursor'
    BY <2>1 DEF ListedBehindCursor
  <2>7. NothingMissed'
    BY <2>1, <2>5 DEF NothingMissed
  <2> QED BY <2>3, <2>4, <2>6, <2>7
<1>3. ASSUME NEW c \in open, RollbackConversation(c) PROVE ListInv'
  BY <1>3 DEF RollbackConversation, ListTypeOK, MomentsGrow, ListedBehindCursor,
              NothingMissed, Stayed
<1> QED BY <1>1, <1>2, <1>3

\* The client starts again.
LEMMA StartScanStep == ASSUME ListInv, StartScan PROVE ListInv'
<1>1. <<>> \in Seq(Nat \ {0}) /\ DOMAIN <<>> = {}
  OBVIOUS
<1>2. /\ scan' = [at |-> "cursor", after |-> 0, snapshot |-> NoSnapshot, listed |-> <<>>]
      /\ moments' = {member} /\ member' = member /\ nextId' = nextId /\ open' = open
  BY DEF StartScan
<1>3. ListTypeOK'
  BY <1>1, <1>2 DEF ListInv, ListTypeOK, NoSnapshot
<1>4. MomentsGrow'
  BY <1>2 DEF MomentsGrow
<1>5. ListedBehindCursor'
  BY <1>1, <1>2 DEF ListedBehindCursor, IsInjective
<1>6. NothingMissed'
  BY <1>2 DEF NothingMissed
<1> QED BY <1>3, <1>4, <1>5, <1>6 DEF ListInv

\* The first query: a new snapshot is the largest id of the membership.
LEMMA ReadCursorStep == ASSUME ListInv, ReadCursor PROVE ListInv'
<1> DEFINE current == Max(member \cup {0})
           first == scan.snapshot = NoSnapshot
           snapshot == IF first THEN current ELSE scan.snapshot
<1>1. /\ nextId' = nextId /\ open' = open /\ member' = member
      /\ scan.at = "cursor"
      /\ moments' = IF first THEN {member} ELSE moments
      /\ \/ scan' = [scan EXCEPT !.at = "idle"]
         \/ scan' = [scan EXCEPT !.at = "page", !.snapshot = snapshot]
  BY DEF ReadCursor
<1>2. ListTypeOK /\ MomentsGrow /\ ListedBehindCursor /\ NothingMissed
  BY DEF ListInv
<1>3. current \in Nat /\ \A c \in member : c <= current
  <2>1. PICK S : S = member \cup {0}
    OBVIOUS
  <2>2. IsFiniteSet(S) /\ S \in SUBSET Int /\ S # {}
    BY <1>2, <2>1, FS_AddElement DEF ListTypeOK
  <2>3. Max(S) \in S /\ \A y \in S : Max(S) >= y
    BY <2>2, MaxIs
  <2>4. S \subseteq Nat /\ member \subseteq S
    BY <1>2, <2>1 DEF ListTypeOK
  <2> QED BY <2>1, <2>3, <2>4
<1> HIDE DEF current
<1>4. snapshot \in Nat
  BY <1>2, <1>3 DEF ListTypeOK
<1>5. ListTypeOK'
  BY <1>1, <1>2, <1>4 DEF ListTypeOK
<1>6. MomentsGrow'
  BY <1>1, <1>2 DEF MomentsGrow
<1>7. scan'.listed = scan.listed /\ scan'.after = scan.after /\ scan'.at \in {"idle", "page"}
      /\ (scan'.at = "page" => scan'.snapshot = snapshot)
  BY <1>1, <1>2 DEF ListTypeOK
<1>8. ListedBehindCursor'
  BY <1>1, <1>2, <1>4, <1>7 DEF ListedBehindCursor, NoSnapshot
<1>9. NothingMissed'
  <2> SUFFICES ASSUME scan'.at = "page", NEW c \in Stayed'
               PROVE  /\ c <= scan'.snapshot
                      /\ (c <= scan'.after \/ scan'.at = "done") => c \in ToSet(scan'.listed)
    BY <1>7 DEF NothingMissed
  <2>1. CASE first
    <3>1. c \in member
      BY <1>1 DEF Stayed
    <3>2. scan.after = 0
      BY <1>1, <1>2, <2>1 DEF ListedBehindCursor
    <3> QED BY <1>2, <1>3, <1>7, <2>1, <3>1, <3>2 DEF ListTypeOK
  <2>2. CASE ~first
    <3>1. c \in Stayed
      BY <1>1, <2>2 DEF Stayed
    <3> QED BY <1>1, <1>2, <1>7, <2>2, <3>1 DEF NothingMissed
  <2> QED BY <2>1, <2>2
<1> QED BY <1>5, <1>6, <1>8, <1>9 DEF ListInv

\* A failed request is repeated; a first one takes another snapshot.
LEMMA RetryPageStep == ASSUME ListInv, RetryPage PROVE ListInv'
<1> DEFINE snapshot == IF scan.listed = <<>> THEN NoSnapshot ELSE scan.snapshot
<1>1. /\ nextId' = nextId /\ open' = open /\ member' = member /\ moments' = moments
      /\ scan.at = "page"
      /\ scan' = [scan EXCEPT !.at = "cursor", !.snapshot = snapshot]
  BY DEF RetryPage
<1>2. ListTypeOK /\ MomentsGrow /\ ListedBehindCursor /\ NothingMissed
  BY DEF ListInv
<1>3. ListTypeOK'
  BY <1>1, <1>2 DEF ListTypeOK
<1>4. MomentsGrow'
  BY <1>1, <1>2 DEF MomentsGrow
<1>5. scan'.listed = scan.listed /\ scan'.after = scan.after /\ scan'.at = "cursor"
      /\ scan'.snapshot = snapshot
  BY <1>1, <1>2 DEF ListTypeOK
<1>6. ListedBehindCursor'
  BY <1>1, <1>2, <1>5 DEF ListedBehindCursor, NoSnapshot
<1>7. NothingMissed'
  <2>1. Stayed' = Stayed
    BY <1>1 DEF Stayed
  <2> QED BY <1>1, <1>2, <1>5, <2>1 DEF NothingMissed
<1> QED BY <1>3, <1>4, <1>6, <1>7 DEF ListInv

\* The second query.
LEMMA ReadPageStep == ASSUME ListInv, ReadPage PROVE ListInv'
<1>1. ListTypeOK /\ MomentsGrow /\ ListedBehindCursor /\ NothingMissed
  BY DEF ListInv
<1>2. PICK rows : rows = {c \in member : scan.after < c /\ c <= scan.snapshot}
  OBVIOUS
<1>3. PICK after : after = scan.after
  OBVIOUS
<1>4. PICK s : s = scan.listed
  OBVIOUS
<1> DEFINE page == Page(after, rows)
           t == Ascending(page.ids)
<1>5. /\ nextId' = nextId /\ open' = open /\ member' = member /\ moments' = moments
      /\ scan.at = "page"
      /\ scan' = [scan EXCEPT !.at = IF Cardinality(rows) > Limit THEN "cursor" ELSE "done",
                              !.after = page.next, !.listed = s \o t]
  BY <1>2, <1>3, <1>4 DEF ReadPage
<1>6. /\ after \in Nat /\ rows \in SUBSET (Nat \ {0}) /\ IsFiniteSet(rows)
      /\ \A c \in rows : after < c
      /\ s \in Seq(Nat \ {0}) /\ IsInjective(s) /\ \A n \in DOMAIN s : s[n] <= after
  <2>1. rows \subseteq member
    BY <1>2
  <2>2. IsFiniteSet(rows)
    BY <1>1, <2>1, FS_Subset DEF ListTypeOK
  <2> QED BY <1>1, <1>2, <1>3, <1>4, <2>1, <2>2 DEF ListTypeOK, ListedBehindCursor
<1>7. /\ page.ids \subseteq rows /\ IsFiniteSet(page.ids)
      /\ page.next \in Nat /\ after <= page.next
      /\ \A c \in page.ids : c <= page.next
      /\ \A c \in rows : c <= page.next => c \in page.ids
      /\ Cardinality(rows) > Limit => page.ids # {}
      /\ ~(Cardinality(rows) > Limit) => page.ids = rows
  BY <1>6, PageIs
<1> HIDE DEF page
<1>8. /\ t \in Seq(Nat \ {0}) /\ ToSet(t) = page.ids /\ IsInjective(t)
  <2>1. page.ids \in SUBSET (Nat \ {0})
    BY <1>6, <1>7
  <2> QED BY <1>7, <2>1, AscendingIs
<1> HIDE DEF t
<1>9. /\ s \o t \in Seq(Nat \ {0}) /\ IsInjective(s \o t)
      /\ ToSet(s \o t) = ToSet(s) \cup page.ids
  <2>1. \A c \in ToSet(t) : after < c
    BY <1>6, <1>7, <1>8
  <2> QED BY <1>6, <1>8, <2>1, PageAdded
<1>10. PICK u : u = s \o t
  OBVIOUS
<1>11. PICK at : at = IF Cardinality(rows) > Limit THEN "cursor" ELSE "done"
  OBVIOUS
<1>12. /\ scan' = [scan EXCEPT !.at = at, !.after = page.next, !.listed = u]
       /\ scan'.at = at /\ scan'.after = page.next /\ scan'.listed = u
       /\ scan'.snapshot = scan.snapshot /\ at \in {"cursor", "done"}
  BY <1>1, <1>5, <1>10, <1>11 DEF ListTypeOK
<1>13. ListTypeOK'
  BY <1>1, <1>5, <1>7, <1>9, <1>10, <1>12 DEF ListTypeOK
<1>14. MomentsGrow'
  BY <1>1, <1>5 DEF MomentsGrow
<1>15. ListedBehindCursor'
  <2>1. \A c \in ToSet(u) : c <= page.next
    <3>1. \A c \in ToSet(s) : c \in Nat /\ c <= after
      BY <1>6 DEF ToSet
    <3>2. \A c \in ToSet(s) : c <= page.next
      BY <1>6, <1>7, <3>1
    <3> QED BY <1>7, <1>9, <1>10, <3>2
  <2>2. \A n \in DOMAIN u : u[n] <= page.next
    BY <2>1 DEF ToSet
  <2>3. at = "cursor" => u # <<>>
    <3>1. at = "cursor" => ToSet(u) # {}
      BY <1>7, <1>9, <1>10, <1>11
    <3>2. ToSet(<<>>) = {}
      BY DEF ToSet
    <3> QED BY <3>1, <3>2
  <2>4. scan.snapshot # NoSnapshot
    BY <1>1, <1>5 DEF ListedBehindCursor
  <2> QED BY <1>9, <1>10, <1>12, <2>2, <2>3, <2>4 DEF ListedBehindCursor
<1>16. NothingMissed'
  <2> SUFFICES ASSUME NEW c \in Stayed
               PROVE  /\ c <= scan.snapshot
                      /\ (c <= page.next \/ at = "done") => c \in ToSet(u)
    <3>1. Stayed' = Stayed
      BY <1>5 DEF Stayed
    <3> QED BY <1>12, <3>1 DEF NothingMissed
  <2>1. scan.snapshot # NoSnapshot
    BY <1>1, <1>5 DEF ListedBehindCursor
  <2>2. c <= scan.snapshot /\ (c <= after => c \in ToSet(s))
    BY <1>1, <1>3, <1>4, <1>5, <2>1 DEF NothingMissed
  <2>3. c \in member /\ c \in Nat
    BY <1>1 DEF Stayed, ListTypeOK
  <2>4. CASE c <= after
    BY <1>9, <1>10, <2>2, <2>4
  <2>5. CASE ~(c <= after)
    <3>1. c \in rows
      BY <1>2, <1>3, <1>6, <2>2, <2>3, <2>5
    <3> QED BY <1>7, <1>9, <1>10, <1>11, <2>2, <3>1
  <2> QED BY <2>4, <2>5
<1> QED BY <1>13, <1>14, <1>15, <1>16 DEF ListInv

\* Every step of a sender or of the client preserves the invariant.
LEMMA ListStep == ListInv /\ [Next]_vars => ListInv'
<1> SUFFICES ASSUME ListInv, [Next]_vars PROVE ListInv'
  OBVIOUS
<1>1. CASE UNCHANGED vars
  BY <1>1 DEF vars, ListInv, ListTypeOK, MomentsGrow, ListedBehindCursor,
              NothingMissed, Stayed
<1> QED BY <1>1, ConversationStep, StartScanStep, ReadCursorStep, ReadPageStep,
           RetryPageStep DEF Next

\* A walk through the pages of listConversations never repeats an id and never
\* leaves one behind its cursor, whatever is committed between two requests.
THEOREM ListInvariant == Spec => []ListInv
  BY ListInitHolds, ListStep, PTL DEF Spec

\* A finished walk has listed every conversation that was there when its snapshot
\* was taken, and nothing twice, for every page limit and any number of senders
\* that create conversations meanwhile.
THEOREM ListListedExactlyOnce == Spec => []ListedExactlyOnce
<1>1. ListInv => ListedExactlyOnce
  <2> SUFFICES ASSUME ListInv PROVE ListedExactlyOnce
    OBVIOUS
  <2>1. IsInjective(scan.listed)
    BY DEF ListInv, ListedBehindCursor
  <2>2. ASSUME scan.at = "done", NEW c \in UNION moments, \A M \in moments : c \in M
        PROVE  c \in ToSet(scan.listed)
    <3>1. c \in Stayed
      BY <2>2 DEF ListInv, MomentsGrow, Stayed
    <3> QED BY <2>2, <3>1 DEF ListInv, NothingMissed
  <2> QED BY <2>1, <2>2 DEF ListedExactlyOnce
<1> QED BY <1>1, ListInvariant, PTL

HIDE ConversationListAssumption
-----------------------------------------------------------------------------
(* MessageHistory                                                           *)

USE MessageHistoryAssumption

\* The sequence s lists the n messages after the first k.
Lists(s, k, n) == s \in Seq(Nat \ {0}) /\ Len(s) = n /\ \A i \in 1 .. n : s[i] = k + i

\* A conversation with n messages has the sequence numbers 1 .. n.
LEMMA AllMessages ==
  ASSUME NEW n \in Nat
  PROVE  Lists([i \in 1 .. n |-> i], 0, n)
<1> DEFINE s == [i \in 1 .. n |-> i]
<1>1. s \in [1 .. n -> Nat \ {0}]
  OBVIOUS
<1>2. \A i \in 1 .. n : s[i] = 0 + i
  OBVIOUS
<1> HIDE DEF s
<1>3. s \in Seq(Nat \ {0}) /\ Len(s) = n
  BY <1>1, FunctionSequence
<1> QED BY <1>2, <1>3 DEF Lists, s

\* What Reverse does to a sequence (the order of the query and of the answer).
LEMMA ReversedIs ==
  ASSUME NEW S, NEW s \in Seq(S)
  PROVE  /\ Reverse(s) \in Seq(S) /\ Len(Reverse(s)) = Len(s)
         /\ \A i \in 1 .. Len(s) : Reverse(s)[i] = s[Len(s) - i + 1]
<1> DEFINE n == Len(s)
           t == [i \in 1 .. n |-> s[(n - i) + 1]]
<1>1. n \in Nat /\ \A i \in 1 .. n : (n - i) + 1 \in 1 .. n
  OBVIOUS
<1>2. \A i \in 1 .. n : s[i] \in S
  OBVIOUS
<1>3. t \in [1 .. n -> S]
  <2> HIDE DEF n
  <2> QED BY <1>1, <1>2
<1>4. Reverse(s) = t
  BY DEF Reverse
<1> HIDE DEF t
<1>5. t \in Seq(S) /\ Len(t) = n
  BY <1>1, <1>3, FunctionSequence
<1>6. \A i \in 1 .. n : t[i] = s[n - i + 1]
  BY <1>1 DEF t
<1> QED BY <1>4, <1>5, <1>6

\* What cutting the rows to the page size leaves.
LEMMA FirstRowsIs ==
  ASSUME NEW S, NEW s \in Seq(S), NEW n \in Nat
  PROVE  LET m == IF Len(s) < n THEN Len(s) ELSE n IN
         /\ FirstRows(s, n) \in Seq(S) /\ Len(FirstRows(s, n)) = m
         /\ \A i \in 1 .. m : FirstRows(s, n)[i] = s[i]
<1> DEFINE m == IF Len(s) < n THEN Len(s) ELSE n
<1>1. m \in 0 .. Len(s) /\ Len(s) \in Nat
  OBVIOUS
<1>2. FirstRows(s, n) = SubSeq(s, 1, m)
  BY DEF FirstRows
<1> HIDE DEF m
<1>3. \A i \in 1 .. m : s[i] \in S
  BY <1>1
<1>4. /\ SubSeq(s, 1, m) \in Seq(S) /\ Len(SubSeq(s, 1, m)) = IF 1 <= m THEN m - 1 + 1 ELSE 0
      /\ \A i \in 1 .. m - 1 + 1 : SubSeq(s, 1, m)[i] = s[1 + i - 1]
  BY <1>1, <1>3, SubSeqProperties
<1>5. Len(SubSeq(s, 1, m)) = m /\ \A i \in 1 .. m : SubSeq(s, 1, m)[i] = s[i]
  BY <1>1, <1>4
<1> QED BY <1>2, <1>4, <1>5 DEF m

\* The page that ends with message n.
LEMMA BackwardPage ==
  ASSUME NEW n \in Nat
  PROVE  LET rows == Reverse([i \in 1 .. n |-> i])
             m == IF n < PageSize THEN n ELSE PageSize
         IN  /\ Len(rows) = n
             /\ Lists(Reverse(FirstRows(rows, PageSize)), n - m, m)
<1> DEFINE s == [i \in 1 .. n |-> i]
           rows == Reverse(s)
           m == IF n < PageSize THEN n ELSE PageSize
           queried == FirstRows(rows, PageSize)
           page == Reverse(queried)
<1>1. Lists(s, 0, n)
  BY AllMessages
<1>2. m \in Nat /\ m <= n
  OBVIOUS
<1> HIDE DEF s, m
<1>3. s \in Seq(Nat \ {0}) /\ Len(s) = n /\ \A i \in 1 .. n : s[i] = i
  BY <1>1 DEF Lists
<1>4. rows \in Seq(Nat \ {0}) /\ Len(rows) = n /\ \A i \in 1 .. n : rows[i] = s[n - i + 1]
  BY <1>3, ReversedIs
<1>5. \A i \in 1 .. n : rows[i] = n - i + 1
  BY <1>3, <1>4
<1> HIDE DEF rows
<1>6. queried \in Seq(Nat \ {0}) /\ Len(queried) = m /\ \A i \in 1 .. m : queried[i] = rows[i]
  BY <1>4, FirstRowsIs DEF m
<1> HIDE DEF queried
<1>7. page \in Seq(Nat \ {0}) /\ Len(page) = m /\ \A i \in 1 .. m : page[i] = queried[m - i + 1]
  BY <1>6, ReversedIs
<1> HIDE DEF page
<1>8. ASSUME NEW i \in 1 .. m  PROVE page[i] = n - m + i
  <2>1. m - i + 1 \in 1 .. m /\ m - i + 1 \in 1 .. n
    BY <1>2
  <2>2. page[i] = rows[m - i + 1]
    BY <1>6, <1>7, <2>1
  <2> QED BY <1>2, <1>5, <2>1, <2>2
<1>9. Lists(page, n - m, m)
  BY <1>7, <1>8 DEF Lists
<1> QED BY <1>4, <1>9 DEF page, queried, rows, m, s

\* The page after message k.
LEMMA ForwardPage ==
  ASSUME NEW n \in Nat, NEW k \in 0 .. n
  PROVE  LET rows == SubSeq([i \in 1 .. n |-> i], k + 1, n)
             m == IF n - k < PageSize THEN n - k ELSE PageSize
         IN  /\ Len(rows) = n - k
             /\ Lists(FirstRows(rows, PageSize), k, m)
<1> DEFINE s == [i \in 1 .. n |-> i]
           rows == SubSeq(s, k + 1, n)
           m == IF n - k < PageSize THEN n - k ELSE PageSize
           page == FirstRows(rows, PageSize)
<1>1. Lists(s, 0, n)
  BY AllMessages
<1>2. m \in Nat /\ m <= n - k
  OBVIOUS
<1> HIDE DEF s, m
<1>3. s \in Seq(Nat \ {0}) /\ Len(s) = n /\ \A i \in 1 .. n : s[i] = i
  BY <1>1 DEF Lists
<1>4. \A i \in k + 1 .. n : s[i] \in Nat \ {0}
  BY <1>3
<1>5. /\ rows \in Seq(Nat \ {0}) /\ Len(rows) = IF k + 1 <= n THEN n - (k + 1) + 1 ELSE 0
      /\ \A i \in 1 .. n - (k + 1) + 1 : rows[i] = s[k + 1 + i - 1]
  BY <1>4, SubSeqProperties
<1>6. Len(rows) = n - k /\ \A i \in 1 .. n - k : rows[i] = k + i
  BY <1>3, <1>5
<1> HIDE DEF rows
<1>7. page \in Seq(Nat \ {0}) /\ Len(page) = m /\ \A i \in 1 .. m : page[i] = rows[i]
  BY <1>5, <1>6, FirstRowsIs DEF m
<1> HIDE DEF page
<1>8. Lists(page, k, m)
  BY <1>2, <1>6, <1>7 DEF Lists
<1> QED BY <1>6, <1>8 DEF page, rows, m, s

\* Two adjoining stretches of messages make one.
LEMMA ListsConcat ==
  ASSUME NEW s, NEW t, NEW k \in Nat, NEW n \in Nat, NEW m \in Nat,
         Lists(s, k, n), Lists(t, k + n, m)
  PROVE  Lists(s \o t, k, n + m)
<1>1. /\ s \in Seq(Nat \ {0}) /\ Len(s) = n /\ \A i \in 1 .. n : s[i] = k + i
      /\ t \in Seq(Nat \ {0}) /\ Len(t) = m /\ \A i \in 1 .. m : t[i] = k + n + i
  BY DEF Lists
<1>2. /\ s \o t \in Seq(Nat \ {0}) /\ Len(s \o t) = n + m
      /\ \A i \in 1 .. n + m : (s \o t)[i] = IF i <= n THEN s[i] ELSE t[i - n]
  BY <1>1, ConcatProperties
<1>3. ASSUME NEW i \in 1 .. n + m  PROVE (s \o t)[i] = k + i
  <2>1. CASE i <= n
    BY <1>1, <1>2, <2>1
  <2>2. CASE ~(i <= n)
    <3>1. i - n \in 1 .. m
      BY <2>2
    <3> QED BY <1>1, <1>2, <2>2, <3>1
  <2> QED BY <2>1, <2>2
<1> QED BY <1>2, <1>3 DEF Lists

\* What HistoryUnbroken says of one view.
Unbroken(v, last) ==
    LET shown == v.shown IN
    /\ \A i \in 1 .. Len(shown) : shown[i] = shown[1] + i - 1
    /\ shown # <<>> => Last(shown) <= last /\ (shown[1] = 1 <=> ~v.hasMoreBefore)

\* The same, for a view that shows something, as the messages it lists.
Shows(v, last) ==
    \E k, n \in Nat : /\ Lists(v.shown, k, n) /\ n > 0 /\ k + n <= last
                      /\ k = 0 <=> ~v.hasMoreBefore

\* A view without a gap shows a stretch of messages.
LEMMA UnbrokenShows ==
  ASSUME NEW v \in View, NEW last \in Nat, v.shown # <<>>, Unbroken(v, last)
  PROVE  Shows(v, last)
<1> DEFINE s == v.shown
           n == Len(s)
           k == s[1] - 1
<1>1. s \in Seq(Nat \ {0}) /\ v.hasMoreBefore \in BOOLEAN
  BY DEF View
<1>2. n \in Nat /\ n > 0
  BY <1>1
<1>3. s[1] \in Nat \ {0} /\ k \in Nat
  BY <1>1, <1>2
<1>4. \A i \in 1 .. n : s[i] = k + i
  <2>1. \A i \in 1 .. n : s[i] = s[1] + i - 1
    BY DEF Unbroken
  <2>2. PICK h \in Nat : h = s[1]
    BY <1>3
  <2> QED BY <1>2, <2>1, <2>2
<1>5. k + n <= last
  <2>1. s[n] <= last
    BY DEF Unbroken, Last
  <2>2. s[n] = k + n
    BY <1>2, <1>4
  <2> QED BY <2>1, <2>2
<1>6. k = 0 <=> ~v.hasMoreBefore
  BY <1>3 DEF Unbroken
<1>7. Lists(s, k, n)
  BY <1>1, <1>4 DEF Lists
<1> HIDE DEF s, n, k
<1> QED BY <1>2, <1>3, <1>5, <1>6, <1>7 DEF Shows, s

\* A view that shows a stretch of messages has no gap.
LEMMA ShowsUnbroken ==
  ASSUME NEW v, NEW last \in Nat, Shows(v, last)
  PROVE  v.shown # <<>> /\ Unbroken(v, last)
<1>1. PICK k \in Nat, n \in Nat : /\ Lists(v.shown, k, n) /\ n > 0 /\ k + n <= last
                                  /\ k = 0 <=> ~v.hasMoreBefore
  BY DEF Shows
<1>2. PICK s \in Seq(Nat \ {0}) : s = v.shown /\ Len(s) = n /\ \A i \in 1 .. n : s[i] = k + i
  BY <1>1 DEF Lists
<1>3. s[1] = k + 1 /\ s[n] = k + n /\ s # <<>>
  BY <1>1, <1>2
<1>4. \A i \in 1 .. Len(s) : s[i] = s[1] + i - 1
  BY <1>2, <1>3
<1>5. Last(s) <= last /\ (s[1] = 1 <=> ~v.hasMoreBefore)
  BY <1>1, <1>2, <1>3 DEF Last
<1> QED BY <1>2, <1>3, <1>4, <1>5 DEF Unbroken

\* Appending changes the last message,
LEMMA LastOfConcat ==
  ASSUME NEW S, NEW s \in Seq(S), NEW t \in Seq(S), t # <<>>
  PROVE  Last(s \o t) = Last(t)
<1>1. /\ Len(s \o t) = Len(s) + Len(t)
      /\ \A i \in 1 .. Len(s) + Len(t) : (s \o t)[i] = IF i <= Len(s) THEN s[i] ELSE t[i - Len(s)]
  BY ConcatProperties
<1>2. Len(s) \in Nat /\ Len(t) \in Nat /\ Len(t) > 0
  OBVIOUS
<1>3. (s \o t)[Len(s) + Len(t)] = t[Len(s) + Len(t) - Len(s)] /\ Len(s) + Len(t) - Len(s) = Len(t)
  BY <1>1, <1>2
<1> QED BY <1>1, <1>3 DEF Last

\* and not the first.
LEMMA HeadOfConcat ==
  ASSUME NEW S, NEW s \in Seq(S), NEW t \in Seq(S), s # <<>>
  PROVE  Head(s \o t) = Head(s)
<1>1. /\ s \o t \in Seq(S) /\ Len(s \o t) = Len(s) + Len(t)
      /\ \A i \in 1 .. Len(s) + Len(t) : (s \o t)[i] = IF i <= Len(s) THEN s[i] ELSE t[i - Len(s)]
  BY ConcatProperties
<1>2. Len(s) \in Nat /\ Len(t) \in Nat /\ Len(s) > 0
  OBVIOUS
<1>3. (s \o t)[1] = s[1] /\ Len(s \o t) > 0
  BY <1>1, <1>2
<1> QED BY <1>1, <1>2, <1>3

\* The first page, the pages before it and the pages after it.
LEMMA LatestShows ==
  ASSUME NEW c, NEW v, HistoryTypeOK, c.peer \in Peers, c.direction = "latest",
         last_seq[c.peer] > 0, v.shown = Messages(c), v.hasMoreBefore = HasMore(c)
  PROVE  Shows(v, last_seq[c.peer])
<1>1. PICK n \in Nat : n = last_seq[c.peer] /\ n > 0
  BY DEF HistoryTypeOK
<1> DEFINE rows == Reverse([i \in 1 .. n |-> i])
           m == IF n < PageSize THEN n ELSE PageSize
<1>2. Len(rows) = n /\ Lists(Reverse(FirstRows(rows, PageSize)), n - m, m)
  BY BackwardPage
<1>3. Rows(c) = rows
  BY <1>1 DEF Rows
<1>4. v.shown = Reverse(FirstRows(rows, PageSize)) /\ v.hasMoreBefore = (n > PageSize)
  BY <1>2, <1>3 DEF Messages, HasMore
<1>5. m \in Nat /\ m > 0 /\ n - m \in Nat /\ (n - m) + m <= n /\ (n - m = 0 <=> ~(n > PageSize))
  BY <1>1
<1> HIDE DEF rows, m
<1> QED BY <1>1, <1>2, <1>4, <1>5 DEF Shows

\* An older page is put in front of what is shown without a gap.
LEMMA BeforeShows ==
  ASSUME NEW c, NEW v, NEW w, NEW last \in Nat, c.direction = "before",
         Shows(v, last), c.cursor.seq = Head(v.shown),
         w.shown = Messages(c) \o v.shown, w.hasMoreBefore = HasMore(c)
  PROVE  Shows(w, last) /\ Last(w.shown) = Last(v.shown)
<1>1. PICK k \in Nat, n \in Nat : /\ Lists(v.shown, k, n) /\ n > 0 /\ k + n <= last
  BY DEF Shows
<1>2. PICK s \in Seq(Nat \ {0}) : s = v.shown /\ Len(s) = n /\ \A i \in 1 .. n : s[i] = k + i
  BY <1>1 DEF Lists
<1>3. Head(s) = k + 1
  BY <1>1, <1>2
<1> DEFINE rows == Reverse([i \in 1 .. k |-> i])
           m == IF k < PageSize THEN k ELSE PageSize
           page == Reverse(FirstRows(rows, PageSize))
<1>4. Len(rows) = k /\ Lists(page, k - m, m)
  BY BackwardPage
<1>5. Rows(c) = rows
  <2>1. c.cursor.seq = k + 1 /\ (k + 1) - 1 = k
    BY <1>2, <1>3
  <2>2. Rows(c) = Reverse([i \in 1 .. (c.cursor.seq - 1) |-> i])
    BY DEF Rows
  <2> QED BY <2>1, <2>2
<1>6. w.shown = page \o s /\ w.hasMoreBefore = (k > PageSize)
  BY <1>2, <1>4, <1>5 DEF Messages, HasMore
<1>7. /\ m \in Nat /\ k - m \in Nat /\ (k - m) + m = k
      /\ (k - m) + (m + n) <= last /\ m + n \in Nat /\ m + n > 0
      /\ (k - m = 0 <=> ~(k > PageSize))
  BY <1>1
<1> HIDE DEF rows, m, page
<1>8. Lists(page \o s, k - m, m + n)
  <2>1. PICK l \in Nat : l = k - m
    BY <1>7
  <2>2. Lists(page, l, m) /\ Lists(s, l + m, n)
    BY <1>1, <1>2, <1>4, <1>7, <2>1
  <2> QED BY <1>7, <2>1, <2>2, ListsConcat
<1>9. Last(page \o s) = Last(s)
  <2>1. page \in Seq(Nat \ {0}) /\ s # <<>>
    BY <1>1, <1>2, <1>4 DEF Lists
  <2> QED BY <2>1, LastOfConcat
<1>10. Shows(w, last)
  BY <1>6, <1>7, <1>8 DEF Shows
<1> QED BY <1>2, <1>6, <1>9, <1>10

\* A newer page is put behind what is shown without a gap.
LEMMA AfterShows ==
  ASSUME NEW c, NEW v, NEW w, HistoryTypeOK, c.peer \in Peers, c.direction = "after",
         Shows(v, last_seq[c.peer]), c.cursor.seq = Last(v.shown),
         w.shown = v.shown \o Messages(c), w.hasMoreBefore = v.hasMoreBefore
  PROVE  Shows(w, last_seq[c.peer]) /\ Head(w.shown) = Head(v.shown)
<1>0. PICK last \in Nat : last = last_seq[c.peer]
  BY DEF HistoryTypeOK
<1>1. PICK k \in Nat, n \in Nat : /\ Lists(v.shown, k, n) /\ n > 0 /\ k + n <= last
                                  /\ k = 0 <=> ~v.hasMoreBefore
  BY <1>0 DEF Shows
<1>2. PICK s \in Seq(Nat \ {0}) : s = v.shown /\ Len(s) = n /\ \A i \in 1 .. n : s[i] = k + i
  BY <1>1 DEF Lists
<1>3. PICK b \in 0 .. last : b = k + n /\ Last(s) = b
  BY <1>1, <1>2 DEF Last
<1> DEFINE rows == SubSeq([i \in 1 .. last |-> i], b + 1, last)
           m == IF last - b < PageSize THEN last - b ELSE PageSize
           page == FirstRows(rows, PageSize)
<1>4. Lists(page, b, m)
  BY ForwardPage
<1>5. Rows(c) = rows
  <2>1. c.cursor.seq = b
    BY <1>2, <1>3
  <2>2. Rows(c) = SubSeq([i \in 1 .. last_seq[c.peer] |-> i], c.cursor.seq + 1, last_seq[c.peer])
    BY DEF Rows
  <2> QED BY <1>0, <2>1, <2>2
<1>6. w.shown = s \o page
  BY <1>2, <1>5 DEF Messages
<1>7. m \in Nat /\ b + m <= last /\ n + m \in Nat /\ n + m > 0 /\ k + (n + m) <= last
  BY <1>1, <1>3
<1> HIDE DEF rows, m, page
<1>8. Lists(s \o page, k, n + m)
  BY <1>1, <1>2, <1>3, <1>4, <1>7, ListsConcat
<1>9. Head(s \o page) = Head(s)
  <2>1. page \in Seq(Nat \ {0}) /\ s # <<>>
    BY <1>1, <1>2, <1>4 DEF Lists
  <2> QED BY <2>1, HeadOfConcat
<1>10. Shows(w, last_seq[c.peer])
  BY <1>0, <1>1, <1>6, <1>7, <1>8 DEF Shows
<1> QED BY <1>2, <1>6, <1>9, <1>10

\* Nothing is sent and nothing is shown yet.
LEMMA HistoryInitHolds == HistoryInit => HistoryInv
<1> SUFFICES ASSUME HistoryInit  PROVE HistoryInv
  OBVIOUS
<1>1. /\ EmptyView \in View /\ EmptyView.shown = <<>> /\ EmptyView.hasMoreBefore = FALSE
  <2>1. <<>> \in Seq(Nat \ {0})
    OBVIOUS
  <2> QED BY <2>1 DEF EmptyView, View
<1>2. HistoryTypeOK
  BY <1>1 DEF HistoryInit, HistoryTypeOK
<1>3. \A p \in Peers : view[p].shown = <<>> /\ ~view[p].hasMoreBefore
  BY <1>1 DEF HistoryInit
<1>4. HistoryUnbroken /\ MoreThanNothing
  BY <1>3 DEF HistoryUnbroken, MoreThanNothing
<1> QED BY <1>2, <1>4 DEF HistoryInv, HistoryInit, OneCallEach

\* A message is sent.
LEMMA SendToStep ==
  ASSUME HistoryInv, NEW p \in Peers, SendTo(p)
  PROVE  HistoryInv'
<1>1. /\ last_seq' = [last_seq EXCEPT ![p] = last_seq[p] + 1] /\ UNCHANGED <<view, calls>>
  BY DEF SendTo
<1>2. HistoryTypeOK' /\ \A q \in Peers : last_seq[q] <= last_seq'[q] /\ last_seq[q] \in Nat
                                         /\ last_seq'[q] \in Nat
  BY <1>1 DEF HistoryInv, HistoryTypeOK
<1>3. OneCallEach' /\ MoreThanNothing'
  BY <1>1 DEF HistoryInv, OneCallEach, MoreThanNothing
<1>4. ASSUME NEW c \in calls  PROVE CallFits(c)'
  <2>1. c.peer \in Peers
    BY DEF HistoryInv, HistoryTypeOK, Call
  <2>2. Belongs(c) => Belongs(c)'
    BY <1>2, <2>1 DEF Belongs
  <2> QED BY <1>1, <2>2 DEF HistoryInv, CallFits
<1>5. HistoryUnbroken'
  <2> SUFFICES ASSUME NEW q \in Peers  PROVE Unbroken(view[q], last_seq'[q])
    BY <1>1 DEF HistoryUnbroken, Unbroken
  <2>1. Unbroken(view[q], last_seq[q]) /\ view[q] \in View
    BY DEF HistoryInv, HistoryUnbroken, Unbroken, HistoryTypeOK
  <2>2. PICK v \in View, n \in Nat, m \in Nat : v = view[q] /\ n = last_seq[q] /\ m = last_seq'[q]
    BY <1>2, <2>1
  <2>3. CASE v.shown = <<>>
    BY <2>1, <2>2, <2>3 DEF Unbroken
  <2>4. CASE v.shown # <<>>
    <3>1. Shows(v, n)
      BY <2>1, <2>2, <2>4, UnbrokenShows
    <3>2. Shows(v, m)
      <4>1. n <= m
        BY <1>2, <2>2
      <4> QED BY <3>1, <4>1 DEF Shows
    <3> QED BY <2>2, <3>2, ShowsUnbroken
  <2> QED BY <2>3, <2>4
<1> QED BY <1>1, <1>2, <1>3, <1>4, <1>5 DEF HistoryInv

\* Requests come and go, and what is shown stays.
LEMMA CallsStep ==
  ASSUME HistoryInv, UNCHANGED <<last_seq, view>>, calls' \subseteq Call,
         \A c, d \in calls' : c.peer = d.peer /\ c.direction = d.direction => c = d,
         \A c \in calls' : CallFits(c)
  PROVE  HistoryInv'
<1>1. HistoryTypeOK' /\ OneCallEach' /\ MoreThanNothing' /\ HistoryUnbroken'
  BY DEF HistoryInv, HistoryTypeOK, OneCallEach, MoreThanNothing, HistoryUnbroken
<1>2. \A c \in calls' : CallFits(c)'
  BY DEF CallFits, Belongs
<1> QED BY <1>1, <1>2 DEF HistoryInv

\* The reader asks for a page.
LEMMA AskStep ==
  ASSUME HistoryInv, NEW p \in Peers, AskLatest(p) \/ AskBefore(p) \/ AskAfter(p)
  PROVE  HistoryInv'
<1>1. ASSUME NEW direction \in Directions,
             NEW cursor \in [conversation : Peers \cup {"none"}, seq : Nat],
             Ask(p, direction, cursor),
             direction = "latest" => view[p].shown = <<>>,
             direction # "latest" /\ cursor.conversation = p =>
               /\ view[p].shown # <<>>
               /\ cursor.seq = IF direction = "before" THEN Head(view[p].shown)
                                                       ELSE Last(view[p].shown)
      PROVE  HistoryInv'
  <2> DEFINE call == [peer |-> p, direction |-> direction, cursor |-> cursor, at |-> "resolve"]
  <2>1. /\ calls' = calls \cup {call} /\ UNCHANGED <<last_seq, view>>
        /\ \A c \in calls : c.peer # p \/ c.direction # direction
    BY <1>1 DEF Ask
  <2>2. call \in Call /\ call.peer = p /\ call.direction = direction /\ call.cursor = cursor
        /\ call.at = "resolve"
    BY DEF Call
  <2> HIDE DEF call
  <2>3. CallFits(call)
    BY <1>1, <2>2 DEF CallFits
  <2>4. \A c, d \in calls' : c.peer = d.peer /\ c.direction = d.direction => c = d
    BY <2>1, <2>2 DEF HistoryInv, OneCallEach
  <2>5. calls' \subseteq Call /\ \A c \in calls' : CallFits(c)
    BY <2>1, <2>2, <2>3 DEF HistoryInv, HistoryTypeOK
  <2> QED BY <2>1, <2>4, <2>5, CallsStep
<1>2. CASE AskLatest(p)
  <2>1. NoCursor \in [conversation : Peers \cup {"none"}, seq : Nat]
    BY DEF NoCursor
  <2> QED BY <1>1, <1>2, <2>1 DEF AskLatest, Directions
<1>3. ASSUME NEW q \in Peers, view[q].shown # <<>>
      PROVE  /\ Head(view[q].shown) \in Nat /\ Last(view[q].shown) \in Nat
  <2>1. view[q].shown \in Seq(Nat \ {0})
    BY DEF HistoryInv, HistoryTypeOK, View
  <2> QED BY <1>3, <2>1 DEF Last
<1>4. ASSUME NEW q \in Peers, NEW direction \in {"before", "after"}, view[q].shown # <<>>,
             Ask(p, direction, Cursor(q, direction))
      PROVE  HistoryInv'
  <2>1. PICK cursor \in [conversation : Peers \cup {"none"}, seq : Nat] :
           /\ cursor = Cursor(q, direction) /\ cursor.conversation = q
           /\ cursor.seq = IF direction = "before" THEN Head(view[q].shown)
                                                   ELSE Last(view[q].shown)
    BY <1>3, <1>4 DEF Cursor
  <2>2. direction \in Directions /\ direction # "latest"
    BY DEF Directions
  <2> QED BY <1>1, <1>4, <2>1, <2>2
<1>5. CASE AskBefore(p)
  BY <1>4, <1>5 DEF AskBefore, HistoryInv, MoreThanNothing
<1>6. CASE AskAfter(p)
  BY <1>4, <1>6 DEF AskAfter
<1> QED BY <1>2, <1>5, <1>6

\* A request is checked, or lost.
LEMMA ResolveStep ==
  ASSUME HistoryInv, NEW c \in calls, Resolve(c) \/ LoseCall(c)
  PROVE  HistoryInv'
<1>0. UNCHANGED <<last_seq, view>>
  BY DEF Resolve, LoseCall
<1>1. /\ calls \subseteq Call /\ \A d \in calls : CallFits(d)
      /\ \A b, d \in calls : b.peer = d.peer /\ b.direction = d.direction => b = d
  BY DEF HistoryInv, HistoryTypeOK, OneCallEach
<1>2. CASE calls' = calls \ {c}
  BY <1>0, <1>1, <1>2, CallsStep
<1>3. CASE calls' = (calls \ {c}) \cup {[c EXCEPT !.at = "query"]} /\ Belongs(c)
  <2> DEFINE d == [c EXCEPT !.at = "query"]
  <2>1. c \in Call
    BY <1>1
  <2>2. d \in Call /\ d.peer = c.peer /\ d.direction = c.direction /\ d.cursor = c.cursor
    BY <2>1 DEF Call
  <2> HIDE DEF d
  <2>3. CallFits(d)
    <3>1. Belongs(d)
      BY <1>3, <2>2 DEF Belongs
    <3>2. CallFits(c)
      BY <1>1
    <3> QED BY <2>2, <3>1, <3>2 DEF CallFits
  <2>4. calls' = (calls \ {c}) \cup {d}
    BY <1>3 DEF d
  <2>5. \A a, b \in calls' : a.peer = b.peer /\ a.direction = b.direction => a = b
    BY <1>1, <2>2, <2>4
  <2> QED BY <1>0, <1>1, <2>2, <2>3, <2>4, <2>5, CallsStep
<1> QED BY <1>2, <1>3 DEF Resolve, LoseCall

\* The reader adds a page.
LEMMA ReadStep ==
  ASSUME HistoryInv, NEW c \in calls, ReadMessages(c)
  PROVE  HistoryInv'
<1>0. /\ c \in Call /\ CallFits(c) /\ HistoryTypeOK /\ c.at = "query" /\ Belongs(c)
  BY DEF HistoryInv, HistoryTypeOK, CallFits, ReadMessages
<1>1. c.peer \in Peers /\ c.direction \in Directions
  BY <1>0 DEF Call
<1>2. PICK p \in Peers, v \in View, last \in Nat :
         p = c.peer /\ v = view[p] /\ last = last_seq[p] /\ last > 0
  BY <1>0, <1>1 DEF HistoryTypeOK, Belongs
<1> DEFINE w == view'[p]
<1>3. /\ calls' = calls \ {c} /\ last_seq' = last_seq
      /\ \A q \in Peers : q # p => view'[q] = view[q]
      /\ c.direction = "latest" =>
           w = [shown |-> Messages(c), hasMoreBefore |-> HasMore(c), hasMoreAfter |-> FALSE]
      /\ c.direction = "before" =>
           w = [v EXCEPT !.shown = Messages(c) \o v.shown, !.hasMoreBefore = HasMore(c)]
      /\ c.direction = "after" =>
           w = [v EXCEPT !.shown = v.shown \o Messages(c), !.hasMoreAfter = HasMore(c)]
      /\ view' = [view EXCEPT ![p] = w]
  <2> DEFINE x == CASE c.direction = "latest" ->
                         [shown |-> Messages(c), hasMoreBefore |-> HasMore(c), hasMoreAfter |-> FALSE]
                    [] c.direction = "before" ->
                         [v EXCEPT !.shown = Messages(c) \o v.shown, !.hasMoreBefore = HasMore(c)]
                    [] c.direction = "after" ->
                         [v EXCEPT !.shown = v.shown \o Messages(c), !.hasMoreAfter = HasMore(c)]
  <2>1. calls' = calls \ {c} /\ last_seq' = last_seq
    BY DEF ReadMessages
  <2>2. view' = [view EXCEPT ![p] = x]
    BY <1>2 DEF ReadMessages
  <2>3. /\ c.direction = "latest" =>
             x = [shown |-> Messages(c), hasMoreBefore |-> HasMore(c), hasMoreAfter |-> FALSE]
        /\ c.direction = "before" =>
             x = [v EXCEPT !.shown = Messages(c) \o v.shown, !.hasMoreBefore = HasMore(c)]
        /\ c.direction = "after" =>
             x = [v EXCEPT !.shown = v.shown \o Messages(c), !.hasMoreAfter = HasMore(c)]
    OBVIOUS
  <2> HIDE DEF x
  <2>4. w = x /\ view' = [view EXCEPT ![p] = w] /\ \A q \in Peers : q # p => view'[q] = view[q]
    BY <1>0, <2>2 DEF HistoryTypeOK
  <2> HIDE DEF w
  <2> QED BY <2>1, <2>3, <2>4
<1>4. HasMore(c) \in BOOLEAN
  BY DEF HasMore
<1>5. c.direction # "latest" =>
        /\ v.shown # <<>> /\ Shows(v, last)
        /\ c.cursor.seq = IF c.direction = "before" THEN Head(v.shown) ELSE Last(v.shown)
  <2>1. Unbroken(v, last)
    BY <1>2 DEF HistoryInv, HistoryUnbroken, Unbroken
  <2> QED BY <1>0, <1>2, <2>1, UnbrokenShows DEF CallFits, Belongs
<1>6. /\ Shows(w, last) /\ w.hasMoreBefore \in BOOLEAN /\ w.hasMoreAfter \in BOOLEAN
      /\ c.direction = "before" => Last(w.shown) = Last(v.shown)
      /\ c.direction = "after" => Head(w.shown) = Head(v.shown)
  <2>1. CASE c.direction = "latest"
    <3>1. /\ w.shown = Messages(c) /\ w.hasMoreBefore = HasMore(c) /\ w.hasMoreAfter = FALSE
      BY <1>3, <2>1
    <3>2. PICK x : x = w
      OBVIOUS
    <3>3. Shows(x, last_seq[c.peer])
      BY <1>0, <1>1, <1>2, <2>1, <3>1, <3>2, LatestShows
    <3> QED BY <1>2, <1>4, <2>1, <3>1, <3>2, <3>3
  <2>2. CASE c.direction = "before"
    <3>1. /\ w.shown = Messages(c) \o v.shown /\ w.hasMoreBefore = HasMore(c)
          /\ w.hasMoreAfter = v.hasMoreAfter
      BY <1>3, <2>2 DEF View
    <3>2. PICK x : x = w
      OBVIOUS
    <3>3. Shows(x, last) /\ Last(x.shown) = Last(v.shown)
      BY <1>5, <2>2, <3>1, <3>2, BeforeShows
    <3>4. v.hasMoreAfter \in BOOLEAN
      BY DEF View
    <3> QED BY <1>4, <2>2, <3>1, <3>2, <3>3, <3>4
  <2>3. CASE c.direction = "after"
    <3>1. /\ w.shown = v.shown \o Messages(c) /\ w.hasMoreBefore = v.hasMoreBefore
          /\ w.hasMoreAfter = HasMore(c)
      BY <1>3, <2>3 DEF View
    <3>2. PICK x : x = w
      OBVIOUS
    <3>3. Shows(x, last_seq[c.peer]) /\ Head(x.shown) = Head(v.shown)
      BY <1>0, <1>1, <1>2, <1>5, <2>3, <3>1, <3>2, AfterShows
    <3>4. v.hasMoreBefore \in BOOLEAN
      BY DEF View
    <3> QED BY <1>2, <1>4, <2>3, <3>1, <3>2, <3>3, <3>4
  <2> QED BY <1>1, <2>1, <2>2, <2>3 DEF Directions
<1>7. w \in View
  <2>1. w.shown \in Seq(Nat \ {0})
    BY <1>6 DEF Shows, Lists
  <2>2. w = [shown |-> w.shown, hasMoreBefore |-> w.hasMoreBefore,
             hasMoreAfter |-> w.hasMoreAfter]
    BY <1>1, <1>3 DEF View, Directions
  <2> HIDE DEF w
  <2> QED BY <1>6, <2>1, <2>2 DEF View
<1>8. w.shown # <<>> /\ Unbroken(w, last)
  <2>1. PICK x : x = w
    OBVIOUS
  <2> QED BY <1>6, <2>1, ShowsUnbroken
<1>9. HistoryTypeOK'
  BY <1>0, <1>3, <1>7 DEF HistoryTypeOK
<1>10. OneCallEach' /\ MoreThanNothing'
  BY <1>3, <1>8 DEF HistoryInv, OneCallEach, MoreThanNothing
<1>11. HistoryUnbroken'
  <2> SUFFICES ASSUME NEW q \in Peers  PROVE Unbroken(view'[q], last_seq[q])
    BY <1>3 DEF HistoryUnbroken, Unbroken
  <2>1. Unbroken(view[q], last_seq[q])
    BY DEF HistoryInv, HistoryUnbroken, Unbroken
  <2> QED BY <1>2, <1>3, <1>8, <2>1
<1>12. ASSUME NEW d \in calls'  PROVE CallFits(d)'
  <2>1. d \in calls /\ d # c /\ CallFits(d) /\ d \in Call
    BY <1>3 DEF HistoryInv, HistoryTypeOK
  <2>2. Belongs(d) => Belongs(d)'
    BY <1>3 DEF Belongs
  <2>3. CASE d.peer # p
    <3>1. view'[d.peer] = view[d.peer]
      BY <1>3, <2>1, <2>3 DEF Call
    <3> QED BY <2>1, <2>2, <3>1 DEF CallFits
  <2>4. CASE d.peer = p
    <3>1. d.direction # c.direction
      BY <1>2, <2>1, <2>4 DEF HistoryInv, OneCallEach
    <3>2. d.direction \in Directions
      BY <2>1 DEF Call
    <3>3. d.direction = "latest" => FALSE
      BY <1>2, <1>5, <2>1, <2>4, <3>1 DEF CallFits
    <3>4. c.direction = "latest" /\ d.cursor.conversation = p => FALSE
      BY <1>0, <1>2, <2>1, <2>4, <3>3 DEF CallFits
    <3>5. ASSUME d.cursor.conversation = p
          PROVE  d.cursor.seq = IF d.direction = "before" THEN Head(w.shown) ELSE Last(w.shown)
      <4>1. d.cursor.seq = IF d.direction = "before" THEN Head(v.shown) ELSE Last(v.shown)
        BY <1>2, <2>1, <2>4, <3>3, <3>5 DEF CallFits
      <4>2. CASE c.direction = "before" /\ d.direction = "after"
        BY <1>6, <4>1, <4>2
      <4>3. CASE c.direction = "after" /\ d.direction = "before"
        BY <1>6, <4>1, <4>3
      <4> QED BY <1>1, <3>1, <3>2, <3>3, <3>4, <3>5, <4>2, <4>3 DEF Directions
    <3> QED BY <1>8, <2>1, <2>2, <2>4, <3>3, <3>5 DEF CallFits
  <2> QED BY <2>3, <2>4
<1> QED BY <1>9, <1>10, <1>11, <1>12 DEF HistoryInv

\* Every send, request and answer preserves the invariant.
LEMMA HistoryStep == HistoryInv /\ [HistoryNext]_historyVars => HistoryInv'
<1> SUFFICES ASSUME HistoryInv, [HistoryNext]_historyVars  PROVE HistoryInv'
  OBVIOUS
<1>1. CASE UNCHANGED historyVars
  <2>1. calls' = calls /\ UNCHANGED <<last_seq, view>>
    BY <1>1 DEF historyVars
  <2> QED BY <2>1, CallsStep DEF HistoryInv, HistoryTypeOK, OneCallEach
<1>2. CASE HistoryNext
  BY <1>2, SendToStep, AskStep, ResolveStep, ReadStep DEF HistoryNext
<1> QED BY <1>1, <1>2

\* A call of getMessages that is under way fits the view it was made for, and
\* every view is a stretch of its conversation without a gap.
THEOREM HistoryInvariant == HistorySpec => []HistoryInv
<1> QED BY HistoryInitHolds, HistoryStep, PTL DEF HistorySpec

\* What a client has put together from pages of getMessages is unbroken, ends
\* within the conversation, and says truly whether older messages exist, for
\* every page size, while messages keep arriving and answers are lost.
THEOREM HistoryReadUnbroken == HistorySpec => []HistoryUnbroken
<1>1. HistoryInv => HistoryUnbroken
  BY DEF HistoryInv
<1> QED BY <1>1, HistoryInvariant, PTL

HIDE MessageHistoryAssumption
-----------------------------------------------------------------------------
(* RateLimit                                                                *)

USE RateLimitAssumption

\* Retry-After in whole seconds is never shorter than the wait.
LEMMA RoundedUp ==
  ASSUME NEW r \in Int, NEW s \in Nat \ {0}
  PROVE  /\ (r + s - 1) \div s \in Int
         /\ ((r + s - 1) \div s) * s >= r
  OBVIOUS

\* The keys a request is counted in are finitely many.
LEMMA RulesTypes ==
  ASSUME NEW a \in Attempts
  PROVE  rulesForAuthRequest(a) \subseteq Keys /\ IsFiniteSet(rulesForAuthRequest(a))
<1>1. IsFiniteSet(a) /\ a \subseteq Dimensions
  OBVIOUS
<1>2. IsFiniteSet(a \cup {Global})
  BY <1>1, FS_AddElement
<1> QED BY <1>1, <1>2 DEF rulesForAuthRequest, Keys

\* A refusal names a time after which no window that refuses is left.
LEMMA RetryAfterCovers ==
  ASSUME RateTypeOK, NEW a \in Attempts, Exceeded(a) # {}
  PROVE  /\ RetryAfterHeader(a) \in Nat
         /\ \A k \in Exceeded(a) : expireAt[k] <= now + RetryAfterHeader(a)
<1> DEFINE E == Exceeded(a)
           f == [k \in E |-> expireAt[k] - now]
           S == {expireAt[k] - now : k \in E}
           seconds == (RetryAfter(a) + Second - 1) \div Second
<1>1. E \subseteq Keys /\ IsFiniteSet(E)
  <2>1. E \subseteq rulesForAuthRequest(a)
    BY DEF Exceeded
  <2> QED BY <2>1, RulesTypes, FS_Subset
<1>2. S \in SUBSET Int /\ S # {}
  BY <1>1 DEF RateTypeOK
<1>3. IsFiniteSet(S)
  <2>1. PICK T, g : T = E /\ g = f
    OBVIOUS
  <2>2. S = {g[k] : k \in T} /\ g \in [T -> S] /\ \A y \in S : \E k \in T : g[k] = y
    BY <2>1
  <2>3. g \in Surjection(T, S)
    BY <2>2 DEF Surjection
  <2> HIDE DEF S, f, E
  <2> QED BY <1>1, <2>1, <2>3, FS_Surjection
<1>4. RetryAfter(a) \in S /\ \A y \in S : RetryAfter(a) >= y
  <2> HIDE DEF S
  <2>1. Max(S) \in S /\ \A y \in S : Max(S) >= y
    BY <1>2, <1>3, MaxIs
  <2> QED BY <2>1 DEF RetryAfter, S
<1>5. RetryAfter(a) \in Int
  <2> HIDE DEF S
  <2> QED BY <1>2, <1>4
<1>6. seconds \in Int /\ seconds * Second >= RetryAfter(a)
  BY <1>5, RoundedUp
<1> HIDE DEF seconds
<1>7. Max({seconds, 1}) \in {seconds, 1} /\ Max({seconds, 1}) >= seconds /\ Max({seconds, 1}) >= 1
  BY <1>6 DEF Max
<1>8. RetryAfterHeader(a) = Max({seconds, 1}) * Second
  BY DEF RetryAfterHeader, seconds
<1>9. ASSUME NEW m \in Int, m >= seconds, m >= 1
      PROVE  m * Second >= seconds * Second /\ m * Second \in Nat
  BY <1>6, <1>9
<1>10. RetryAfterHeader(a) \in Nat /\ RetryAfterHeader(a) >= RetryAfter(a)
  <2>1. PICK m \in Int : m = Max({seconds, 1})
    BY <1>6, <1>7
  <2>2. m * Second >= seconds * Second /\ m * Second \in Nat
    BY <1>7, <1>9, <2>1
  <2> QED BY <1>5, <1>6, <1>8, <2>1, <2>2
<1>11. ASSUME NEW k \in E  PROVE expireAt[k] <= now + RetryAfterHeader(a)
  <2>1. expireAt[k] \in Nat /\ now \in Nat
    BY <1>1 DEF RateTypeOK
  <2>2. RetryAfter(a) >= expireAt[k] - now
    BY <1>4
  <2> QED BY <1>5, <1>10, <2>1, <2>2
<1> QED BY <1>10, <1>11

\* No counter and no refusal yet.
LEMMA RateInitHolds == RateInit => RateInv
  BY DEF RateInit, RateInv, RateTypeOK, WindowsEnd, ToldLongEnough, NoRetry

\* Every admission, refusal, expiry and loss of the counters preserves it.
LEMMA RateStep == RateInv /\ [RateNext]_rateVars => RateInv'
<1> SUFFICES ASSUME RateInv, [RateNext]_rateVars  PROVE RateInv'
  OBVIOUS
<1> USE DEF RateInv
<1>1. CASE UNCHANGED rateVars
  BY <1>1 DEF rateVars, RateTypeOK, WindowsEnd, ToldLongEnough, Exceeded
<1>2. ASSUME NEW a \in Attempts, Admit(a)  PROVE RateInv'
  <2> DEFINE rules == rulesForAuthRequest(a)
  <2>1. /\ now' = now
        /\ count' = [k \in Keys |-> IF k \in rules THEN count[k] + 1 ELSE count[k]]
        /\ expireAt' = [k \in Keys |-> IF k \in rules /\ count[k] = 0
                                         THEN now + RuleWindow[k] ELSE expireAt[k]]
        /\ retryAt' = [b \in Attempts |->
                         IF \E k \in rules \cap rulesForAuthRequest(b) :
                                count'[k] >= RuleLimit[k]
                         THEN NoRetry ELSE retryAt[b]]
    BY <1>2 DEF Admit, Charge
  <2> HIDE DEF rules
  <2>2. RateTypeOK'
    BY <2>1 DEF RateTypeOK
  <2>3. WindowsEnd'
    BY <2>1 DEF RateTypeOK, WindowsEnd
  <2>4. ToldLongEnough'
    <3> SUFFICES ASSUME NEW b \in Attempts, retryAt'[b] # NoRetry, NEW k \in Exceeded(b)'
                 PROVE  expireAt'[k] <= retryAt'[b]
      BY DEF ToldLongEnough
    <3>1. k \in rulesForAuthRequest(b) /\ count'[k] >= RuleLimit[k] /\ k \in Keys
      BY RulesTypes DEF Exceeded
    <3>2. k \notin rules /\ retryAt'[b] = retryAt[b]
      BY <2>1, <3>1
    <3>3. count'[k] = count[k] /\ expireAt'[k] = expireAt[k]
      BY <2>1, <3>1, <3>2
    <3>4. k \in Exceeded(b)
      BY <3>1, <3>3 DEF Exceeded
    <3> QED BY <3>2, <3>3, <3>4 DEF ToldLongEnough
  <2> QED BY <2>2, <2>3, <2>4
<1>3. ASSUME NEW a \in Attempts, Refuse(a)  PROVE RateInv'
  <2>1. /\ Exceeded(a) # {} /\ UNCHANGED <<now, count, expireAt>>
        /\ retryAt' = [retryAt EXCEPT ![a] = now + RetryAfterHeader(a)]
    BY <1>3 DEF Refuse
  <2>2. /\ RetryAfterHeader(a) \in Nat
        /\ \A k \in Exceeded(a) : expireAt[k] <= now + RetryAfterHeader(a)
    BY <2>1, RetryAfterCovers
  <2>3. RateTypeOK' /\ WindowsEnd'
    BY <2>1, <2>2 DEF RateTypeOK, WindowsEnd
  <2>4. \A b \in Attempts : Exceeded(b)' = Exceeded(b)
    BY <2>1 DEF Exceeded
  <2>5. ToldLongEnough'
    BY <2>1, <2>2, <2>4 DEF RateTypeOK, ToldLongEnough
  <2> QED BY <2>3, <2>5
<1>4. CASE Tick
  <2>1. /\ now' = now + 1 /\ retryAt' = retryAt
        /\ count' = [k \in Keys |-> IF count[k] > 0 /\ expireAt[k] < now' THEN 0 ELSE count[k]]
        /\ expireAt' = [k \in Keys |-> IF count'[k] = 0 THEN 0 ELSE expireAt[k]]
    BY <1>4 DEF Tick
  <2>2. RateTypeOK'
    BY <2>1 DEF RateTypeOK
  <2>3. WindowsEnd'
    BY <2>1 DEF RateTypeOK, WindowsEnd
  <2>4. ASSUME NEW b \in Attempts, retryAt'[b] # NoRetry, NEW k \in Exceeded(b)'
        PROVE  expireAt'[k] <= retryAt'[b]
    <3>1. k \in rulesForAuthRequest(b) /\ count'[k] >= RuleLimit[k] /\ k \in Keys
      BY RulesTypes DEF Exceeded
    <3>2. count'[k] = count[k] /\ expireAt'[k] = expireAt[k]
      BY <2>1, <3>1 DEF RateTypeOK
    <3>3. k \in Exceeded(b)
      BY <3>1, <3>2 DEF Exceeded
    <3> QED BY <2>1, <2>4, <3>2, <3>3 DEF ToldLongEnough
  <2> QED BY <2>2, <2>3, <2>4 DEF ToldLongEnough
<1>5. CASE LoseCounters
  <2>1. \A k \in Keys : count'[k] = 0 /\ expireAt'[k] = 0
    BY <1>5 DEF LoseCounters
  <2>2. RateTypeOK'
    BY <1>5 DEF LoseCounters, RateTypeOK
  <2>3. \A b \in Attempts : Exceeded(b)' = {}
    BY <2>1, RulesTypes DEF Exceeded
  <2> QED BY <2>1, <2>2, <2>3 DEF WindowsEnd, ToldLongEnough
<1> QED BY <1>1, <1>2, <1>3, <1>4, <1>5 DEF RateNext

\* A counter of the rate limiter lives in a window that has not ended, and a
\* refused caller was told to wait past the window of every exceeded rule.
THEOREM RateInvariant == RateSpec => []RateInv
<1> QED BY RateInitHolds, RateStep, PTL DEF RateSpec

\* A caller that waits as long as Retry-After says finds no rule exceeded by
\* the requests that were counted before the refusal, for any set of rules,
\* limits and windows.
THEOREM RateRetryAfterSuffices == RateSpec => []RetryAfterSuffices
<1>1. RateInv => RetryAfterSuffices
  <2> SUFFICES ASSUME RateInv, NEW a \in Attempts, retryAt[a] # NoRetry, now > retryAt[a],
                      NEW k \in Exceeded(a)
               PROVE  FALSE
    BY DEF RetryAfterSuffices
  <2>1. k \in Keys /\ count[k] >= RuleLimit[k]
    BY RulesTypes DEF Exceeded
  <2>2. now <= expireAt[k] /\ expireAt[k] <= retryAt[a]
    BY <2>1 DEF RateInv, RateTypeOK, WindowsEnd, ToldLongEnough
  <2>3. now \in Nat /\ expireAt[k] \in Nat /\ retryAt[a] \in Nat
    BY <2>1 DEF RateInv, RateTypeOK
  <2> QED BY <2>2, <2>3
<1> QED BY <1>1, RateInvariant, PTL

HIDE RateLimitAssumption
-----------------------------------------------------------------------------
(* Packet                                                                   *)

USE PacketAssumption

\* A set of naturals has a smallest element.
LEMMA MinIs ==
  ASSUME NEW S \in SUBSET Nat, S # {}
  PROVE  Min(S) \in S /\ \A y \in S : Min(S) <= y
<1>1. PICK x \in S : \A y \in S : ~(<<y, x>> \in OpToRel(<, Nat))
  BY NatLessThanWellFounded, WFMin
<1>2. \A y \in S : ~(y < x)
  BY <1>1 DEF OpToRel
<1>3. ASSUME NEW y \in S  PROVE x <= y
  <2>1. x \in Nat /\ y \in Nat
    OBVIOUS
  <2> QED BY <1>2, <2>1
<1> QED BY <1>3 DEF Min

\* Create makes no empty share.
LEMMA AmountTypes ==
  ASSUME NEW n \in Slots
  PROVE  Amount(n) \in Nat \ {0}
<1>1. Total \div Shares \in Int /\ Total \div Shares >= 1
  OBVIOUS
<1> QED BY <1>1 DEF Amount

\* All slots are free and nobody has a credit.
LEMMA PacketInitHolds == PacketInit => PacketInv
<1> SUFFICES ASSUME PacketInit  PROVE PacketInv
  OBVIOUS
<1>1. Nobody \notin PacketUsers /\ NoSlot \notin Slots
  BY DEF NoSlot, Slots
<1>2. PacketTypeOK
  BY DEF PacketInit, PacketTypeOK, NoClaim, NoDelivery, ClaimSteps
<1>3. ClaimsUnderLock /\ DeliveredFirst
  BY DEF PacketInit, ClaimsUnderLock, DeliveredFirst, NoClaim, NoDelivery
<1>4. SlotsAreCredits /\ ReceiptsStand /\ PaidOnce
  BY <1>1 DEF PacketInit, SlotsAreCredits, ReceiptsStand, PaidOnce
<1> QED BY <1>2, <1>3, <1>4 DEF PacketInv

\* A claim moves on or ends without having changed the packet.
LEMMA ClaimMoves ==
  ASSUME PacketInv, NEW c \in Claims,
         claim' \in [Claims -> [step : ClaimSteps, user : PacketUsers \cup {Nobody},
                                slot : Slots \cup {NoSlot}]],
         \A b \in Claims \ {c} : claim'[b] = claim[b],
         packetLock' \in Claims \cup {Nobody},
         \A b \in Claims \ {c} : packetLock = b => packetLock' = b,
         claim'[c].step # "idle" => claim'[c].user \in PacketUsers,
         claim'[c].step \in {"find", "slot", "insert", "commit"} => packetLock' = c,
         claim'[c].step \in {"slot", "insert", "commit"} => credits[claim'[c].user] = NoSlot,
         claim'[c].step \in {"insert", "commit"} =>
             claim'[c].slot \in Slots /\ slots[claim'[c].slot] = Nobody,
         answers' \in SUBSET (PacketUsers \X Slots),
         \A a \in answers' : credits[a[1]] = a[2],
         UNCHANGED <<slots, credits, intents, received, delivery>>
  PROVE  PacketInv'
<1>1. PacketTypeOK'
  BY DEF PacketInv, PacketTypeOK
<1>2. ClaimsUnderLock'
  BY DEF PacketInv, ClaimsUnderLock
<1>3. DeliveredFirst'
  BY DEF PacketInv, DeliveredFirst
<1>4. SlotsAreCredits' /\ ReceiptsStand' /\ PaidOnce'
  BY DEF PacketInv, SlotsAreCredits, ReceiptsStand, PaidOnce
<1> QED BY <1>1, <1>2, <1>3, <1>4 DEF PacketInv

\* A transaction that is over.
LEMMA EndWrites ==
  ASSUME PacketTypeOK, NEW c \in Claims, EndClaim(c)
  PROVE  /\ claim' \in [Claims -> [step : ClaimSteps, user : PacketUsers \cup {Nobody},
                                   slot : Slots \cup {NoSlot}]]
         /\ \A b \in Claims \ {c} : claim'[b] = claim[b]
         /\ claim'[c].step = "idle"
         /\ packetLock' \in Claims \cup {Nobody}
         /\ \A b \in Claims \ {c} : packetLock = b => packetLock' = b
<1>1. /\ NoClaim \in [step : ClaimSteps, user : PacketUsers \cup {Nobody}, slot : Slots \cup {NoSlot}]
      /\ NoClaim.step = "idle"
  BY DEF NoClaim, ClaimSteps
<1> QED BY <1>1 DEF EndClaim, PacketTypeOK

\* A transaction ends with nothing written.
LEMMA EndStep ==
  ASSUME PacketInv, NEW c \in Claims, EndClaim(c),
         answers' \in SUBSET (PacketUsers \X Slots), \A a \in answers' : credits[a[1]] = a[2],
         UNCHANGED <<slots, credits, intents, received, delivery>>
  PROVE  PacketInv'
<1>1. /\ claim' \in [Claims -> [step : ClaimSteps, user : PacketUsers \cup {Nobody},
                                slot : Slots \cup {NoSlot}]]
      /\ \A b \in Claims \ {c} : claim'[b] = claim[b]
      /\ claim'[c].step = "idle"
      /\ packetLock' \in Claims \cup {Nobody}
      /\ \A b \in Claims \ {c} : packetLock = b => packetLock' = b
  BY EndWrites DEF PacketInv
<1> QED BY <1>1, ClaimMoves

\* The statements of a claim before its COMMIT, and its rollback.
LEMMA ClaimStep ==
  ASSUME PacketInv, NEW c \in Claims,
         \/ \E u \in PacketUsers : StartClaim(c, u)
         \/ LockPacket(c) \/ FindCredit(c) \/ ClaimSlot(c) \/ InsertCredit(c) \/ RollbackClaim(c)
  PROVE  PacketInv'
<1>1. /\ UNCHANGED <<slots, credits, intents, received, delivery>>
  BY DEF StartClaim, LockPacket, FindCredit, ClaimSlot, InsertCredit, RollbackClaim
<1>2. /\ answers \in SUBSET (PacketUsers \X Slots) /\ \A a \in answers : credits[a[1]] = a[2]
  BY DEF PacketInv, PacketTypeOK, ReceiptsStand
<1>3. claim[c] \in [step : ClaimSteps, user : PacketUsers \cup {Nobody}, slot : Slots \cup {NoSlot}]
  BY DEF PacketInv, PacketTypeOK
<1>4. packetLock \in Claims \cup {Nobody}
  BY DEF PacketInv, PacketTypeOK
<1>5. /\ claim[c].step # "idle" => claim[c].user \in PacketUsers
      /\ claim[c].step \in {"find", "slot", "insert", "commit"} => packetLock = c
      /\ claim[c].step \in {"slot", "insert", "commit"} => credits[claim[c].user] = NoSlot
      /\ claim[c].step \in {"insert", "commit"} =>
             claim[c].slot \in Slots /\ slots[claim[c].slot] = Nobody
  BY DEF PacketInv, ClaimsUnderLock
<1> DEFINE Calls == [step : ClaimSteps, user : PacketUsers \cup {Nobody}, slot : Slots \cup {NoSlot}]
\* One call moves on.
<1>6. ASSUME NEW p \in Calls, claim' = [claim EXCEPT ![c] = p]
      PROVE  /\ claim' \in [Claims -> Calls] /\ claim'[c] = p
             /\ \A b \in Claims \ {c} : claim'[b] = claim[b]
  BY <1>6 DEF PacketInv, PacketTypeOK
<1>7. ASSUME NEW u \in PacketUsers, StartClaim(c, u)  PROVE PacketInv'
  <2> DEFINE p == [NoClaim EXCEPT !.step = "lock", !.user = u]
  <2>1. p \in Calls /\ p.step = "lock" /\ p.user = u
    BY DEF NoClaim, ClaimSteps
  <2>2. claim' = [claim EXCEPT ![c] = p] /\ UNCHANGED <<packetLock, answers>>
    BY <1>7 DEF StartClaim
  <2> HIDE DEF p
  <2>3. /\ claim' \in [Claims -> Calls] /\ claim'[c] = p
        /\ \A b \in Claims \ {c} : claim'[b] = claim[b]
    BY <1>6, <2>1, <2>2
  <2> QED BY <1>1, <1>2, <1>4, <2>1, <2>2, <2>3, ClaimMoves
<1>8. CASE LockPacket(c)
  <2> DEFINE p == [claim[c] EXCEPT !.step = "find"]
  <2>1. p \in Calls /\ p.step = "find" /\ p.user = claim[c].user
    BY <1>3 DEF ClaimSteps
  <2>2. /\ claim' = [claim EXCEPT ![c] = p] /\ packetLock = Nobody /\ packetLock' = c
        /\ claim[c].step = "lock" /\ UNCHANGED answers
    BY <1>8 DEF LockPacket
  <2> HIDE DEF p
  <2>3. /\ claim' \in [Claims -> Calls] /\ claim'[c] = p
        /\ \A b \in Claims \ {c} : claim'[b] = claim[b]
    BY <1>6, <2>1, <2>2
  <2> QED BY <1>1, <1>2, <1>5, <2>1, <2>2, <2>3, ClaimMoves
<1>9. CASE FindCredit(c)
  <2>1. claim[c].step = "find" /\ claim[c].user \in PacketUsers
    BY <1>5, <1>9 DEF FindCredit
  <2>2. CASE credits[claim[c].user] = NoSlot
    <3> DEFINE p == [claim[c] EXCEPT !.step = "slot"]
    <3>1. p \in Calls /\ p.step = "slot" /\ p.user = claim[c].user
      BY <1>3 DEF ClaimSteps
    <3>2. claim' = [claim EXCEPT ![c] = p] /\ UNCHANGED <<packetLock, answers>>
      BY <1>9, <2>2 DEF FindCredit
    <3> HIDE DEF p
    <3>3. /\ claim' \in [Claims -> Calls] /\ claim'[c] = p
          /\ \A b \in Claims \ {c} : claim'[b] = claim[b]
      BY <1>6, <3>1, <3>2
    <3> QED BY <1>1, <1>2, <1>4, <1>5, <2>1, <2>2, <3>1, <3>2, <3>3, ClaimMoves
  <2>3. CASE credits[claim[c].user] # NoSlot
    <3>1. answers' = answers \cup {<<claim[c].user, credits[claim[c].user]>>} /\ EndClaim(c)
      BY <1>9, <2>3 DEF FindCredit
    <3>2. credits[claim[c].user] \in Slots
      BY <2>1, <2>3 DEF PacketInv, PacketTypeOK
    <3>3. /\ answers' \in SUBSET (PacketUsers \X Slots)
          /\ \A a \in answers' : credits[a[1]] = a[2]
      BY <1>2, <2>1, <3>1, <3>2
    <3> QED BY <1>1, <3>1, <3>3, EndStep
  <2> QED BY <2>2, <2>3
<1>10. CASE ClaimSlot(c)
  <2> DEFINE free == {n \in Slots : slots[n] = Nobody}
  <2>1. claim[c].step = "slot" /\ UNCHANGED answers
    BY <1>10 DEF ClaimSlot
  <2>2. CASE free = {}
    BY <1>1, <1>2, <1>10, <2>1, <2>2, EndStep DEF ClaimSlot
  <2>3. CASE free # {}
    <3>1. Min(free) \in free
      <4>1. free \in SUBSET Nat
        BY DEF Slots
      <4> HIDE DEF free
      <4> QED BY <2>3, <4>1, MinIs
    <3>2. PICK n \in Slots : n = Min(free) /\ slots[n] = Nobody
      BY <3>1
    <3> DEFINE p == [claim[c] EXCEPT !.step = "insert", !.slot = n]
    <3>3. p \in Calls /\ p.step = "insert" /\ p.user = claim[c].user /\ p.slot = n
      BY <1>3 DEF ClaimSteps
    <3>4. /\ claim' = [claim EXCEPT ![c].step = "insert", ![c].slot = Min(free)]
          /\ UNCHANGED packetLock
      BY <1>10, <2>3 DEF ClaimSlot
    <3>5. claim' = [claim EXCEPT ![c] = p]
      BY <3>2, <3>4 DEF PacketInv, PacketTypeOK
    <3> HIDE DEF p
    <3>6. /\ claim' \in [Claims -> Calls] /\ claim'[c] = p
          /\ \A b \in Claims \ {c} : claim'[b] = claim[b]
      BY <1>6, <3>3, <3>5
    <3>7. p.slot \in Slots /\ slots[p.slot] = Nobody
      BY <3>2, <3>3
    <3>8. UNCHANGED packetLock
      BY <3>4
    <3>9. /\ p.step = "insert" /\ p.user \in PacketUsers /\ credits[p.user] = NoSlot
          /\ packetLock = c
      BY <1>5, <2>1, <3>3
    <3> QED BY <1>1, <1>2, <1>4, <2>1, <3>6, <3>7, <3>8, <3>9, ClaimMoves
  <2> QED BY <2>2, <2>3
<1>11. CASE InsertCredit(c)
  <2>1. claim[c].step = "insert" /\ UNCHANGED answers
    BY <1>11 DEF InsertCredit
  <2>2. CASE credits[claim[c].user] = NoSlot
    <3> DEFINE p == [claim[c] EXCEPT !.step = "commit"]
    <3>1. p \in Calls /\ p.step = "commit" /\ p.user = claim[c].user /\ p.slot = claim[c].slot
      BY <1>3 DEF ClaimSteps
    <3>2. claim' = [claim EXCEPT ![c] = p] /\ UNCHANGED packetLock
      BY <1>11, <2>2 DEF InsertCredit
    <3> HIDE DEF p
    <3>3. /\ claim' \in [Claims -> Calls] /\ claim'[c] = p
          /\ \A b \in Claims \ {c} : claim'[b] = claim[b]
      BY <1>6, <3>1, <3>2
    <3> QED BY <1>1, <1>2, <1>4, <1>5, <2>1, <2>2, <3>1, <3>2, <3>3, ClaimMoves
  <2>3. CASE credits[claim[c].user] # NoSlot
    BY <1>1, <1>2, <1>11, <2>1, <2>3, EndStep DEF InsertCredit
  <2> QED BY <2>2, <2>3
<1>12. CASE RollbackClaim(c)
  BY <1>1, <1>2, <1>12, EndStep DEF RollbackClaim
<1> QED BY <1>7, <1>8, <1>9, <1>10, <1>11, <1>12

\* The COMMIT of a claim: slot, credit and intent appear together.
LEMMA CommitStep ==
  ASSUME PacketInv, NEW c \in Claims, CommitClaim(c)
  PROVE  PacketInv'
<1>0. /\ claim[c].step = "commit" /\ claim[c].user \in PacketUsers /\ packetLock = c
      /\ credits[claim[c].user] = NoSlot
      /\ claim[c].slot \in Slots /\ slots[claim[c].slot] = Nobody
  BY DEF CommitClaim, PacketInv, ClaimsUnderLock
<1>1. PICK u \in PacketUsers, n \in Slots : u = claim[c].user /\ n = claim[c].slot
  BY <1>0
<1>2. /\ slots' = [slots EXCEPT ![n] = u] /\ credits' = [credits EXCEPT ![u] = n]
      /\ intents' = intents \cup {u} /\ answers' \subseteq answers \cup {<<u, n>>}
      /\ EndClaim(c) /\ UNCHANGED <<received, delivery>>
  BY <1>1 DEF CommitClaim
<1>3. /\ claim' \in [Claims -> [step : ClaimSteps, user : PacketUsers \cup {Nobody},
                                slot : Slots \cup {NoSlot}]]
      /\ \A b \in Claims \ {c} : claim'[b] = claim[b]
      /\ claim'[c].step = "idle"
      /\ packetLock' \in Claims \cup {Nobody}
  BY <1>2, EndWrites DEF PacketInv
<1>4. u # Nobody /\ n # NoSlot /\ credits[u] = NoSlot /\ slots[n] = Nobody
  BY <1>0, <1>1 DEF NoSlot, Slots
<1>5. /\ \A m \in Slots : slots'[m] = IF m = n THEN u ELSE slots[m]
      /\ \A v \in PacketUsers : credits'[v] = IF v = u THEN n ELSE credits[v]
  BY <1>2 DEF PacketInv, PacketTypeOK
<1>6. PacketTypeOK'
  <2>1. slots' \in [Slots -> PacketUsers \cup {Nobody}]
    BY <1>2 DEF PacketInv, PacketTypeOK
  <2>2. credits' \in [PacketUsers -> Slots \cup {NoSlot}]
    BY <1>2 DEF PacketInv, PacketTypeOK
  <2>3. intents' \in SUBSET PacketUsers /\ answers' \in SUBSET (PacketUsers \X Slots)
    BY <1>2 DEF PacketInv, PacketTypeOK
  <2> QED BY <1>2, <1>3, <2>1, <2>2, <2>3 DEF PacketInv, PacketTypeOK
<1>7. SlotsAreCredits'
  <2>1. \A m \in Slots : \A v \in PacketUsers : slots[m] = v <=> credits[v] = m
    BY DEF PacketInv, SlotsAreCredits
  <2>2. \A v \in PacketUsers : credits[v] # n
    BY <1>4, <2>1
  <2>3. \A m \in Slots : slots[m] # u
    <3>1. NoSlot \notin Slots
      BY DEF NoSlot, Slots
    <3> QED BY <1>4, <2>1, <3>1
  <2>4. \A m \in Slots : \A v \in PacketUsers : slots'[m] = v <=> credits'[v] = m
    BY <1>5, <2>1, <2>2, <2>3
  <2> QED BY <2>4 DEF SlotsAreCredits
<1>8. ReceiptsStand'
  <2> SUFFICES ASSUME NEW a \in answers'  PROVE credits'[a[1]] = a[2]
    BY DEF ReceiptsStand
  <2>1. CASE a \in answers
    <3>1. credits[a[1]] = a[2] /\ a[1] \in PacketUsers /\ a[2] \in Slots
      BY <2>1 DEF PacketInv, PacketTypeOK, ReceiptsStand
    <3>2. a[1] # u
      BY <1>4, <3>1 DEF NoSlot, Slots
    <3> QED BY <1>5, <3>1, <3>2
  <2>2. CASE a = <<u, n>>
    BY <1>5, <2>2
  <2> QED BY <1>2, <2>1, <2>2
<1>9. PaidOnce'
  BY <1>2, <1>4, <1>5 DEF PacketInv, PaidOnce
<1>10. ClaimsUnderLock'
  BY <1>0, <1>3 DEF PacketInv, ClaimsUnderLock
<1>11. DeliveredFirst'
  BY <1>2, <1>4, <1>5 DEF PacketInv, DeliveredFirst
<1> QED BY <1>6, <1>7, <1>8, <1>9, <1>10, <1>11 DEF PacketInv

\* The statements of a delivery.
LEMMA DeliveryStep ==
  ASSUME PacketInv, NEW d \in Deliveries,
         \/ \E u \in PacketUsers : StartDelivery(d, u)
         \/ ReceiveCredit(d) \/ DeleteIntent(d) \/ AbandonDelivery(d)
  PROVE  PacketInv'
<1> DEFINE Calls == [step : {"idle", "insert", "delete"}, user : PacketUsers \cup {Nobody}]
<1>0. UNCHANGED <<slots, credits, packetLock, claim, answers>>
  BY DEF StartDelivery, ReceiveCredit, DeleteIntent, AbandonDelivery
<1>1. SlotsAreCredits' /\ ReceiptsStand' /\ ClaimsUnderLock'
  BY <1>0 DEF PacketInv, SlotsAreCredits, ReceiptsStand, ClaimsUnderLock
<1>2. NoDelivery \in Calls /\ NoDelivery.step = "idle"
  BY DEF NoDelivery
<1>3. ASSUME NEW p \in Calls, delivery' = [delivery EXCEPT ![d] = p]
      PROVE  /\ delivery' \in [Deliveries -> Calls] /\ delivery'[d] = p
             /\ \A b \in Deliveries : b # d => delivery'[b] = delivery[b]
  BY <1>3 DEF PacketInv, PacketTypeOK
<1>4. delivery[d] \in Calls
  BY DEF PacketInv, PacketTypeOK
<1>5. ASSUME NEW u \in PacketUsers, StartDelivery(d, u)  PROVE PacketInv'
  <2> DEFINE p == [step |-> "insert", user |-> u]
  <2>1. p \in Calls /\ p.step = "insert" /\ p.user = u
    OBVIOUS
  <2>2. /\ delivery' = [delivery EXCEPT ![d] = p] /\ credits[u] # NoSlot
        /\ UNCHANGED <<intents, received>>
    BY <1>5 DEF StartDelivery
  <2> HIDE DEF p
  <2>3. /\ delivery' \in [Deliveries -> Calls] /\ delivery'[d] = p
        /\ \A b \in Deliveries : b # d => delivery'[b] = delivery[b]
    BY <1>3, <2>1, <2>2
  <2>4. PacketTypeOK' /\ PaidOnce'
    BY <1>0, <2>2, <2>3 DEF PacketInv, PacketTypeOK, PaidOnce
  <2>5. DeliveredFirst'
    BY <1>0, <2>1, <2>2, <2>3 DEF PacketInv, DeliveredFirst
  <2> QED BY <1>1, <2>4, <2>5 DEF PacketInv
<1>6. CASE ReceiveCredit(d)
  <2> DEFINE p == [delivery[d] EXCEPT !.step = "delete"]
             u == delivery[d].user
  <2>1. p \in Calls /\ p.step = "delete" /\ p.user = u
    BY <1>4
  <2>2. /\ delivery' = [delivery EXCEPT ![d] = p] /\ delivery[d].step = "insert"
        /\ received' = IF u \in intents /\ received[u] = 0
                         THEN [received EXCEPT ![u] = Amount(credits[u])] ELSE received
        /\ UNCHANGED intents
    BY <1>6 DEF ReceiveCredit
  <2> HIDE DEF p
  <2>3. /\ delivery' \in [Deliveries -> Calls] /\ delivery'[d] = p
        /\ \A b \in Deliveries : b # d => delivery'[b] = delivery[b]
    BY <1>3, <2>1, <2>2
  <2>4. u \in PacketUsers /\ credits[u] # NoSlot
    BY <2>2 DEF PacketInv, DeliveredFirst
  <2>5. credits[u] \in Slots /\ Amount(credits[u]) \in Nat \ {0}
    <3>1. credits[u] \in Slots
      BY <2>4 DEF PacketInv, PacketTypeOK
    <3> QED BY <3>1, AmountTypes
  <2>6. /\ received' \in [PacketUsers -> Nat] /\ received'[u] = Amount(credits[u])
        /\ \A v \in PacketUsers : v # u => received'[v] = received[v]
    BY <2>2, <2>4, <2>5 DEF PacketInv, PacketTypeOK, PaidOnce
  <2>7. \A v \in PacketUsers : received[v] # 0 => received'[v] = received[v]
    BY <2>2, <2>4 DEF PacketInv, PacketTypeOK
  <2>8. PacketTypeOK'
    BY <1>0, <2>2, <2>3, <2>6 DEF PacketInv, PacketTypeOK
  <2>9. PaidOnce'
    BY <1>0, <2>2, <2>4, <2>6 DEF PacketInv, PaidOnce
  <2>10. DeliveredFirst'
    <3>1. ASSUME NEW b \in Deliveries
          PROVE  LET v == delivery'[b].user IN
                 /\ delivery'[b].step # "idle" => v \in PacketUsers /\ credits[v] # NoSlot
                 /\ delivery'[b].step = "delete" => received'[v] = Amount(credits[v])
      <4>1. CASE b = d
        BY <2>1, <2>3, <2>4, <2>6, <4>1
      <4>2. CASE b # d
        <5>1. delivery'[b] = delivery[b]
          BY <2>3, <4>2
        <5>2. /\ delivery[b].step # "idle" =>
                   delivery[b].user \in PacketUsers /\ credits[delivery[b].user] # NoSlot
              /\ delivery[b].step = "delete" =>
                   received[delivery[b].user] = Amount(credits[delivery[b].user])
          BY DEF PacketInv, DeliveredFirst
        <5>3. delivery[b].user # u => received'[delivery[b].user] = received[delivery[b].user]
              \/ delivery[b].user \notin PacketUsers
          BY <2>6
        <5> QED BY <2>6, <5>1, <5>2, <5>3
      <4> QED BY <4>1, <4>2
    <3> QED BY <1>0, <3>1 DEF DeliveredFirst
  <2> QED BY <1>1, <2>8, <2>9, <2>10 DEF PacketInv
<1>7. CASE DeleteIntent(d)
  <2>1. /\ delivery' = [delivery EXCEPT ![d] = NoDelivery] /\ delivery[d].step = "delete"
        /\ intents' = intents \ {delivery[d].user} /\ UNCHANGED received
    BY <1>7 DEF DeleteIntent
  <2>2. /\ delivery' \in [Deliveries -> Calls] /\ delivery'[d].step = "idle"
        /\ \A b \in Deliveries : b # d => delivery'[b] = delivery[b]
    BY <1>2, <1>3, <2>1
  <2>3. received[delivery[d].user] = Amount(credits[delivery[d].user])
    BY <2>1 DEF PacketInv, DeliveredFirst
  <2>4. PacketTypeOK'
    BY <1>0, <2>1, <2>2 DEF PacketInv, PacketTypeOK
  <2>5. PaidOnce'
    BY <1>0, <2>1, <2>3 DEF PacketInv, PaidOnce
  <2>6. DeliveredFirst'
    BY <1>0, <2>1, <2>2 DEF PacketInv, DeliveredFirst
  <2> QED BY <1>1, <2>4, <2>5, <2>6 DEF PacketInv
<1>8. CASE AbandonDelivery(d)
  <2>1. delivery' = [delivery EXCEPT ![d] = NoDelivery] /\ UNCHANGED <<intents, received>>
    BY <1>8 DEF AbandonDelivery
  <2>2. /\ delivery' \in [Deliveries -> Calls] /\ delivery'[d].step = "idle"
        /\ \A b \in Deliveries : b # d => delivery'[b] = delivery[b]
    BY <1>2, <1>3, <2>1
  <2>3. PacketTypeOK' /\ PaidOnce'
    BY <1>0, <2>1, <2>2 DEF PacketInv, PacketTypeOK, PaidOnce
  <2>4. DeliveredFirst'
    BY <1>0, <2>1, <2>2 DEF PacketInv, DeliveredFirst
  <2> QED BY <1>1, <2>3, <2>4 DEF PacketInv
<1> QED BY <1>5, <1>6, <1>7, <1>8

\* Every statement of Claim and Deliver, and every failure, preserves it.
LEMMA PacketStep == PacketInv /\ [PacketNext]_packetVars => PacketInv'
<1> SUFFICES ASSUME PacketInv, [PacketNext]_packetVars  PROVE PacketInv'
  OBVIOUS
<1>1. CASE UNCHANGED packetVars
  BY <1>1 DEF packetVars, PacketInv, PacketTypeOK, ClaimsUnderLock, DeliveredFirst,
              SlotsAreCredits, ReceiptsStand, PaidOnce
<1>2. CASE PacketNext
  BY <1>2, ClaimStep, CommitStep, DeliveryStep DEF PacketNext
<1> QED BY <1>1, <1>2

\* Claims work under the lock on the row of the packet, deliveries delete an
\* intent only after its credit was received, and slots and credits agree.
THEOREM PacketInvariant == PacketSpec => []PacketInv
<1> QED BY PacketInitHolds, PacketStep, PTL DEF PacketSpec

\* What the slots are worth.
Worth == [n \in Slots |-> Amount(n)]

\* A packet has finitely many slots, each with an amount.
LEMMA WorthType == Worth \in [Slots -> Int] /\ IsFiniteSet(Slots)
<1>1. \A n \in Slots : Amount(n) \in Int
  BY DEF Slots, Amount
<1>2. IsFiniteSet(Slots)
  BY FS_Interval DEF Slots
<1> QED BY <1>1, <1>2 DEF Worth

\* Create splits the whole amount: the first Total % Shares slots get one more.
LEMMA SharesAddUp ==
  ASSUME NEW W, Adds(W, Worth, Slots)
  PROVE  W[Slots] = Total
<1>1. PICK q \in Nat, r \in Nat : /\ q = Total \div Shares /\ r = Total % Shares
                                  /\ r < Shares
  OBVIOUS
<1>2. Total = Shares * q + r
  BY <1>1
<1> DEFINE V(k) == k * q + (IF k < r THEN k ELSE r)
           N == {k \in Nat : k <= Shares => W[0 .. k - 1] = V(k)}
<1>3. 0 \in N
  <2>1. 0 .. 0 - 1 = {}
    OBVIOUS
  <2>2. V(0) = 0
    OBVIOUS
  <2>3. W[{}] = 0
    BY DEF Adds
  <2> HIDE DEF V
  <2> QED BY <2>1, <2>2, <2>3
<1>4. ASSUME NEW k \in Nat, k \in N PROVE k + 1 \in N
  <2> SUFFICES ASSUME k + 1 <= Shares PROVE W[0 .. (k + 1) - 1] = V(k + 1)
    OBVIOUS
  <2> DEFINE s == 0 .. (k + 1) - 1
  <2>1. s \in SUBSET Slots /\ k \in s /\ k \in Slots /\ s \ {k} = 0 .. k - 1
    BY DEF Slots
  <2> HIDE DEF s
  <2>2. W[s] = Amount(k) + W[0 .. k - 1]
    <3>1. W[s] = Worth[k] + W[s \ {k}]
      BY <2>1 DEF Adds
    <3>2. Worth[k] = Amount(k)
      BY <2>1 DEF Worth
    <3> QED BY <2>1, <3>1, <3>2
  <2>3. W[0 .. k - 1] = V(k)
    BY <1>4
  <2>4. Amount(k) = q + (IF k < r THEN 1 ELSE 0)
    BY <1>1 DEF Amount
  <2>5. (k + 1) * q = k * q + q /\ k * q \in Nat
    BY <1>1
  <2>6. V(k + 1) = Amount(k) + V(k)
    <3>1. PICK m \in Nat : m = k * q
      BY <2>5
    <3>2. V(k) = m + (IF k < r THEN k ELSE r)
      BY <3>1
    <3>3. V(k + 1) = m + q + (IF k + 1 < r THEN k + 1 ELSE r)
      BY <2>5, <3>1
    <3> HIDE DEF V
    <3> QED BY <1>1, <2>4, <3>2, <3>3
  <2> HIDE DEF V, N
  <2> QED BY <2>2, <2>3, <2>6 DEF s
<1>5. Nat \subseteq N
  <2> HIDE DEF N
  <2> QED BY <1>3, <1>4, NatInduct
<1>6. W[0 .. Shares - 1] = V(Shares)
  <2> HIDE DEF V
  <2> QED BY <1>5
<1>7. V(Shares) = Shares * q + r
  BY <1>1
<1> QED BY <1>2, <1>6, <1>7 DEF Slots

\* The fold of AddsUp over free slots is a sum of their amounts.
LEMMA FreeFold ==
  ASSUME NEW F \in SUBSET Slots
  PROVE  \E g : Adds(g, [n \in F |-> Amount(n)], F) /\ MapThenSumSet(Amount, F) = g[F]
<1> DEFINE f == [n \in F |-> Amount(n)]
           R(g, s) == IF s = {} THEN 0 ELSE Amount(One(s)) + g[s \ {One(s)}]
           g0 == CHOOSE g : g = [s \in SUBSET F |-> R(g, s)]
<1>1. MapThenSumSet(Amount, F) = g0[F]
  BY DEF MapThenSumSet, MapThenFoldSet, One
<1>2. f \in [F -> Int] /\ IsFiniteSet(F)
  <2>1. \A n \in F : Amount(n) \in Int
    BY DEF Slots, Amount
  <2> QED BY <2>1, WorthType, FS_Subset
<1>3. \A g : Sums(g, f, F) <=> g = [s \in SUBSET F |-> R(g, s)]
  <2> TAKE g
  <2>1. \A s \in SUBSET F : s # {} => f[One(s)] = Amount(One(s))
    BY OneIs
  <2>2. [s \in SUBSET F |-> R(g, s)] =
        [s \in SUBSET F |-> IF s = {} THEN 0 ELSE f[One(s)] + g[s \ {One(s)}]]
    <3> HIDE DEF f
    <3> QED BY <2>1
  <2> HIDE DEF f, R
  <2> QED BY <2>2 DEF Sums
<1>4. \E g : g = [s \in SUBSET F |-> R(g, s)]
  <2> HIDE DEF f, R
  <2> QED BY <1>2, <1>3, SumsExist
<1>5. g0 = [s \in SUBSET F |-> R(g0, s)]
  <2> HIDE DEF R
  <2> QED BY <1>4
<1> HIDE DEF g0, f, R
<1>6. Adds(g0, f, F)
  BY <1>2, <1>3, <1>5, SumsAdd
<1> QED BY <1>1, <1>6 DEF f

\* So is the one over the users who have a credit.
LEMMA CreditFold ==
  ASSUME PacketTypeOK, NEW C \in SUBSET PacketUsers, \A u \in C : credits[u] # NoSlot
  PROVE  \E g, f : /\ Adds(g, f, C) /\ \A u \in C : f[u] = Amount(credits[u])
                   /\ MapThenSumSet(LAMBDA u : Amount(credits[u]), C) = g[C]
<1> DEFINE R(g, s) == IF s = {} THEN 0 ELSE Amount(credits[One(s)]) + g[s \ {One(s)}]
           g0 == CHOOSE g : g = [s \in SUBSET C |-> R(g, s)]
<1>1. MapThenSumSet(LAMBDA u : Amount(credits[u]), C) = g0[C]
  BY DEF MapThenSumSet, MapThenFoldSet, One
<1>2. PICK f : f = [u \in C |-> Amount(credits[u])]
  OBVIOUS
<1>3. f \in [C -> Int] /\ IsFiniteSet(C)
  <2>1. \A u \in C : credits[u] \in Slots
    BY DEF PacketTypeOK
  <2>2. \A u \in C : Amount(credits[u]) \in Int
    BY <2>1 DEF Slots, Amount
  <2>3. IsFiniteSet(C)
    BY FS_Subset
  <2> QED BY <1>2, <2>2, <2>3
<1>4. \A g : Sums(g, f, C) <=> g = [s \in SUBSET C |-> R(g, s)]
  <2> TAKE g
  <2>1. \A s \in SUBSET C : s # {} => f[One(s)] = Amount(credits[One(s)])
    BY <1>2, OneIs
  <2>2. [s \in SUBSET C |-> R(g, s)] =
        [s \in SUBSET C |-> IF s = {} THEN 0 ELSE f[One(s)] + g[s \ {One(s)}]]
    BY <2>1
  <2> HIDE DEF R
  <2> QED BY <2>2 DEF Sums
<1>5. \E g : g = [s \in SUBSET C |-> R(g, s)]
  <2> HIDE DEF R
  <2> QED BY <1>3, <1>4, SumsExist
<1>6. g0 = [s \in SUBSET C |-> R(g0, s)]
  <2> HIDE DEF R
  <2> QED BY <1>5
<1>7. PICK g : g = g0
  OBVIOUS
<1>8. Sums(g, f, C)
  <2> HIDE DEF g0, R
  <2> QED BY <1>4, <1>6, <1>7
<1> HIDE DEF g0, R
<1>9. Adds(g, f, C)
  BY <1>3, <1>8, SumsAdd
<1>10. \A u \in C : f[u] = Amount(credits[u])
  BY <1>2
<1> QED BY <1>1, <1>7, <1>9, <1>10

\* Free slots and credits partition the slots, so together they add up to Total.
LEMMA CreditsAddUp == PacketTypeOK /\ SlotsAreCredits => AddsUp
<1> SUFFICES ASSUME PacketTypeOK, SlotsAreCredits PROVE AddsUp
  OBVIOUS
<1>1. PICK F : F = {n \in Slots : slots[n] = Nobody}
  OBVIOUS
<1>2. PICK C : C = {u \in PacketUsers : credits[u] # NoSlot}
  OBVIOUS
<1>3. PICK c : c = [u \in C |-> credits[u]]
  OBVIOUS
<1>4. /\ F \in SUBSET Slots /\ C \in SUBSET PacketUsers /\ c \in [C -> Slots]
      /\ \A u \in C : c[u] = credits[u] /\ slots[c[u]] = u
      /\ \A u \in C : c[u] \notin F
  BY <1>1, <1>2, <1>3 DEF PacketTypeOK, SlotsAreCredits
<1>5. \A u, v \in C : c[u] = c[v] => u = v
  BY <1>4
<1>6. F \cup {c[u] : u \in C} = Slots
  <2>1. ASSUME NEW n \in Slots, n \notin F PROVE \E u \in C : c[u] = n
    <3>1. slots[n] \in PacketUsers
      BY <1>1, <2>1 DEF PacketTypeOK
    <3>2. credits[slots[n]] = n /\ n # NoSlot
      BY <3>1 DEF SlotsAreCredits, Slots, NoSlot
    <3> QED BY <1>2, <1>3, <3>1, <3>2
  <2> QED BY <1>4, <2>1
<1>7. PICK W : Adds(W, Worth, Slots)
  <2>1. \E g : Sums(g, Worth, Slots)
    BY WorthType, SumsExist
  <2> QED BY <2>1, WorthType, SumsAdd
<1>8. PICK g : Adds(g, [n \in F |-> Amount(n)], F) /\ MapThenSumSet(Amount, F) = g[F]
  BY <1>4, FreeFold
<1>9. g[F] = W[F]
  <2> DEFINE h == [n \in F |-> Amount(n)]
  <2>1. \A n \in F : h[n] = Worth[n]
    BY <1>4 DEF Worth
  <2>2. Adds(g, h, F)
    BY <1>8
  <2> HIDE DEF h
  <2> QED BY <1>4, <1>7, <2>1, <2>2, WorthType, AddsAgree
<1>10. \A u \in C : credits[u] # NoSlot
  BY <1>2
<1>11. PICK k, f : /\ Adds(k, f, C) /\ \A u \in C : f[u] = Amount(credits[u])
                   /\ MapThenSumSet(LAMBDA u : Amount(credits[u]), C) = k[C]
  BY <1>4, <1>10, CreditFold
<1>12. \A u \in C : f[u] = Worth[c[u]]
  BY <1>4, <1>11 DEF Worth
<1>13. IsFiniteSet(C)
  BY <1>4, FS_Subset
<1>14. W[F \cup {c[u] : u \in C}] = W[F] + k[C]
  BY <1>4, <1>5, <1>7, <1>11, <1>12, <1>13, WorthType, AddsImage
<1>15. Total = W[F] + k[C]
  BY <1>6, <1>7, <1>14, SharesAddUp
<1>16. Total = MapThenSumSet(Amount, F) + MapThenSumSet(LAMBDA u : Amount(credits[u]), C)
  BY <1>8, <1>9, <1>11, <1>15
<1> QED BY <1>1, <1>2, <1>16 DEF AddsUp

\* No slot has two owners, no receipt is revoked, every credit is paid at most
\* once and not forgotten, and free slots and credits add up to the packet, for
\* every amount and any number of shares, users, claims and deliveries.
THEOREM PacketIsConserved == PacketSpec => []PacketConserved
<1>1. PacketInv => PacketConserved
  BY CreditsAddUp DEF PacketInv, PacketConserved
<1> QED BY <1>1, PacketInvariant, PTL

HIDE PacketAssumption
-----------------------------------------------------------------------------
(* Cache                                                                   *)

\* The invariant holds when the key has been written for the first time.
LEMMA CacheInitially == CacheInit => CacheInv
  BY DEF CacheInit, CacheInv, CacheTypeOK, AcknowledgesDeleted,
         StaleIsPendingOrLate, NoInvalidation

\* Every call of Read, Update and Invalidate preserves it.
LEMMA CacheStep == CacheInv /\ [CacheNext]_cacheVars => CacheInv'
<1> SUFFICES ASSUME CacheInv, [CacheNext]_cacheVars PROVE CacheInv'
  OBVIOUS
<1> USE DEF CacheInv, CacheTypeOK, AcknowledgesDeleted, StaleIsPendingOrLate
<1>1. ASSUME NEW r \in Readers, Load(r) PROVE CacheInv'
  BY <1>1 DEF Load
<1>2. ASSUME NEW r \in Readers, Refill(r) PROVE CacheInv'
  <2>1. loaded[r] < version => late'
    BY <1>2, Zenon DEF Refill
  <2>2. /\ entry' = loaded[r] /\ entry' \in 0 .. version
        /\ loaded' = [loaded EXCEPT ![r] = 0]
        /\ UNCHANGED <<version, intent, invalidation>>
    BY <1>2 DEF Refill
  <2>3. entry' = 0 \/ entry' = version \/ late'
    BY <2>1, <2>2
  <2> QED
    BY <2>2, <2>3
<1>3. ASSUME NEW r \in Readers, RefillFails(r) PROVE CacheInv'
  BY <1>3 DEF RefillFails
<1>4. CASE Update
  BY <1>4 DEF Update
<1>5. CASE ExpireEntry
  BY <1>5 DEF ExpireEntry
<1>6. ASSUME NEW i \in Invalidators, ReadIntent(i) PROVE CacheInv'
  BY <1>6 DEF ReadIntent
<1>7. ASSUME NEW i \in Invalidators, DeleteEntry(i) PROVE CacheInv'
  BY <1>7 DEF DeleteEntry
<1>8. ASSUME NEW i \in Invalidators, Acknowledge(i) PROVE CacheInv'
  BY <1>8 DEF Acknowledge, NoInvalidation
<1>9. ASSUME NEW i \in Invalidators, InvalidateFails(i) PROVE CacheInv'
  BY <1>9 DEF InvalidateFails, NoInvalidation
<1>10. CASE UNCHANGED cacheVars
  BY <1>10 DEF cacheVars
<1> QED
  BY <1>1, <1>2, <1>3, <1>4, <1>5, <1>6, <1>7, <1>8, <1>9, <1>10 DEF CacheNext

\* An outdated entry in Redis is still to be invalidated, or a slow Read
\* stored it late, however many calls of Read and Invalidate interleave.
THEOREM CacheStaleIsPendingOrLate == CacheSpec => []StaleIsPendingOrLate
<1>1. CacheInv => StaleIsPendingOrLate
  BY DEF CacheInv
<1> QED
  BY CacheInitially, CacheStep, <1>1, PTL DEF CacheSpec
-----------------------------------------------------------------------------
(* Fence                                                                   *)

\* The invariant holds before the first lease.
LEMMA FenceInitially == FenceInit => FenceInv
  BY FenceAssumption DEF FenceInit, FenceInv, FenceTypeOK, WritersLocked

\* AcquireFence, WriteFenced and the expiry of the lease preserve it.
LEMMA FenceStep == FenceInv /\ [FenceNext]_fenceVars => FenceInv'
<1> SUFFICES ASSUME FenceInv, [FenceNext]_fenceVars PROVE FenceInv'
  OBVIOUS
<1> USE FenceAssumption DEF FenceInv, FenceTypeOK, WritersLocked
<1>1. ASSUME NEW o \in Owners, AcquireFence(o) PROVE FenceInv'
  BY <1>1 DEF AcquireFence
<1>2. ASSUME NEW o \in Owners, LockLease(o) PROVE FenceInv'
  BY <1>2 DEF LockLease
<1>3. ASSUME NEW o \in Owners, UpdateResource(o) PROVE FenceInv'
  BY <1>3 DEF UpdateResource, EndWrite
<1>4. ASSUME NEW o \in Owners, CommitWrite(o) PROVE FenceInv'
  BY <1>4 DEF CommitWrite, EndWrite
<1>5. ASSUME NEW o \in Owners, RollbackWrite(o) PROVE FenceInv'
  BY <1>5 DEF RollbackWrite, EndWrite
<1>6. CASE ExpireLease
  BY <1>6 DEF ExpireLease
<1>7. CASE UNCHANGED fenceVars
  BY <1>7 DEF fenceVars
<1> QED
  BY <1>1, <1>2, <1>3, <1>4, <1>5, <1>6, <1>7 DEF FenceNext

\* Only CommitWrite changes the resource, and its owner holds the latest token.
LEMMA WritesAreFenced ==
  FenceInv /\ [FenceNext]_fenceVars =>
    [lastToken' # lastToken \/ writer' # writer =>
       lastToken' = token /\ held[writer'] = token]_fenceVars
<1> SUFFICES ASSUME FenceInv, FenceNext, lastToken' # lastToken \/ writer' # writer
             PROVE  lastToken' = token /\ held[writer'] = token
  BY DEF fenceVars
<1>1. PICK o \in Owners : CommitWrite(o)
  BY DEF FenceNext, AcquireFence, LockLease, UpdateResource, RollbackWrite, ExpireLease
<1> QED
  BY <1>1 DEF CommitWrite, FenceInv, WritersLocked

\* A write commits only with the latest token, whenever leases expire and
\* whoever takes them over.
THEOREM FenceWritesFenced == FenceSpec => FencedWrites
<1>1. FenceSpec => []FenceInv
  BY FenceInitially, FenceStep, PTL DEF FenceSpec
<1> QED
  BY <1>1, WritesAreFenced, PTL DEF FenceSpec, FencedWrites
-----------------------------------------------------------------------------
(* Backoff                                                                 *)

\* One pass of the loop of retryDelay.
Pass(max, d) == IF d >= max THEN d ELSE IF d > max \div 2 THEN max ELSE d * 2

\* The loop computes something for every attempt: the recursion of Doubled has a
\* solution, put together from the ones for the first attempts.
LEMMA DoubledUnfolds ==
  ASSUME NEW base, NEW max
  PROVE  Doubled(base, max) =
           [n \in Nat |-> IF n <= 1 THEN base ELSE Pass(max, Doubled(base, max)[n - 1])]
<1> DEFINE R(d, n) == IF n <= 1 THEN base ELSE Pass(max, d[n - 1])
           Pre(d, n) == \A k \in 0 .. n : d[k] = R(d, k)
           E(n) == CHOOSE d : Pre(d, n)
           G == [n \in Nat |-> E(n)[n]]
<1>1. \A n \in Nat : \A d : Pre(d, n + 1) <=> Pre(d, n) /\ d[n + 1] = R(d, n + 1)
  <2> TAKE n \in Nat
  <2> TAKE d
  <2>1. 0 .. n + 1 = (0 .. n) \cup {n + 1}
    OBVIOUS
  <2> HIDE DEF R
  <2> QED BY <2>1
<1>2. \A n \in Nat : \A d, e : d[n] = e[n] => R(d, n + 1) = R(e, n + 1)
  OBVIOUS
<1>3. ASSUME NEW n \in Nat PROVE \E d : Pre(d, n)
  <2> DEFINE N == {m \in Nat : \E d : Pre(d, m)}
  <2>1. 0 \in N
    <3>1. Pre([k \in Nat |-> base], 0)
      OBVIOUS
    <3> HIDE DEF Pre
    <3> QED BY <3>1
  <2>2. ASSUME NEW m \in Nat, m \in N PROVE m + 1 \in N
    <3>1. PICK d : Pre(d, m)
      BY <2>2
    <3> DEFINE e == [k \in 0 .. m + 1 |-> IF k = m + 1 THEN R(d, k) ELSE d[k]]
    <3>2. \A k \in 0 .. m : e[k] = d[k]
      <4> HIDE DEF R
      <4> QED OBVIOUS
    <3>3. e[m + 1] = R(d, m + 1)
      <4> HIDE DEF R
      <4> QED OBVIOUS
    <3> HIDE DEF e
    <3>4. \A k \in 0 .. m : R(e, k) = R(d, k)
      BY <3>2
    <3>5. Pre(e, m)
      <4> HIDE DEF R
      <4> QED BY <3>1, <3>2, <3>4
    <3>6. R(e, m + 1) = R(d, m + 1)
      <4>1. e[m] = d[m]
        BY <3>2
      <4> HIDE DEF R
      <4> QED BY <1>2, <4>1
    <3>7. Pre(e, m + 1)
      <4> HIDE DEF R, Pre
      <4> QED BY <1>1, <3>3, <3>5, <3>6
    <3> HIDE DEF Pre
    <3> QED BY <3>7
  <2>3. Nat \subseteq N
    <3> HIDE DEF N
    <3> QED BY <2>1, <2>2, NatInduct
  <2> HIDE DEF Pre
  <2> QED BY <2>3
<1>4. ASSUME NEW n \in Nat PROVE Pre(E(n), n)
  <2> HIDE DEF Pre
  <2> QED BY <1>3
<1>5. ASSUME NEW n \in Nat, NEW d, NEW e, Pre(d, n), Pre(e, n) PROVE d[n] = e[n]
  <2> DEFINE N == {m \in Nat : m <= n => d[m] = e[m]}
  <2>1. 0 \in N
    BY <1>5
  <2>2. ASSUME NEW m \in Nat, m \in N PROVE m + 1 \in N
    <3> SUFFICES ASSUME m + 1 <= n PROVE d[m + 1] = e[m + 1]
      OBVIOUS
    <3>1. d[m] = e[m]
      BY <2>2
    <3>2. d[m + 1] = R(d, m + 1) /\ e[m + 1] = R(e, m + 1)
      <4> HIDE DEF R
      <4> QED BY <1>5
    <3> HIDE DEF R
    <3> QED BY <1>2, <3>1, <3>2
  <2>3. Nat \subseteq N
    <3> HIDE DEF N
    <3> QED BY <2>1, <2>2, NatInduct
  <2> QED BY <2>3
<1> HIDE DEF Pre, E
<1>6. G[0] = R(G, 0)
  <2>1. E(0)[0] = R(E(0), 0)
    BY <1>4 DEF Pre
  <2> QED BY <2>1
<1>7. ASSUME NEW n \in Nat PROVE G[n + 1] = R(G, n + 1)
  <2>1. Pre(E(n + 1), n) /\ E(n + 1)[n + 1] = R(E(n + 1), n + 1)
    <3> HIDE DEF R
    <3> QED BY <1>1, <1>4
  <2>2. E(n + 1)[n] = E(n)[n]
    BY <1>4, <1>5, <2>1
  <2>3. G[n + 1] = E(n + 1)[n + 1] /\ G[n] = E(n)[n]
    OBVIOUS
  <2> HIDE DEF R, G
  <2> QED BY <1>2, <2>1, <2>2, <2>3
<1>8. \A n \in Nat : G[n] = R(G, n)
  <2> DEFINE N == {n \in Nat : G[n] = R(G, n)}
  <2> HIDE DEF G, R
  <2>1. 0 \in N
    BY <1>6
  <2>2. \A n \in Nat : n + 1 \in N
    BY <1>7
  <2>3. Nat \subseteq N
    <3> HIDE DEF N
    <3> QED BY <2>1, <2>2, NatInduct
  <2> QED BY <2>3
<1>9. G = [n \in Nat |-> R(G, n)]
  <2> DEFINE H == [n \in Nat |-> R(G, n)]
  <2>1. G = [n \in Nat |-> G[n]]
    OBVIOUS
  <2> HIDE DEF G, R
  <2> QED BY <1>8, <2>1
<1> HIDE DEF G
<1>10. \E d : d = [n \in Nat |-> R(d, n)]
  <2> HIDE DEF R
  <2> QED BY <1>9
<1>11. Doubled(base, max) = CHOOSE d : d = [n \in Nat |-> R(d, n)]
  BY DEF Doubled, Pass
<1>12. PICK c : c = Doubled(base, max)
  OBVIOUS
<1>13. c = [n \in Nat |-> R(c, n)]
  <2> HIDE DEF R
  <2> QED BY <1>10, <1>11, <1>12
<1> QED BY <1>12, <1>13

\* retryDelay before its jitter, for every attempt count: the first attempt waits
\* base, every further one twice as long as the one before but never longer than
\* max, and a delay is multiplied only where its double is at most max, so that
\* the product cannot overflow.
THEOREM BackoffDoubles ==
  ASSUME NEW base \in Nat \ {0}, NEW max \in Nat, base <= max
  PROVE  /\ Doubled(base, max)[1] = base
         /\ \A n \in Nat \ {0} : LET d == Doubled(base, max)[n] IN
              /\ d \in base .. max
              /\ Doubled(base, max)[n + 1] = IF d * 2 > max THEN max ELSE d * 2
              /\ ~(d >= max) /\ ~(d > max \div 2) => d * 2 <= max
<1>1. PICK c : c = Doubled(base, max)
  OBVIOUS
<1>2. c = [n \in Nat |-> IF n <= 1 THEN base ELSE Pass(max, c[n - 1])]
  BY <1>1, DoubledUnfolds
<1>3. c[0] = base /\ c[1] = base
  BY <1>2
<1>4. \A n \in Nat \ {0} : c[n + 1] = Pass(max, c[n])
  BY <1>2
<1>5. \A d \in base .. max : /\ Pass(max, d) \in base .. max
                             /\ Pass(max, d) = IF d * 2 > max THEN max ELSE d * 2
  BY DEF Pass
<1> DEFINE N == {n \in Nat : c[n] \in base .. max}
<1>6. 0 \in N
  BY <1>3
<1>7. ASSUME NEW n \in Nat, n \in N PROVE n + 1 \in N
  <2>1. CASE n = 0
    BY <1>3, <2>1
  <2>2. CASE n # 0
    BY <1>4, <1>5, <1>7, <2>2
  <2> QED BY <2>1, <2>2
<1>8. Nat \subseteq N
  <2> HIDE DEF N
  <2> QED BY <1>6, <1>7, NatInduct
<1>9. \A n \in Nat : c[n] \in base .. max
  BY <1>8
<1> QED BY <1>1, <1>3, <1>4, <1>5, <1>9

\* For every attempt count retryDelay has a delay to return, and every delay it
\* may return is positive, at most max and at least half of what the loop
\* computed, rounded down: what OutboxAssumption asks of RetryDelay holds for
\* the delays of every configuration that newOutboxWorker accepts.
THEOREM RetryDelaysFit ==
  ASSUME NEW base \in Nat \ {0}, NEW max \in Nat, base <= max, NEW m \in Nat
  PROVE  /\ [n \in 1 .. (m - 1) |-> retryDelay(base, max, n)]
                \in [1 .. (m - 1) -> SUBSET (Nat \ {0})]
         /\ \A n \in Nat \ {0} :
              /\ retryDelay(base, max, n) # {}
              /\ \A d \in retryDelay(base, max, n) :
                    d \in 1 .. max /\ d >= Doubled(base, max)[n] \div 2
<1>1. ASSUME NEW n \in Nat \ {0}
      PROVE  /\ retryDelay(base, max, n) # {}
             /\ \A d \in retryDelay(base, max, n) :
                   d \in 1 .. max /\ d >= Doubled(base, max)[n] \div 2
  <2>1. PICK c \in base .. max : c = Doubled(base, max)[n]
    BY BackoffDoubles
  <2>2. Capped(base, max, n) = c
    BY <2>1 DEF Capped
  <2>3. retryDelay(base, max, n) =
          IF c \div 2 <= 0 THEN {c} ELSE (c \div 2) .. (c \div 2 + c \div 2)
    BY <2>2 DEF retryDelay, equalJitter
  <2>4. PICK h \in Nat : h = c \div 2 /\ h + h <= c /\ h <= c
    BY <2>1
  <2>5. CASE h = 0
    <3>1. retryDelay(base, max, n) = {c}
      BY <2>3, <2>4, <2>5
    <3>2. c \in 1 .. max /\ c >= Doubled(base, max)[n] \div 2
      BY <2>1, <2>4
    <3> QED BY <3>1, <3>2
  <2>6. CASE h # 0
    <3>1. retryDelay(base, max, n) = h .. (h + h)
      BY <2>3, <2>4, <2>6
    <3>2. h \in h .. (h + h)
      OBVIOUS
    <3> QED BY <2>1, <2>4, <2>6, <3>1, <3>2
  <2> QED BY <2>5, <2>6
<1>2. \A n \in 1 .. (m - 1) : retryDelay(base, max, n) \in SUBSET (Nat \ {0})
  BY <1>1
<1> QED BY <1>1, <1>2
=============================================================================
