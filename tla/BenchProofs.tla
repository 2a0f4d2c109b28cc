---------------------------- MODULE BenchProofs ----------------------------
(***************************************************************************)
(* Proofs about Bench, for every interval, batch size and capacity of the  *)
(* channels and any number of requests, rounds and other clients.          *)
(*                                                                         *)
(* What the counts promise are sums over the calls of NodeFinish that run  *)
(* at once; additions of the client may be lost and reads may be torn.     *)
(* The sum of a set of numbers is CHOSEN by MapThenSumSet from the         *)
(* functions that satisfy a recursion, so the first part shows, by         *)
(* induction on sets of numbers, that there is one such function and how   *)
(* the sum changes with one call.  The second part is the invariant: what  *)
(* has been added is at most what the calls were asked to add, and what    *)
(* they were asked to add is at most what the blocks hold.  The last part  *)
(* relates the numbers of the transactions to the requests the client      *)
(* sent, on top of the pipeline of ProposerProofs.                         *)
(***************************************************************************)
EXTENDS Bench, ProposerProofs, WellFoundedInduction

----------------------------------------------------------------------------
(***************************************************************************)
(* A set of numbers that is not empty has a least member: induction,       *)
(* without an operator as a parameter.                                     *)
(***************************************************************************)
Less == {s \in Nat \X Nat : s[1] < s[2]}

LEMMA LessWF == IsWellFoundedOn(Less, Nat)
<1>1. IsWellFoundedOn(OpToRel(<, Nat), Nat)
  BY NatLessThanWellFounded
<1> QED
  BY <1>1 DEF OpToRel, Less

LEMMA LeastNat ==
    ASSUME NEW T \in SUBSET Nat, T # {}
    PROVE  \E n \in T : \A m \in T : n <= m
<1>1. PICK n \in T : \A m \in T : ~ (<<m, n>> \in Less)
  BY LessWF, WFMin
<1>2. \A m \in T : ~(m < n)
  BY <1>1 DEF Less
<1> QED
  BY <1>2

----------------------------------------------------------------------------
(***************************************************************************)
(* Sums.  MapThenSumSet takes the members of the set one by one in the     *)
(* order CHOOSE gives them; a sum of f over the subsets of S is a function *)
(* with the same law.                                                      *)
(***************************************************************************)
Choice(s) == CHOOSE x \in s : TRUE
SumAt(f, it, s) == IF s = {} THEN 0 ELSE f[Choice(s)] + it[s \ {Choice(s)}]
IsSum(f, S, it) == it = [s \in SUBSET S |-> SumAt(f, it, s)]
Sums(f, S, it) == \A s \in SUBSET S : it[s] = SumAt(f, it, s)

\* The subsets of at most n members.
SumsUpTo(f, S, it, n) == \A s \in SUBSET S : Cardinality(s) <= n => it[s] = SumAt(f, it, s)

LEMMA Smaller ==
    ASSUME NEW S, IsFiniteSet(S), NEW s \in SUBSET S
    PROVE  /\ IsFiniteSet(s) /\ Cardinality(s) \in Nat
           /\ Cardinality(s) = 0 <=> s = {}
           /\ \A x \in s : s \ {x} \in SUBSET S /\ Cardinality(s \ {x}) = Cardinality(s) - 1
           /\ s # {} => Choice(s) \in s
<1>1. IsFiniteSet(s)
  BY FS_Subset
<1>2. Cardinality(s) \in Nat /\ (Cardinality(s) = 0 <=> s = {})
  BY <1>1, FS_CardinalityType, FS_EmptySet
<1>3. \A x \in s : Cardinality(s \ {x}) = Cardinality(s) - 1
  BY <1>1, FS_RemoveElement
<1>4. s # {} => Choice(s) \in s
  BY DEF Choice
<1> QED
  BY <1>1, <1>2, <1>3, <1>4

LEMMA SumsExist ==
    ASSUME NEW S, IsFiniteSet(S), NEW f
    PROVE  \E it : IsSum(f, S, it)
<1>1. ASSUME NEW n \in Nat, NEW it, SumsUpTo(f, S, it, n)
      PROVE  \E jt : /\ jt = [s \in SUBSET S |-> SumAt(f, it, s)]
                     /\ \A s \in SUBSET S : Cardinality(s) <= n + 1 => jt[s] = SumAt(f, jt, s)
  <2> DEFINE jt == [s \in SUBSET S |-> SumAt(f, it, s)]
  <2>1. ASSUME NEW s \in SUBSET S, Cardinality(s) <= n + 1 PROVE jt[s] = SumAt(f, jt, s)
    <3>1. CASE s = {}
      BY <3>1 DEF SumAt
    <3>2. CASE s # {}
      <4> DEFINE t == s \ {Choice(s)}
      <4>1. t \in SUBSET S /\ Cardinality(t) = Cardinality(s) - 1 /\ Cardinality(s) \in Nat
        BY <3>2, Smaller
      <4>2. Cardinality(t) <= n
        BY <2>1, <4>1
      <4>3. it[t] = SumAt(f, it, t)
        BY <4>1, <4>2, <1>1 DEF SumsUpTo
      <4>4. jt[t] = it[t]
        BY <4>1, <4>3
      <4> QED
        BY <3>2, <4>4 DEF SumAt
    <3> QED
      BY <3>1, <3>2
  <2> QED
    BY <2>1
<1> DEFINE T == {n \in Nat : ~ \E it : SumsUpTo(f, S, it, n)}
<1>2. T \in SUBSET Nat
  OBVIOUS
<1>3. ASSUME NEW n \in T, \A m \in T : n <= m PROVE FALSE
  <2>1. n \in Nat /\ ~ \E it : SumsUpTo(f, S, it, n)
    OBVIOUS
  <2>2. n # 0
    <3>1. \A s \in SUBSET S : Cardinality(s) <= 0 => s = {}
      <4> SUFFICES ASSUME NEW s \in SUBSET S, Cardinality(s) <= 0 PROVE s = {}
        OBVIOUS
      <4>1. Cardinality(s) \in Nat /\ (Cardinality(s) = 0 <=> s = {})
        BY Smaller
      <4> QED
        BY <4>1
    <3> DEFINE jt == [s \in {{}} |-> 0]
    <3>2. jt[{}] = 0
      OBVIOUS
    <3> HIDE DEF jt
    <3>3. SumsUpTo(f, S, jt, 0)
      BY <3>1, <3>2 DEF SumsUpTo, SumAt
    <3> QED
      BY <2>1, <3>3
  <2> DEFINE m == n - 1
  <2>3. m \in Nat /\ ~(n <= m) /\ m + 1 = n
    BY <2>1, <2>2
  <2> HIDE DEF m
  <2>4. m \notin T
    BY <1>3, <2>3
  <2>5. PICK it : SumsUpTo(f, S, it, m)
    BY <2>3, <2>4
  <2>6. \E jt : SumsUpTo(f, S, jt, m + 1)
    BY <1>1, <2>3, <2>5 DEF SumsUpTo
  <2> QED
    BY <2>1, <2>3, <2>6
<1> HIDE DEF T
<1>4. T = {}
  BY <1>2, <1>3, LeastNat
<1> DEFINE n == Cardinality(S)
<1>5. n \in Nat /\ \A s \in SUBSET S : Cardinality(s) <= n + 1
  <2>1. n \in Nat
    BY FS_CardinalityType
  <2>2. \A s \in SUBSET S : Cardinality(s) <= n /\ Cardinality(s) \in Nat
    BY FS_Subset, FS_CardinalityType
  <2> HIDE DEF n
  <2> QED
    BY <2>1, <2>2
<1> HIDE DEF n
<1>6. PICK it : SumsUpTo(f, S, it, n)
  BY <1>4, <1>5 DEF T
<1>7. PICK jt : /\ jt = [s \in SUBSET S |-> SumAt(f, it, s)]
                /\ \A s \in SUBSET S : Cardinality(s) <= n + 1 => jt[s] = SumAt(f, jt, s)
  BY <1>1, <1>5, <1>6
<1>8. \A s \in SUBSET S : jt[s] = SumAt(f, jt, s)
  BY <1>5, <1>7
<1>9. jt = [s \in SUBSET S |-> jt[s]]
  BY <1>7
<1>10. IsSum(f, S, jt)
  BY <1>8, <1>9, Zenon DEF IsSum
<1> QED
  BY <1>10

\* The sum does not depend on the order.
AnyOrder(f, S, it) ==
    /\ it[{}] = 0
    /\ \A s \in SUBSET S : it[s] \in Nat
    /\ \A s \in SUBSET S : \A x \in s : it[s] = f[x] + it[s \ {x}]

LEMMA SumRemove ==
    ASSUME NEW S, IsFiniteSet(S), NEW f \in [S -> Nat], NEW it, Sums(f, S, it)
    PROVE  AnyOrder(f, S, it)
<1> DEFINE Good(s) == it[s] \in Nat /\ \A x \in s : it[s] = f[x] + it[s \ {x}]
           T == {n \in Nat : \E s \in SUBSET S : Cardinality(s) = n /\ ~Good(s)}
<1>1. T \in SUBSET Nat
  OBVIOUS
<1>2. ASSUME NEW n \in T, \A m \in T : n <= m PROVE FALSE
  <2>1. PICK s \in SUBSET S : Cardinality(s) = n /\ ~Good(s)
    OBVIOUS
  <2>2. it[s] = SumAt(f, it, s)
    BY DEF Sums
  <2>3. CASE s = {}
    BY <2>1, <2>2, <2>3 DEF SumAt
  <2>4. CASE s # {}
    <3> DEFINE y == Choice(s)
               t == s \ {y}
    <3>1. y \in s /\ y \in S /\ f[y] \in Nat /\ it[s] = f[y] + it[t]
      BY <2>2, <2>4, Smaller DEF SumAt
    <3> HIDE DEF y
    <3>2. n \in Nat /\ n - 1 \in Nat /\ ~(n <= n - 1)
      BY <2>1, <2>4, Smaller
    <3>3. n - 1 \notin T
      BY <1>2, <3>2
    <3>4. \A u \in SUBSET S : Cardinality(u) = n - 1 => Good(u)
      BY <3>2, <3>3
    <3> HIDE DEF T, Good
    <3>5. ASSUME NEW x \in s PROVE s \ {x} \in SUBSET S /\ Good(s \ {x})
      BY <2>1, <3>4, Smaller
    <3>6. it[t] \in Nat /\ it[s] \in Nat
      BY <3>1, <3>5 DEF Good
    <3>7. ASSUME NEW x \in s PROVE it[s] = f[x] + it[s \ {x}]
      <4>1. CASE x = y
        BY <3>1, <4>1
      <4>2. CASE x # y
        <5>1. it[t] = f[x] + it[t \ {x}]
          BY <3>1, <3>5, <4>2 DEF Good
        <5>2. it[s \ {x}] = f[y] + it[(s \ {x}) \ {y}]
          BY <3>1, <3>5, <4>2 DEF Good
        <5>3. (s \ {x}) \ {y} = t \ {x}
          OBVIOUS
        <5> DEFINE w == it[t \ {x}]
        <5>4. it[t] = f[x] + w /\ it[s \ {x}] = f[y] + w
          BY <5>1, <5>2, <5>3
        <5>5. w \in Nat
          <6>1. t \in SUBSET S /\ t # {} /\ Cardinality(t) = n - 1
            BY <2>1, <3>1, <4>2, Smaller
          <6>2. t \ {x} \in SUBSET S /\ Cardinality(t \ {x}) = (n - 1) - 1
            BY <6>1, <3>7, <4>2, Smaller
          <6>3. (n - 1) - 1 \in Nat /\ ~(n <= (n - 1) - 1)
            BY <3>2, <6>2, Smaller
          <6>4. (n - 1) - 1 \notin T
            BY <1>2, <6>3
          <6> QED
            BY <6>2, <6>3, <6>4 DEF T, Good
        <5> HIDE DEF w, t
        <5>6. f[x] \in Nat
          OBVIOUS
        <5> QED
          BY <3>1, <5>4, <5>5, <5>6
      <4> QED
        BY <4>1, <4>2
    <3> QED
      BY <2>1, <3>6, <3>7 DEF Good
  <2> QED
    BY <2>3, <2>4
<1> HIDE DEF T
<1>3. T = {}
  BY <1>1, <1>2, LeastNat
<1>4. \A s \in SUBSET S : Good(s)
  BY <1>3, Smaller DEF T
<1>5. it[{}] = 0
  BY DEF Sums, SumAt
<1> QED
  BY <1>4, <1>5 DEF AnyOrder

LEMMA SumAtMost ==
    ASSUME NEW A, IsFiniteSet(A), NEW f \in [A -> Nat], NEW it, Sums(f, A, it),
           NEW B, IsFiniteSet(B), NEW g \in [B -> Nat], NEW jt, Sums(g, B, jt),
           \A x \in A : f[x] = 0 \/ (x \in B /\ f[x] <= g[x])
    PROVE  it[A] <= jt[B]
<1> DEFINE Below(s, t) == \A x \in s : f[x] = 0 \/ (x \in t /\ f[x] <= g[x])
           Good(s) == \A t \in SUBSET B : Below(s, t) => it[s] <= jt[t]
           T == {n \in Nat : \E s \in SUBSET A : Cardinality(s) = n /\ ~Good(s)}
<1>0. /\ it[{}] = 0
      /\ \A s \in SUBSET A : it[s] \in Nat
      /\ \A s \in SUBSET A : \A x \in s : it[s] = f[x] + it[s \ {x}]
      /\ \A t \in SUBSET B : jt[t] \in Nat
      /\ \A t \in SUBSET B : \A x \in t : jt[t] = g[x] + jt[t \ {x}]
  <2>1. AnyOrder(f, A, it) /\ AnyOrder(g, B, jt)
    BY SumRemove
  <2> QED
    BY <2>1 DEF AnyOrder
<1>1. T \in SUBSET Nat
  OBVIOUS
<1>2. ASSUME NEW n \in T, \A m \in T : n <= m PROVE FALSE
  <2>1. PICK s \in SUBSET A : Cardinality(s) = n /\ ~Good(s)
    OBVIOUS
  <2>2. PICK t \in SUBSET B : Below(s, t) /\ ~(it[s] <= jt[t])
    BY <2>1
  <2>3. jt[t] \in Nat /\ it[s] \in Nat
    BY <1>0
  <2>4. s # {}
    <3>1. s = {} => it[s] = 0
      BY <1>0
    <3> QED
      BY <2>2, <2>3, <3>1
  <2>5. PICK x \in s : TRUE
    BY <2>4
  <2>6. /\ s \ {x} \in SUBSET A /\ Cardinality(s \ {x}) = n - 1
        /\ n \in Nat /\ n - 1 \in Nat /\ ~(n <= n - 1)
    BY <2>1, <2>4, Smaller
  <2>7. n - 1 \notin T
    BY <1>2, <2>6
  <2>8. Good(s \ {x})
    BY <2>6, <2>7
  <2> HIDE DEF T
  <2>9. it[s] = f[x] + it[s \ {x}] /\ it[s \ {x}] \in Nat /\ f[x] \in Nat
    BY <1>0, <2>6
  <2>10. CASE f[x] = 0
    <3>1. it[s \ {x}] <= jt[t]
      BY <2>2, <2>8
    <3> QED
      BY <2>2, <2>9, <2>10, <3>1
  <2>11. CASE f[x] # 0
    <3>1. x \in t /\ f[x] <= g[x] /\ g[x] \in Nat
      BY <2>2, <2>11
    <3>2. Below(s \ {x}, t \ {x})
      BY <2>2
    <3>3. it[s \ {x}] <= jt[t \ {x}]
      BY <2>8, <3>2
    <3>4. jt[t] = g[x] + jt[t \ {x}] /\ jt[t \ {x}] \in Nat
      BY <1>0, <3>1
    <3> HIDE DEF Good, Below
    <3> QED
      BY <2>2, <2>9, <3>1, <3>3, <3>4
  <2> QED
    BY <2>10, <2>11
<1> HIDE DEF T
<1>3. T = {}
  BY <1>1, <1>2, LeastNat
<1>4. Cardinality(A) \in Nat /\ Good(A)
  BY <1>3, FS_CardinalityType DEF T
<1> QED
  BY <1>4

\* One of the numbers changes.
LEMMA SumUpdate ==
    ASSUME NEW S, IsFiniteSet(S), NEW f \in [S -> Nat], NEW it, Sums(f, S, it),
           NEW g \in [S -> Nat], NEW jt, Sums(g, S, jt),
           NEW x \in S, \A y \in S \ {x} : f[y] = g[y]
    PROVE  jt[S] + f[x] = it[S] + g[x] /\ jt[S] \in Nat /\ it[S] \in Nat
<1> DEFINE R == S \ {x}
<1>1. /\ it[S] \in Nat /\ it[R] \in Nat /\ it[S] = f[x] + it[R]
      /\ jt[S] \in Nat /\ jt[R] \in Nat /\ jt[S] = g[x] + jt[R]
      /\ f[x] \in Nat /\ g[x] \in Nat
  <2>1. S \in SUBSET S /\ R \in SUBSET S
    OBVIOUS
  <2>2. AnyOrder(f, S, it) /\ AnyOrder(g, S, jt)
    BY SumRemove
  <2> QED
    BY <2>1, <2>2 DEF AnyOrder
<1>2. it[R] = jt[R]
  <2> DEFINE h == [y \in R |-> f[y]]
  <2>0. R \in SUBSET S /\ IsFiniteSet(R)
    BY FS_Subset
  <2>1. h \in [R -> Nat]
    OBVIOUS
  <2>2. Sums(h, R, it)
    <3>1. ASSUME NEW s \in SUBSET R PROVE SumAt(h, it, s) = SumAt(f, it, s)
      <4>1. s = {} \/ Choice(s) \in s
        BY DEF Choice
      <4>2. s = {} \/ h[Choice(s)] = f[Choice(s)]
        BY <4>1
      <4> HIDE DEF h
      <4> QED
        BY <4>2 DEF SumAt
    <3> QED
      BY <3>1 DEF Sums
  <2>3. Sums(h, R, jt)
    <3>1. ASSUME NEW s \in SUBSET R PROVE SumAt(h, jt, s) = SumAt(g, jt, s)
      <4>1. s = {} \/ Choice(s) \in s
        BY DEF Choice
      <4>2. s = {} \/ h[Choice(s)] = g[Choice(s)]
        BY <4>1
      <4> HIDE DEF h
      <4> QED
        BY <4>2 DEF SumAt
    <3> QED
      BY <3>1 DEF Sums
  <2> HIDE DEF h, R
  <2>4. \A y \in R : h[y] <= h[y]
    BY <2>1
  <2>5. it[R] <= jt[R]
    BY <2>0, <2>1, <2>2, <2>3, <2>4, SumAtMost
  <2>6. jt[R] <= it[R]
    BY <2>0, <2>1, <2>2, <2>3, <2>4, SumAtMost
  <2> QED
    BY <1>1, <2>5, <2>6
<1> HIDE DEF R
<1> QED
  BY <1>1, <1>2

----------------------------------------------------------------------------
\* The transactions of the blocks of some calls, added up as Bench does.
NumberOf(A) == LET number(r) == calls[r].block.ReqNum IN MapThenSumSet(number, A)
Numbers(A) == [r \in A |-> calls[r].block.ReqNum]

LEMMA NumberIsSum ==
    ASSUME NEW A, IsFiniteSet(A)
    PROVE  \E it : Sums(Numbers(A), A, it) /\ NumberOf(A) = it[A]
<1> DEFINE Law(it) ==
        it = [s \in SUBSET A |->
                 IF s = {} THEN 0
                 ELSE calls[CHOOSE x \in s : TRUE].block.ReqNum + it[s \ {CHOOSE x \in s : TRUE}]]
           p == CHOOSE it : Law(it)
<1>1. \A s \in SUBSET A : \A it :
          SumAt(Numbers(A), it, s) =
              IF s = {} THEN 0
              ELSE calls[CHOOSE x \in s : TRUE].block.ReqNum + it[s \ {CHOOSE x \in s : TRUE}]
  <2> SUFFICES ASSUME NEW s \in SUBSET A, NEW it
               PROVE  SumAt(Numbers(A), it, s) =
                          IF s = {} THEN 0
                          ELSE calls[Choice(s)].block.ReqNum + it[s \ {Choice(s)}]
    BY Zenon DEF Choice
  <2>1. s = {} \/ Choice(s) \in A
    BY DEF Choice
  <2>2. s = {} \/ Numbers(A)[Choice(s)] = calls[Choice(s)].block.ReqNum
    BY <2>1 DEF Numbers
  <2> QED
    BY <2>2 DEF SumAt
<1>2. \E it : Law(it)
  <2>1. PICK it : IsSum(Numbers(A), A, it)
    BY SumsExist
  <2>2. Law(it)
    BY <1>1, <2>1, Zenon DEF IsSum
  <2> QED
    BY <2>2
<1>3. Law(p)
  BY <1>2
<1>4. NumberOf(A) = p[A]
  BY Zenon DEF NumberOf, MapThenSumSet, MapThenFoldSet
<1> HIDE DEF p
<1>5. \A s \in SUBSET A :
          p[s] = IF s = {} THEN 0
                 ELSE calls[CHOOSE x \in s : TRUE].block.ReqNum + p[s \ {CHOOSE x \in s : TRUE}]
  BY <1>3
<1>6. Sums(Numbers(A), A, p)
  BY <1>1, <1>5, Zenon DEF Sums
<1> QED
  BY <1>4, <1>6

----------------------------------------------------------------------------
(***************************************************************************)
(* The sum of f over S, and what the invariants need of it.                *)
(***************************************************************************)
Total(f, S) == (CHOOSE it : IsSum(f, S, it))[S]

LEMMA TotalIsSum ==
    ASSUME NEW S, IsFiniteSet(S), NEW f \in [S -> Nat]
    PROVE  \E it : Sums(f, S, it) /\ Total(f, S) = it[S]
<1> DEFINE p == CHOOSE it : IsSum(f, S, it)
<1>1. IsSum(f, S, p)
  BY SumsExist
<1>2. Total(f, S) = p[S]
  BY DEF Total
<1> HIDE DEF p
<1> QED
  BY <1>1, <1>2 DEF IsSum, Sums

\* Any other way to add the numbers up gives the same.
LEMMA SumIsTotal ==
    ASSUME NEW A, IsFiniteSet(A), NEW f \in [A -> Nat], NEW it, Sums(f, A, it),
           NEW B, IsFiniteSet(B), NEW g \in [B -> Nat], B \subseteq A,
           \A x \in A : f[x] = IF x \in B THEN g[x] ELSE 0
    PROVE  /\ Total(g, B) = it[A] /\ it[A] \in Nat
           /\ Total(f, A) = it[A]
<1>1. PICK jt : Sums(g, B, jt) /\ Total(g, B) = jt[B]
  BY TotalIsSum
<1>2. PICK kt : Sums(f, A, kt) /\ Total(f, A) = kt[A]
  BY TotalIsSum
<1>3. it[A] \in Nat /\ jt[B] \in Nat /\ kt[A] \in Nat
  <2>1. AnyOrder(f, A, it) /\ AnyOrder(g, B, jt) /\ AnyOrder(f, A, kt)
    BY <1>1, <1>2, SumRemove
  <2> QED
    BY <2>1 DEF AnyOrder
<1>4. it[A] <= jt[B]
  BY <1>1, SumAtMost
<1>5. jt[B] <= it[A]
  BY <1>1, SumAtMost
<1>6. it[A] <= kt[A] /\ kt[A] <= it[A]
  <2>1. \A x \in A : f[x] = 0 \/ (x \in A /\ f[x] <= f[x])
    OBVIOUS
  <2> QED
    BY <1>2, <2>1, SumAtMost
<1> QED
  BY <1>1, <1>2, <1>3, <1>4, <1>5, <1>6

LEMMA TotalRises ==
    ASSUME NEW S, IsFiniteSet(S), NEW f \in [S -> Nat], NEW g \in [S -> Nat],
           \A x \in S : f[x] <= g[x]
    PROVE  Total(f, S) \in Nat /\ Total(g, S) \in Nat /\ Total(f, S) <= Total(g, S)
<1>1. PICK it : Sums(f, S, it) /\ Total(f, S) = it[S]
  BY TotalIsSum
<1>2. PICK jt : Sums(g, S, jt) /\ Total(g, S) = jt[S]
  BY TotalIsSum
<1>3. it[S] \in Nat /\ jt[S] \in Nat
  BY <1>1, <1>2, SumRemove DEF AnyOrder
<1>4. it[S] <= jt[S]
  BY <1>1, <1>2, SumAtMost
<1> QED
  BY <1>1, <1>2, <1>3, <1>4

LEMMA TotalUpdate ==
    ASSUME NEW S, IsFiniteSet(S), NEW f \in [S -> Nat], NEW g \in [S -> Nat],
           NEW x \in S, \A y \in S \ {x} : f[y] = g[y]
    PROVE  Total(g, S) + f[x] = Total(f, S) + g[x]
<1>1. PICK it : Sums(f, S, it) /\ Total(f, S) = it[S]
  BY TotalIsSum
<1>2. PICK jt : Sums(g, S, jt) /\ Total(g, S) = jt[S]
  BY TotalIsSum
<1> QED
  BY <1>1, <1>2, SumUpdate

----------------------------------------------------------------------------
(***************************************************************************)
(* The calls of NodeFinish.                                                *)
(***************************************************************************)
Call == [state: {"running", "done"}, block: BlockInfo, steady: BOOLEAN, next: Nat,
         loaded: {<< >>} \cup {<<n>> : n \in Nat}]
Name == {"blockNum", "finishNum", "allTime"}
Bounded == {"finishNum", "allTime"}

\* What a call x has stored in the counter c so far, and what it is about.
Stored(c, x) ==
    IF x.state = "none" \/ ~x.steady THEN 0
    ELSE IF c = "finishNum" THEN IF x.next > 2 THEN x.block.ReqNum ELSE 0
    ELSE IF x.next > 3 THEN Interval * (x.next - 3) ELSE 0
Asked(x) == IF x.state # "none" /\ x.steady THEN x.block.ReqNum ELSE 0

CallOK(x) ==
    x.state # "none" =>
        /\ x.next >= 1 /\ x.next <= Len(Updates(x.block)) + 1
        /\ ~x.steady => x.next = 1 /\ x.loaded = << >>
        /\ x.loaded # << >> => x.next <= Len(Updates(x.block))

StoredSum(cs, c) == Total([r \in Round |-> Stored(c, cs[r])], Round)
AskedSum(cs) == Total([r \in Round |-> Asked(cs[r])], Round)

LEMMA RoundFinite == IsFiniteSet(Round)
  BY ProposerAssumption, FS_Interval DEF Round

LEMMA NoCallIsNone == NoCall.state = "none" /\ \A x \in Call : x.state # "none"
  BY DEF NoCall, Call

LEMMA Whole ==
    ASSUME NEW m \in Nat
    PROVE  /\ m \div Interval \in Nat
           /\ \A k \in Nat : k <= m \div Interval => Interval * k \in Nat /\ Interval * k <= m
<1> DEFINE q == m \div Interval
<1>1. /\ q \in Nat /\ m = Interval * q + (m % Interval) /\ m % Interval \in Nat
      /\ Interval \in Nat
  BY ProposerAssumption
<1> HIDE DEF q
<1>2. ASSUME NEW k \in Nat, k <= q PROVE Interval * k \in Nat /\ Interval * k <= m
  <2>1. Interval * k \in Nat /\ Interval * q \in Nat /\ Interval * (q - k) \in Nat
    BY <1>1, <1>2
  <2>2. Interval * q = Interval * k + Interval * (q - k)
    BY <1>1, <1>2
  <2> QED
    BY <1>1, <2>1, <2>2
<1> QED
  BY <1>1, <1>2 DEF q

LEMMA UpdatesLemma ==
    ASSUME NEW b \in BlockInfo
    PROVE  LET up == Updates(b)
           IN  /\ Len(up) = 2 + (b.ReqNum \div Interval) /\ Len(up) \in Nat
               /\ \A i \in 1..Len(up) :
                     /\ up[i].counter = IF i = 1 THEN "blockNum" ELSE IF i = 2 THEN "finishNum" ELSE "allTime"
                     /\ up[i].by = IF i = 1 THEN 1 ELSE IF i = 2 THEN b.ReqNum ELSE Interval
<1> DEFINE n == b.ReqNum \div Interval
           S == [counter: Name, by: Nat]
           s == <<[counter |-> "blockNum", by |-> 1], [counter |-> "finishNum", by |-> b.ReqNum]>>
           t == [i \in 1..n |-> [counter |-> "allTime", by |-> Interval]]
<1>1. b.ReqNum \in Nat /\ n \in Nat /\ Interval \in Nat
  BY Whole, ProposerAssumption DEF BlockInfo
<1> HIDE DEF n
<1>2. s \in Seq(S) /\ Len(s) = 2
  BY <1>1 DEF Name
<1>3. t \in Seq(S) /\ Len(t) = n
  <2>1. [counter |-> "allTime", by |-> Interval] \in S
    BY <1>1 DEF Name
  <2> HIDE DEF S
  <2> QED
    BY <1>1, <2>1, IsASeq, LenProperties
<1>4. Updates(b) = s \o t
  BY DEF Updates, n
<1>5. /\ Len(s \o t) = 2 + n
      /\ \A i \in 1..(2 + n) : (s \o t)[i] = IF i <= 2 THEN s[i] ELSE t[i - 2]
  <2> HIDE DEF s, t, S
  <2>1. /\ Len(s \o t) = Len(s) + Len(t)
        /\ \A i \in 1..(Len(s) + Len(t)) :
              (s \o t)[i] = IF i <= Len(s) THEN s[i] ELSE t[i - Len(s)]
    BY <1>2, <1>3, ConcatProperties
  <2> QED
    BY <1>1, <1>2, <1>3, <2>1
<1>6. ASSUME NEW i \in 1..(2 + n)
      PROVE  /\ Updates(b)[i].counter =
                    IF i = 1 THEN "blockNum" ELSE IF i = 2 THEN "finishNum" ELSE "allTime"
             /\ Updates(b)[i].by = IF i = 1 THEN 1 ELSE IF i = 2 THEN b.ReqNum ELSE Interval
  <2>1. CASE i = 1
    BY <1>4, <1>5, <2>1
  <2>2. CASE i = 2
    BY <1>4, <1>5, <2>2
  <2>3. CASE i > 2
    <3> DEFINE j == i - 2
    <3>1. j \in 1..n /\ ~(i <= 2) /\ ~(i = 1) /\ ~(i = 2)
      BY <1>1, <2>3
    <3>2. Updates(b)[i] = t[j]
      BY <1>4, <1>5, <3>1
    <3> HIDE DEF j
    <3>3. t[j] = [counter |-> "allTime", by |-> Interval]
      BY <3>1
    <3> QED
      BY <3>1, <3>2, <3>3
  <2> QED
    BY <1>1, <2>1, <2>2, <2>3
<1> QED
  BY <1>1, <1>4, <1>5, <1>6 DEF n

LEMMA StoredLemma ==
    ASSUME NEW x \in Call \cup {NoCall}, CallOK(x), NEW c \in Bounded
    PROVE  /\ Stored(c, x) \in Nat /\ Asked(x) \in Nat /\ Stored(c, x) <= Asked(x)
<1>1. CASE x = NoCall
  BY <1>1, NoCallIsNone DEF Stored, Asked
<1>2. CASE x \in Call /\ ~x.steady
  BY <1>2 DEF Stored, Asked
<1>3. CASE x \in Call /\ x.steady
  <2> DEFINE m == x.block.ReqNum
  <2>1. /\ x.block \in BlockInfo /\ m \in Nat /\ x.next \in Nat
        /\ x.next <= (2 + (m \div Interval)) + 1
    BY <1>3, NoCallIsNone, UpdatesLemma DEF Call, CallOK, BlockInfo
  <2>2. m \div Interval \in Nat
    BY <2>1, Whole
  <2>3. Asked(x) = m
    BY <1>3, NoCallIsNone DEF Asked
  <2>4. Stored(c, x) = IF c = "finishNum" THEN IF x.next > 2 THEN m ELSE 0
                       ELSE IF x.next > 3 THEN Interval * (x.next - 3) ELSE 0
    BY <1>3, NoCallIsNone DEF Stored
  <2> HIDE DEF m
  <2>5. CASE x.next > 3
    <3> DEFINE k == x.next - 3
    <3>1. k \in Nat /\ k <= m \div Interval
      BY <2>1, <2>2, <2>5
    <3> HIDE DEF k
    <3>2. Interval * k \in Nat /\ Interval * k <= m
      BY <2>1, <3>1, Whole
    <3> QED
      BY <2>1, <2>3, <2>4, <3>2 DEF k
  <2> QED
    BY <2>1, <2>3, <2>4, <2>5
<1> QED
  BY <1>1, <1>2, <1>3

CallType(cs) == cs \in [Round -> Call \cup {NoCall}] /\ \A r \in Round : CallOK(cs[r])

\* What has been stored is part of what was asked for.
LEMMA SumsOfCalls ==
    ASSUME NEW cs, CallType(cs)
    PROVE  /\ AskedSum(cs) \in Nat
           /\ \A c \in Bounded : StoredSum(cs, c) \in Nat /\ StoredSum(cs, c) <= AskedSum(cs)
<1> DEFINE g == [r \in Round |-> Asked(cs[r])]
<1>1. \A r \in Round : \A c \in Bounded :
         Stored(c, cs[r]) \in Nat /\ Asked(cs[r]) \in Nat /\ Stored(c, cs[r]) <= Asked(cs[r])
  BY StoredLemma DEF CallType
<1>2. ASSUME NEW c \in Bounded
      PROVE  StoredSum(cs, c) \in Nat /\ AskedSum(cs) \in Nat /\ StoredSum(cs, c) <= AskedSum(cs)
  <2> DEFINE f == [r \in Round |-> Stored(c, cs[r])]
  <2>1. f \in [Round -> Nat] /\ g \in [Round -> Nat] /\ \A r \in Round : f[r] <= g[r]
    BY <1>1
  <2>2. StoredSum(cs, c) = Total(f, Round) /\ AskedSum(cs) = Total(g, Round)
    BY DEF StoredSum, AskedSum
  <2> HIDE DEF f, g
  <2> QED
    BY <2>1, <2>2, RoundFinite, TotalRises
<1>3. "finishNum" \in Bounded
  BY DEF Bounded
<1> QED
  BY <1>2, <1>3

\* One call goes on, and what it stores is added to the sums.
Adds(cs, ds, r, y) ==
    \A c \in Bounded : StoredSum(ds, c) + Stored(c, cs[r]) = StoredSum(cs, c) + Stored(c, y)

LEMMA SumsMove ==
    ASSUME NEW cs, CallType(cs), NEW r \in Round, NEW y \in Call, CallOK(y),
           NEW ds, ds = [cs EXCEPT ![r] = y],
           \A c \in Bounded : Stored(c, cs[r]) <= Stored(c, y), Asked(cs[r]) <= Asked(y)
    PROVE  /\ CallType(ds) /\ AskedSum(cs) <= AskedSum(ds)
           /\ Adds(cs, ds, r, y)
           /\ \A c \in Bounded : StoredSum(cs, c) <= StoredSum(ds, c)
<1>1. CallType(ds) /\ ds[r] = y /\ \A q \in Round \ {r} : ds[q] = cs[q]
  BY DEF CallType
<1>2. \A q \in Round : \A c \in Bounded :
         /\ Stored(c, cs[q]) \in Nat /\ Asked(cs[q]) \in Nat
         /\ Stored(c, ds[q]) \in Nat /\ Asked(ds[q]) \in Nat
  BY <1>1, StoredLemma DEF CallType
<1>3. "finishNum" \in Bounded
  BY DEF Bounded
<1>4. AskedSum(cs) <= AskedSum(ds)
  <2> DEFINE f == [q \in Round |-> Asked(cs[q])]
             g == [q \in Round |-> Asked(ds[q])]
  <2>1. f \in [Round -> Nat] /\ g \in [Round -> Nat]
    BY <1>2, <1>3
  <2>2. \A q \in Round : f[q] <= g[q]
    <3> SUFFICES ASSUME NEW q \in Round PROVE Asked(cs[q]) <= Asked(ds[q])
      OBVIOUS
    <3>1. CASE q = r
      BY <1>1, <3>1
    <3>2. CASE q # r
      BY <1>1, <1>2, <1>3, <3>2
    <3> QED
      BY <3>1, <3>2
  <2>3. AskedSum(cs) = Total(f, Round) /\ AskedSum(ds) = Total(g, Round)
    BY DEF AskedSum
  <2> HIDE DEF f, g
  <2> QED
    BY <2>1, <2>2, <2>3, RoundFinite, TotalRises
<1>5. ASSUME NEW c \in Bounded
      PROVE  /\ StoredSum(cs, c) <= StoredSum(ds, c)
             /\ StoredSum(ds, c) + Stored(c, cs[r]) = StoredSum(cs, c) + Stored(c, y)
  <2> DEFINE f == [q \in Round |-> Stored(c, cs[q])]
             g == [q \in Round |-> Stored(c, ds[q])]
  <2>1. f \in [Round -> Nat] /\ g \in [Round -> Nat]
    BY <1>2
  <2>2. \A q \in Round \ {r} : f[q] = g[q]
    BY <1>1
  <2>3. f[r] = Stored(c, cs[r]) /\ g[r] = Stored(c, y)
    BY <1>1
  <2>4. StoredSum(cs, c) = Total(f, Round) /\ StoredSum(ds, c) = Total(g, Round)
    BY DEF StoredSum
  <2> HIDE DEF f, g
  <2>5. Total(g, Round) + f[r] = Total(f, Round) + g[r]
    BY <2>1, <2>2, RoundFinite, TotalUpdate
  <2>6. StoredSum(ds, c) \in Nat /\ StoredSum(cs, c) \in Nat /\ f[r] \in Nat /\ g[r] \in Nat
    BY <1>1, <2>1, SumsOfCalls
  <2>7. f[r] <= g[r]
    BY <2>3
  <2> QED
    BY <2>3, <2>4, <2>5, <2>6, <2>7
<1> QED
  BY <1>1, <1>4, <1>5 DEF Adds

----------------------------------------------------------------------------
(***************************************************************************)
(* A counter is never ahead of what the calls have stored in it: a call    *)
(* stores the sum of what it loaded and of its own share, and while it is  *)
(* between the two the others can only add to what is stored.              *)
(***************************************************************************)
LoadedOK(cs, x) ==
    x.state # "none" /\ x.loaded # << >> =>
        \A c \in Bounded :
            Updates(x.block)[x.next].counter = c => x.loaded[1] <= StoredSum(cs, c)

CallsInv ==
    /\ CallType(calls) /\ counters \in [Name -> Nat]
    /\ \A c \in Bounded : counters[c] <= StoredSum(calls, c)
    /\ \A r \in Round : LoadedOK(calls, calls[r])

\* The call of r becomes y; the counters are those of ct.
LEMMA CallMoves ==
    ASSUME CallsInv, NEW r \in Round, NEW y \in Call, CallOK(y),
           NEW ds, ds = [calls EXCEPT ![r] = y],
           \A c \in Bounded : Stored(c, calls[r]) <= Stored(c, y), Asked(calls[r]) <= Asked(y)
    PROVE  /\ CallType(ds) /\ AskedSum(calls) <= AskedSum(ds) /\ Adds(calls, ds, r, y)
           /\ \A c \in Bounded : counters[c] <= StoredSum(ds, c)
           /\ \A q \in Round \ {r} : LoadedOK(ds, ds[q])
<1>1. /\ CallType(ds) /\ AskedSum(calls) <= AskedSum(ds) /\ Adds(calls, ds, r, y)
      /\ \A c \in Bounded : StoredSum(calls, c) <= StoredSum(ds, c)
  BY SumsMove DEF CallsInv
<1>2. \A c \in Bounded : StoredSum(calls, c) \in Nat /\ StoredSum(ds, c) \in Nat /\ counters[c] \in Nat
  BY <1>1, SumsOfCalls DEF CallsInv, Bounded, Name
<1>3. \A c \in Bounded : counters[c] <= StoredSum(ds, c)
  <2> SUFFICES ASSUME NEW c \in Bounded PROVE counters[c] <= StoredSum(ds, c)
    OBVIOUS
  <2>1. counters[c] <= StoredSum(calls, c)
    BY DEF CallsInv
  <2> DEFINE m == StoredSum(calls, c)
             n == StoredSum(ds, c)
  <2>2. counters[c] <= m /\ m <= n /\ counters[c] \in Nat /\ m \in Nat /\ n \in Nat
    BY <1>1, <1>2, <2>1
  <2> HIDE DEF m, n
  <2>3. counters[c] <= n
    BY <2>2
  <2> QED
    BY <2>3 DEF n
<1>4. ASSUME NEW q \in Round \ {r} PROVE LoadedOK(ds, ds[q])
  <2>1. ds[q] = calls[q] /\ LoadedOK(calls, calls[q]) /\ calls[q] \in Call \cup {NoCall}
    BY DEF CallsInv, CallType
  <2>2. ASSUME calls[q].state # "none", calls[q].loaded # << >> PROVE calls[q].loaded[1] \in Nat
    <3>1. calls[q] \in Call
      BY <2>1, <2>2, NoCallIsNone
    <3> QED
      BY <2>2, <3>1 DEF Call
  <2> SUFFICES ASSUME ds[q].state # "none", ds[q].loaded # << >>, NEW c \in Bounded,
                      Updates(ds[q].block)[ds[q].next].counter = c
               PROVE  ds[q].loaded[1] <= StoredSum(ds, c)
    BY DEF LoadedOK
  <2> DEFINE l == calls[q].loaded[1]
             m == StoredSum(calls, c)
             n == StoredSum(ds, c)
  <2>3. l <= m /\ l \in Nat
    BY <2>1, <2>2 DEF LoadedOK
  <2>4. m <= n /\ m \in Nat /\ n \in Nat /\ ds[q].loaded[1] = l
    BY <1>1, <1>2, <2>1
  <2> HIDE DEF l, m, n
  <2>5. l <= n
    BY <2>3, <2>4
  <2> QED
    BY <2>4, <2>5 DEF n
<1> QED
  BY <1>1, <1>3, <1>4

LEMMA blockBackCalls ==
    ASSUME CallsInv, ProposerTypeOK, steady \in BOOLEAN, NEW i \in DOMAIN myBlocks, blockBack(i)
    PROVE  CallsInv' /\ AskedSum(calls) <= AskedSum(calls')
<1> DEFINE b == myBlocks[i]
           r == b.Round
           y == [state |-> "running", block |-> b, steady |-> steady, next |-> 1, loaded |-> << >>]
<1>1. b \in BlockInfo
  BY DEF ProposerTypeOK
<1>2. r \in Round /\ y \in Call
  BY <1>1 DEF BlockInfo, Call
<1>3. calls[r] = NoCall /\ calls' = [calls EXCEPT ![r] = y] /\ counters' = counters
  BY DEF blockBack
<1>4. CallOK(y)
  BY <1>1, UpdatesLemma DEF CallOK
<1>5. \A c \in Bounded : Stored(c, calls[r]) <= Stored(c, y)
  BY <1>3, NoCallIsNone DEF Stored
<1>6. Asked(calls[r]) <= Asked(y)
  BY <1>1, <1>3, NoCallIsNone DEF Asked, BlockInfo
<1>7. calls'[r] = y /\ LoadedOK(calls', y)
  BY <1>2, <1>3 DEF CallsInv, CallType, LoadedOK
<1> HIDE DEF y, r
<1>8. /\ CallType(calls') /\ AskedSum(calls) <= AskedSum(calls')
      /\ \A c \in Bounded : counters[c] <= StoredSum(calls', c)
      /\ \A q \in Round \ {r} : LoadedOK(calls', calls'[q])
  BY <1>2, <1>3, <1>4, <1>5, <1>6, CallMoves
<1> QED
  BY <1>3, <1>7, <1>8 DEF CallsInv

LEMMA NodeFinishCalls ==
    ASSUME CallsInv, NEW r \in Round, NodeFinish(r)
    PROVE  CallsInv' /\ AskedSum(calls) <= AskedSum(calls')
<1> DEFINE x == calls[r]
           up == Updates(x.block)
<1>1. x \in Call /\ x.state = "running" /\ CallOK(x) /\ LoadedOK(calls, x) /\ x.block \in BlockInfo
  <2>1. x.state = "running" /\ x \in Call \cup {NoCall} /\ CallOK(x) /\ LoadedOK(calls, x)
    BY DEF NodeFinish, CallsInv, CallType
  <2>2. x \in Call
    BY <2>1, NoCallIsNone
  <2> QED
    BY <2>1, <2>2 DEF Call
<1>2. /\ Len(up) \in Nat
      /\ \A i \in 1..Len(up) :
            /\ up[i].counter = IF i = 1 THEN "blockNum" ELSE IF i = 2 THEN "finishNum" ELSE "allTime"
            /\ up[i].by = IF i = 1 THEN 1 ELSE IF i = 2 THEN x.block.ReqNum ELSE Interval
  BY <1>1, UpdatesLemma
<1>3. /\ x.next \in Nat /\ x.next >= 1 /\ x.next <= Len(up) + 1
      /\ ~x.steady => x.next = 1 /\ x.loaded = << >>
      /\ x.loaded # << >> => x.next <= Len(up)
  BY <1>1 DEF CallOK, Call
<1>4. calls \in [Round -> Call \cup {NoCall}] /\ counters \in [Name -> Nat]
  BY DEF CallsInv, CallType
<1>5. ASSUME NEW y \in Call, CallOK(y), calls' = [calls EXCEPT ![r] = y], counters' = counters,
             \A c \in Bounded : Stored(c, y) = Stored(c, x), Asked(y) = Asked(x),
             \A ds : CallType(ds) /\ (\A c \in Bounded : counters[c] <= StoredSum(ds, c)) => LoadedOK(ds, y)
      PROVE  CallsInv' /\ AskedSum(calls) <= AskedSum(calls')
  <2>1. \A c \in Bounded : Stored(c, x) \in Nat /\ Asked(x) \in Nat
    BY <1>1, StoredLemma
  <2>2. (\A c \in Bounded : Stored(c, x) <= Stored(c, y)) /\ Asked(x) <= Asked(y)
    BY <1>5, <2>1 DEF Bounded
  <2>3. /\ CallType(calls') /\ AskedSum(calls) <= AskedSum(calls')
        /\ \A c \in Bounded : counters[c] <= StoredSum(calls', c)
        /\ \A q \in Round \ {r} : LoadedOK(calls', calls'[q])
    BY <1>5, <2>2, CallMoves
  <2>4. LoadedOK(calls', y) /\ calls'[r] = y
    BY <1>4, <1>5, <2>3
  <2> QED
    BY <1>4, <1>5, <2>3, <2>4 DEF CallsInv
<1>6. CASE /\ x.steady /\ x.loaded = << >> /\ x.next <= Len(up)
           /\ calls' = [calls EXCEPT ![r].loaded = <<counters[up[x.next].counter]>>]
           /\ UNCHANGED counters
  <2> DEFINE n == counters[up[x.next].counter]
             y == [x EXCEPT !.loaded = <<n>>]
  <2>1. x.next \in 1..Len(up) /\ up[x.next].counter \in Name /\ n \in Nat
    BY <1>2, <1>3, <1>4, <1>6 DEF Name
  <2>2. calls' = [calls EXCEPT ![r] = y] /\ counters' = counters
    BY <1>6
  <2>3. /\ y \in Call /\ y.state = x.state /\ y.block = x.block /\ y.steady = x.steady
        /\ y.next = x.next /\ y.loaded = <<n>>
    <3> HIDE DEF n
    <3> QED
      BY <1>1, <2>1 DEF Call
  <2> HIDE DEF y
  <2>4. CallOK(y)
    BY <1>3, <1>6, <2>3 DEF CallOK
  <2>5. (\A c \in Bounded : Stored(c, y) = Stored(c, x)) /\ Asked(y) = Asked(x)
    BY <2>3 DEF Stored, Asked
  <2>6. ASSUME NEW ds, \A c \in Bounded : counters[c] <= StoredSum(ds, c) PROVE LoadedOK(ds, y)
    BY <2>3, <2>6 DEF LoadedOK
  <2> QED
    BY <1>5, <2>2, <2>3, <2>4, <2>5, <2>6
<1>7. CASE /\ x.loaded # << >>
           /\ counters' = [counters EXCEPT ![up[x.next].counter] = x.loaded[1] + up[x.next].by]
           /\ calls' = [calls EXCEPT ![r].loaded = << >>, ![r].next = @ + 1]
  <2> DEFINE y == [x EXCEPT !.loaded = << >>, !.next = @ + 1]
             n == x.loaded[1]
             d == up[x.next].counter
             by == up[x.next].by
  <2>1. x.next \in 1..Len(up) /\ d \in Name /\ by \in Nat /\ n \in Nat /\ x.steady
    <3>1. x.next \in 1..Len(up)
      BY <1>3, <1>7
    <3>2. x.block.ReqNum \in Nat /\ Interval \in Nat /\ n \in Nat
      BY <1>1, <1>7, ProposerAssumption DEF Call, BlockInfo
    <3>3. x.steady
      BY <1>1, <1>3, <1>7 DEF Call
    <3> QED
      BY <1>2, <3>1, <3>2, <3>3 DEF Name
  <2>2. calls' = [calls EXCEPT ![r] = y]
    BY <1>7
  <2>3. /\ y \in Call /\ y.state = x.state /\ y.block = x.block /\ y.steady = x.steady
        /\ y.next = x.next + 1 /\ y.loaded = << >>
    <3> DEFINE k == x.next + 1
    <3>1. k \in Nat
      BY <1>3
    <3>2. y = [x EXCEPT !.loaded = << >>, !.next = k]
      OBVIOUS
    <3> HIDE DEF k, y
    <3>3. y = [state |-> x.state, block |-> x.block, steady |-> x.steady, next |-> k, loaded |-> << >>]
      BY <1>1, <3>2 DEF Call
    <3>4. y \in Call
      BY <1>1, <3>1, <3>3 DEF Call
    <3> QED
      BY <3>3, <3>4 DEF k
  <2> HIDE DEF y
  <2>4. CallOK(y)
    BY <1>3, <2>1, <2>3 DEF CallOK
  <2>5. \A c \in Bounded : Stored(c, y) = Stored(c, x) + (IF c = d THEN by ELSE 0)
    <3> SUFFICES ASSUME NEW c \in Bounded
                 PROVE  Stored(c, y) = Stored(c, x) + (IF c = d THEN by ELSE 0)
      OBVIOUS
    <3>1. x.state # "none" /\ y.state # "none" /\ y.steady /\ x.steady
      BY <1>1, <2>1, <2>3
    <3> DEFINE m == x.block.ReqNum
               k == x.next
    <3>2. m \in Nat /\ Interval \in Nat /\ k \in Nat /\ k >= 1
      BY <1>1, <1>3, ProposerAssumption DEF BlockInfo
    <3>3. /\ d = IF k = 1 THEN "blockNum" ELSE IF k = 2 THEN "finishNum" ELSE "allTime"
          /\ by = IF k = 1 THEN 1 ELSE IF k = 2 THEN m ELSE Interval
      BY <1>2, <2>1
    <3>4. Stored(c, x) = IF c = "finishNum" THEN IF k > 2 THEN m ELSE 0
                         ELSE IF k > 3 THEN Interval * (k - 3) ELSE 0
      BY <3>1 DEF Stored
    <3>5. Stored(c, y) = IF c = "finishNum" THEN IF k + 1 > 2 THEN m ELSE 0
                         ELSE IF k + 1 > 3 THEN Interval * ((k + 1) - 3) ELSE 0
      BY <2>3, <3>1 DEF Stored
    <3> HIDE DEF m, k, d, by
    <3>6. CASE c = "finishNum"
      BY <3>2, <3>3, <3>4, <3>5, <3>6
    <3>7. CASE c = "allTime"
      <4>1. CASE k < 3
        BY <3>2, <3>3, <3>4, <3>5, <3>7, <4>1
      <4>2. CASE k >= 3
        <5>1. Interval * ((k + 1) - 3) = Interval * (k - 3) + Interval
          BY <3>2, <4>2
        <5>2. k = 3 => Interval * (k - 3) = 0
          BY <3>2
        <5> DEFINE e == Interval * (k - 3)
        <5>3. Stored(c, x) = e /\ Stored(c, y) = e + Interval
          BY <3>2, <3>4, <3>5, <3>7, <4>2, <5>1, <5>2
        <5>4. c = d /\ by = Interval
          BY <3>2, <3>3, <3>7, <4>2
        <5> HIDE DEF e
        <5> QED
          BY <5>3, <5>4
      <4> QED
        BY <3>2, <4>1, <4>2
    <3> QED
      BY <3>6, <3>7 DEF Bounded
  <2>6. Asked(y) = Asked(x)
    BY <2>3 DEF Asked
  <2>7. \A c \in Bounded : Stored(c, x) \in Nat /\ Stored(c, y) \in Nat /\ Asked(x) \in Nat
    BY <1>1, <2>3, <2>4, StoredLemma
  <2>8. (\A c \in Bounded : Stored(c, x) <= Stored(c, y)) /\ Asked(x) <= Asked(y)
    <3>1. "finishNum" \in Bounded
      BY DEF Bounded
    <3> HIDE DEF d, by
    <3> QED
      BY <2>1, <2>5, <2>6, <2>7, <3>1
  <2>9. /\ CallType(calls') /\ AskedSum(calls) <= AskedSum(calls') /\ Adds(calls, calls', r, y)
        /\ \A c \in Bounded : counters[c] <= StoredSum(calls', c)
        /\ \A q \in Round \ {r} : LoadedOK(calls', calls'[q])
    BY <2>2, <2>3, <2>4, <2>8, CallMoves
  <2>10. \A c \in Bounded : StoredSum(calls', c) + Stored(c, x) = StoredSum(calls, c) + Stored(c, y)
    BY <2>9 DEF Adds
  <2>11. ASSUME NEW c \in Bounded PROVE counters'[c] <= StoredSum(calls', c)
    <3>1. CASE c # d
      BY <1>4, <1>7, <2>9, <3>1 DEF Bounded, Name
    <3>2. CASE c = d
      <4>1. counters'[c] = n + by
        BY <1>4, <1>7, <2>1, <3>2
      <4>2. n <= StoredSum(calls, c)
        BY <1>1, <1>7, <3>2 DEF LoadedOK
      <4> DEFINE s == StoredSum(calls, c)
                 t == StoredSum(calls', c)
                 v == Stored(c, x)
                 w == Stored(c, y)
      <4>3. s \in Nat /\ t \in Nat /\ v \in Nat /\ w \in Nat /\ t + v = s + w /\ w = v + by
        BY <2>5, <2>7, <2>9, <2>10, <3>2, SumsOfCalls DEF CallsInv
      <4> HIDE DEF s, t, v, w, n, by, d
      <4>4. n + by <= t
        BY <2>1, <4>2, <4>3 DEF s
      <4> QED
        BY <4>1, <4>4 DEF t
    <3> QED
      BY <3>1, <3>2
  <2>12. calls'[r] = y /\ LoadedOK(calls', y)
    BY <1>4, <2>2, <2>3 DEF LoadedOK
  <2>13. counters' \in [Name -> Nat]
    <3>1. n + by \in Nat /\ counters' = [counters EXCEPT ![d] = n + by]
      BY <1>7, <2>1
    <3> HIDE DEF n, by, d
    <3> QED
      BY <1>4, <2>1, <3>1
  <2> QED
    BY <2>9, <2>11, <2>12, <2>13 DEF CallsInv
<1>8. CASE /\ ~x.steady \/ (x.loaded = << >> /\ x.next > Len(up))
           /\ calls' = [calls EXCEPT ![r].state = "done"]
           /\ UNCHANGED counters
  <2> DEFINE y == [x EXCEPT !.state = "done"]
  <2>1. calls' = [calls EXCEPT ![r] = y] /\ counters' = counters
    BY <1>8
  <2>2. /\ y \in Call /\ y.state = "done" /\ y.block = x.block /\ y.steady = x.steady
        /\ y.next = x.next /\ y.loaded = x.loaded
    BY <1>1 DEF Call
  <2> HIDE DEF y
  <2>3. CallOK(y) /\ x.loaded = << >>
    BY <1>3, <1>8, <2>2 DEF CallOK
  <2>4. (\A c \in Bounded : Stored(c, y) = Stored(c, x)) /\ Asked(y) = Asked(x)
    BY <1>1, <2>2 DEF Stored, Asked
  <2>5. \A ds : LoadedOK(ds, y)
    BY <2>2, <2>3 DEF LoadedOK
  <2> QED
    BY <1>5, <2>1, <2>2, <2>3, <2>4, <2>5
<1> QED
  BY <1>6, <1>7, <1>8 DEF NodeFinish

----------------------------------------------------------------------------
(***************************************************************************)
(* The reports.                                                            *)
(***************************************************************************)
Finished == DOMAIN executionNumber

ReportInv ==
    /\ stats \in Seq(Nat) /\ (Len(stats) >= 2 => stats[2] <= AskedSum(calls))
    /\ executionNumber \in [Finished -> Nat]
    /\ Self \in Finished => executionNumber[Self] <= AskedSum(calls)

LEMMA NextReports ==
    ASSUME CallsInv, CallsInv', AskedSum(calls) <= AskedSum(calls'), ReportInv,
           [BenchNext]_benchVars
    PROVE  ReportInv'
<1>1. AskedSum(calls) \in Nat /\ AskedSum(calls') \in Nat
  BY SumsOfCalls DEF CallsInv
<1>2. /\ stats \in Seq(Nat) /\ Len(stats) \in Nat
      /\ Len(stats) >= 2 => stats[2] \in Nat
  BY LenProperties, ElementOfSeq DEF ReportInv
<1>3. CASE UNCHANGED <<stats, executionNumber>>
  <2>1. Finished' = Finished
    BY <1>3 DEF Finished
  <2>2. Self \in Finished => executionNumber[Self] \in Nat
    BY DEF ReportInv
  <2> QED
    BY <1>1, <1>2, <1>3, <2>1, <2>2 DEF ReportInv
<1>4. CASE Stop
  <2> DEFINE n == counters[Counter[Len(stats) + 1]]
  <2>1. /\ Len(stats) < 3 /\ stats' = Append(stats, n)
        /\ UNCHANGED <<calls, executionNumber>>
    BY <1>4 DEF Stop, coorSide
  <2>2. n \in Nat /\ (Len(stats) = 1 => n = counters["finishNum"])
    <3> DEFINE m == Len(stats)
    <3>0. m \in Nat /\ m < 3
      BY <1>2, <2>1
    <3> HIDE DEF m
    <3>1. m \in {0, 1, 2}
      BY <3>0
    <3>2. /\ Counter[0 + 1] = "blockNum" /\ Counter[1 + 1] = "finishNum" /\ Counter[2 + 1] = "allTime"
      BY DEF Counter
    <3> QED
      BY <3>1, <3>2 DEF CallsInv, Name, m
  <2> HIDE DEF n
  <2>3. counters["finishNum"] <= AskedSum(calls)
    <3>1. "finishNum" \in Bounded /\ "finishNum" \in Name
      BY DEF Bounded, Name
    <3>2. StoredSum(calls, "finishNum") \in Nat /\ StoredSum(calls, "finishNum") <= AskedSum(calls)
      BY <3>1, SumsOfCalls DEF CallsInv
    <3>3. counters["finishNum"] \in Nat /\ counters["finishNum"] <= StoredSum(calls, "finishNum")
      BY <3>1 DEF CallsInv
    <3> QED
      BY <1>1, <3>2, <3>3
  <2>4. /\ stats' \in Seq(Nat) /\ Len(stats') = Len(stats) + 1
        /\ stats'[Len(stats) + 1] = n
        /\ \A i \in 1..Len(stats) : stats'[i] = stats[i]
    BY <1>2, <2>1, <2>2, AppendProperties
  <2>5. Len(stats') >= 2 => stats'[2] <= AskedSum(calls)
    <3>1. CASE Len(stats) = 1
      BY <2>2, <2>3, <2>4, <3>1
    <3>2. CASE Len(stats) >= 2
      BY <1>2, <2>4, <3>2 DEF ReportInv
    <3> DEFINE m == Len(stats)
    <3>3. m \in Nat /\ Len(stats') = m + 1
      BY <1>2, <2>4
    <3> HIDE DEF m
    <3>4. Len(stats') >= 2 => m = 1 \/ m >= 2
      BY <3>3
    <3> QED
      BY <3>1, <3>2, <3>4 DEF m
  <2>6. Finished' = Finished
    BY <2>1 DEF Finished
  <2> QED
    BY <2>1, <2>4, <2>5, <2>6 DEF ReportInv
<1>5. ASSUME NEW id, NEW number \in Nat, Finish(id, number),
             UNCHANGED <<calls, stats>>, id = Self => number <= AskedSum(calls)
      PROVE  ReportInv'
  <2>1. executionNumber' = [x \in Finished \cup {id} |-> IF x = id THEN number ELSE executionNumber[x]]
    BY <1>5 DEF Finish, Finished
  <2>2. /\ Finished' = Finished \cup {id} /\ executionNumber' \in [Finished' -> Nat]
        /\ executionNumber'[id] = number
        /\ \A x \in Finished : x # id => executionNumber'[x] = executionNumber[x]
    BY <2>1 DEF ReportInv, Finished
  <2>3. Self \in Finished' => executionNumber'[Self] <= AskedSum(calls)
    BY <1>5, <2>2 DEF ReportInv
  <2> QED
    BY <1>5, <2>2, <2>3 DEF ReportInv
<1>6. CASE SelfFinishes
  <2>1. Len(stats) = 3 /\ Finish(Self, stats[2]) /\ UNCHANGED <<calls, stats>>
    BY <1>6 DEF SelfFinishes, clientSide
  <2>2. stats[2] \in Nat /\ stats[2] <= AskedSum(calls)
    BY <1>2, <2>1 DEF ReportInv
  <2> QED
    BY <1>5, <2>1, <2>2
<1>7. ASSUME NEW id \in Others, OtherFinishes(id) PROVE ReportInv'
  <2>1. PICK number \in Reported : Finish(id, number)
    BY <1>7 DEF OtherFinishes
  <2>2. UNCHANGED <<calls, stats>>
    BY <1>7 DEF OtherFinishes, clientSide
  <2> QED
    BY <1>5, <2>1, <2>2, BenchAssumption
<1>8. CASE PrintReport
  BY <1>3, <1>8 DEF PrintReport, clientSide
<1>9. CASE \/ SendRequest \/ NodeStep \/ WarmUpEnds
           \/ \E i \in DOMAIN myBlocks : blockBack(i)
           \/ \E r \in Round : NodeFinish(r)
           \/ StopClient \/ UNCHANGED benchVars
  BY <1>3, <1>9 DEF SendRequest, NodeStep, WarmUpEnds, blockBack, NodeFinish, StopClient,
                    benchVars, clientSide, coorSide
<1> QED
  BY <1>4, <1>6, <1>7, <1>8, <1>9 DEF BenchNext

----------------------------------------------------------------------------
(***************************************************************************)
(* The node of a test run is a Proposer.                                   *)
(***************************************************************************)
ClientInv ==
    /\ startTime \in 0..MaxRequest /\ received \subseteq 1..startTime
    /\ steady \in BOOLEAN

LEMMA NextIsProposerStep ==
    ClientInv /\ [BenchNext]_benchVars => [ProposerNext]_proposerVars /\ ClientInv'
<1> SUFFICES ASSUME ClientInv, [BenchNext]_benchVars
             PROVE  [ProposerNext]_proposerVars /\ ClientInv'
  OBVIOUS
<1>0. MaxRequest \in Nat /\ startTime \in Nat /\ startTime <= MaxRequest
  BY ProposerAssumption DEF ClientInv
<1>1. CASE UNCHANGED <<proposerVars, startTime>> /\ steady' \in BOOLEAN
  BY <1>1 DEF ClientInv, proposerVars, clientVars
<1>2. CASE SendRequest
  <2>1. /\ startTime' = startTime + 1 /\ startTime < MaxRequest
        /\ UNCHANGED <<proposerVars, steady>>
    BY <1>2 DEF SendRequest
  <2>2. startTime' \in 0..MaxRequest /\ received' = received /\ 1..startTime \subseteq 1..startTime'
    BY <1>0, <2>1 DEF proposerVars, clientVars
  <2> QED
    BY <2>1, <2>2 DEF ClientInv
<1>3. CASE NodeStep
  <2>1. UNCHANGED <<startTime, steady>>
    BY <1>3 DEF NodeStep, clientSide
  <2>2. ASSUME NEW k \in 1..startTime, ReceiveRequest(k)
        PROVE  [ProposerNext]_proposerVars /\ ClientInv'
    <3>1. k \in Request /\ received' = received \cup {k}
      BY <1>0, <2>2 DEF Request, ReceiveRequest
    <3> QED
      BY <2>1, <2>2, <3>1 DEF ProposerNext, ClientInv
  <2>3. ASSUME \/ TimerFires \/ TakeRequest \/ TakeRound \/ SendBlock \/ Announce
               \/ Propose \/ \E rounds \in Rises : StartRounds(rounds)
        PROVE  [ProposerNext]_proposerVars /\ ClientInv'
    <3>1. ProposerNext
      BY <2>3 DEF ProposerNext
    <3>2. received' = received
      BY <2>3 DEF TimerFires, TakeRequest, TakeRound, SendBlock, Announce, Propose, StartRounds, clientVars
    <3> QED
      BY <2>1, <3>1, <3>2 DEF ClientInv
  <2> QED
    BY <1>3, <2>2, <2>3 DEF NodeStep
<1>4. CASE \/ WarmUpEnds \/ \E i \in DOMAIN myBlocks : blockBack(i)
           \/ \E r \in Round : NodeFinish(r)
           \/ StopClient \/ Stop \/ SelfFinishes
           \/ \E id \in Others : OtherFinishes(id)
           \/ PrintReport \/ UNCHANGED benchVars
  <2>1. UNCHANGED <<proposerVars, startTime>>
    BY <1>4 DEF WarmUpEnds, blockBack, NodeFinish, StopClient, Stop, SelfFinishes, OtherFinishes,
                PrintReport, benchVars, clientSide
  <2>2. steady' \in BOOLEAN
    BY <1>4 DEF WarmUpEnds, blockBack, NodeFinish, StopClient, Stop, SelfFinishes, OtherFinishes,
                PrintReport, benchVars, ClientInv
  <2> QED
    BY <1>1, <2>1, <2>2
<1> QED
  BY <1>2, <1>3, <1>4 DEF BenchNext

LEMMA NextCalls ==
    ASSUME CallsInv, ProposerTypeOK, ClientInv, [BenchNext]_benchVars
    PROVE  CallsInv' /\ AskedSum(calls) <= AskedSum(calls')
<1>1. CASE UNCHANGED <<calls, counters>>
  <2>1. AskedSum(calls) \in Nat
    BY SumsOfCalls DEF CallsInv
  <2> QED
    BY <1>1, <2>1 DEF CallsInv
<1>2. ASSUME NEW i \in DOMAIN myBlocks, blockBack(i)
      PROVE  CallsInv' /\ AskedSum(calls) <= AskedSum(calls')
  BY <1>2, blockBackCalls DEF ClientInv
<1>3. ASSUME NEW r \in Round, NodeFinish(r)
      PROVE  CallsInv' /\ AskedSum(calls) <= AskedSum(calls')
  BY <1>3, NodeFinishCalls
<1>4. CASE \/ SendRequest \/ NodeStep \/ WarmUpEnds
           \/ StopClient \/ Stop \/ SelfFinishes
           \/ \E id \in Others : OtherFinishes(id)
           \/ PrintReport \/ UNCHANGED benchVars
  <2>1. UNCHANGED <<calls, counters>>
    BY <1>4 DEF SendRequest, NodeStep, WarmUpEnds, StopClient, Stop, SelfFinishes, OtherFinishes,
                PrintReport, benchVars, clientSide
  <2> QED
    BY <1>1, <2>1
<1> QED
  BY <1>2, <1>3, <1>4 DEF BenchNext

----------------------------------------------------------------------------
\* The sums of Bench are these totals.
LEMMA NumberIsTotal ==
    ASSUME NEW A \in SUBSET Round, \A r \in A : calls[r].block.ReqNum \in Nat
    PROVE  NumberOf(A) = Total([r \in Round |-> IF r \in A THEN calls[r].block.ReqNum ELSE 0], Round)
<1> DEFINE f == [r \in Round |-> IF r \in A THEN calls[r].block.ReqNum ELSE 0]
<1>1. IsFiniteSet(A)
  BY RoundFinite, FS_Subset
<1>2. PICK it : Sums(Numbers(A), A, it) /\ NumberOf(A) = it[A]
  BY <1>1, NumberIsSum
<1>3. /\ Numbers(A) \in [A -> Nat] /\ f \in [Round -> Nat]
      /\ \A r \in Round : f[r] = IF r \in A THEN Numbers(A)[r] ELSE 0
  BY DEF Numbers
<1> HIDE DEF f
<1>4. Total(Numbers(A), A) = it[A]
  <2>1. \A r \in A : Numbers(A)[r] = IF r \in A THEN Numbers(A)[r] ELSE 0
    OBVIOUS
  <2> QED
    BY <1>1, <1>2, <1>3, <2>1, SumIsTotal
<1>5. PICK jt : Sums(f, Round, jt) /\ Total(f, Round) = jt[Round]
  BY <1>3, RoundFinite, TotalIsSum
<1>6. Total(Numbers(A), A) = jt[Round]
  BY <1>1, <1>3, <1>5, RoundFinite, SumIsTotal
<1>7. NumberOf(A) = Total(f, Round)
  BY <1>2, <1>4, <1>5, <1>6
<1> QED
  BY <1>7 DEF f

LEMMA SteadyIsAsked == CallsInv => SteadyNumber = AskedSum(calls)
<1> SUFFICES ASSUME CallsInv PROVE SteadyNumber = AskedSum(calls)
  OBVIOUS
<1> DEFINE A == {r \in Running : calls[r].steady}
<1>1. calls \in [Round -> Call \cup {NoCall}] /\ A \in SUBSET Round
  BY DEF CallsInv, CallType, Running
<1>2. ASSUME NEW r \in Round
      PROVE  /\ r \in A => calls[r].block.ReqNum \in Nat
             /\ Asked(calls[r]) = IF r \in A THEN calls[r].block.ReqNum ELSE 0
  <2>1. CASE calls[r] = NoCall
    BY <2>1, NoCallIsNone DEF Asked, Running
  <2>2. CASE calls[r] \in Call
    <3>1. calls[r].state # "none" /\ calls[r].block.ReqNum \in Nat /\ calls[r].steady \in BOOLEAN
      BY <2>2, NoCallIsNone DEF Call, BlockInfo
    <3>2. r \in A <=> calls[r].steady
      BY <3>1 DEF Running
    <3> QED
      BY <3>1, <3>2 DEF Asked
  <2> QED
    BY <1>1, <2>1, <2>2
<1>3. SteadyNumber = NumberOf(A)
  BY DEF SteadyNumber, NumberOf, Timed
<1> HIDE DEF A
<1>4. NumberOf(A) = Total([r \in Round |-> IF r \in A THEN calls[r].block.ReqNum ELSE 0], Round)
  BY <1>1, <1>2, NumberIsTotal
<1>5. [r \in Round |-> Asked(calls[r])] = [r \in Round |-> IF r \in A THEN calls[r].block.ReqNum ELSE 0]
  BY <1>2
<1> QED
  BY <1>3, <1>4, <1>5 DEF AskedSum

\* What the calls, the reports and the node keep.
BenchInv == Inv /\ ClientInv /\ CallsInv /\ ReportInv

LEMMA InitCalls == BenchInit => CallsInv /\ AskedSum(calls) \in Nat
<1> SUFFICES ASSUME BenchInit PROVE CallsInv /\ AskedSum(calls) \in Nat
  OBVIOUS
<1>1. calls = [r \in Round |-> NoCall]
  BY DEF BenchInit
<1>2. CallType(calls)
  BY <1>1, NoCallIsNone DEF CallType, CallOK
<1>3. counters = [c \in Name |-> 0]
  <2>1. {Counter[i] : i \in 1..3} = Name
    <3>1. Counter[1] = "blockNum" /\ Counter[2] = "finishNum" /\ Counter[3] = "allTime"
      BY DEF Counter
    <3>2. 1..3 = {1, 2, 3}
      OBVIOUS
    <3> QED
      BY <3>1, <3>2 DEF Name
  <2> QED
    BY <2>1 DEF BenchInit
<1>4. \A c \in Bounded : c \in Name /\ counters[c] = 0
  BY <1>3 DEF Bounded, Name
<1>5. AskedSum(calls) \in Nat /\ \A c \in Bounded : StoredSum(calls, c) \in Nat
  BY <1>2, SumsOfCalls
<1>6. counters \in [Name -> Nat]
  BY <1>3
<1>7. \A c \in Bounded : counters[c] <= StoredSum(calls, c)
  <2> SUFFICES ASSUME NEW c \in Bounded PROVE counters[c] <= StoredSum(calls, c)
    OBVIOUS
  <2> DEFINE m == StoredSum(calls, c)
  <2>1. m \in Nat /\ counters[c] = 0
    BY <1>4, <1>5
  <2> HIDE DEF m
  <2>2. counters[c] <= m
    BY <2>1
  <2> QED
    BY <2>2 DEF m
<1>8. \A r \in Round : LoadedOK(calls, calls[r])
  BY <1>1, NoCallIsNone DEF LoadedOK
<1> QED
  BY <1>2, <1>5, <1>6, <1>7, <1>8 DEF CallsInv

LEMMA InitReports == BenchInit => ReportInv
<1> SUFFICES ASSUME BenchInit PROVE ReportInv
  OBVIOUS
<1>1. stats = << >> /\ executionNumber = << >>
  BY DEF BenchInit
<1>2. stats \in Seq(Nat) /\ Len(stats) = 0 /\ ~(0 >= 2)
  BY <1>1, EmptySeq
<1>3. Finished = {} /\ executionNumber \in [Finished -> Nat]
  BY <1>1 DEF Finished
<1> QED
  BY <1>2, <1>3 DEF ReportInv

LEMMA InitBench == BenchInit => BenchInv
<1> SUFFICES ASSUME BenchInit PROVE BenchInv
  OBVIOUS
<1>1. Inv
  BY InitInv DEF BenchInit
<1>2. ClientInv
  <2>1. received = {} /\ startTime = 0 /\ steady = FALSE
    BY DEF BenchInit, ProposerInit
  <2>2. 0 \in 0..MaxRequest
    BY ProposerAssumption
  <2> QED
    BY <2>1, <2>2 DEF ClientInv
<1> QED
  BY <1>1, <1>2, InitCalls, InitReports DEF BenchInv

LEMMA NextBench == BenchInv /\ [BenchNext]_benchVars => BenchInv'
<1> SUFFICES ASSUME BenchInv, [BenchNext]_benchVars PROVE BenchInv'
  OBVIOUS
<1>1. [ProposerNext]_proposerVars /\ ClientInv'
  BY NextIsProposerStep DEF BenchInv
<1>2. Inv'
  BY <1>1, NextInv DEF BenchInv
<1>3. ProposerTypeOK
  BY DEF BenchInv, Inv, TypeInv
<1>4. CallsInv' /\ AskedSum(calls) <= AskedSum(calls')
  BY <1>3, NextCalls DEF BenchInv
<1>5. ReportInv'
  BY <1>4, NextReports DEF BenchInv
<1> QED
  BY <1>1, <1>2, <1>4, <1>5 DEF BenchInv

LEMMA BenchInvariant == BenchSpec => []BenchInv
  BY InitBench, NextBench, PTL DEF BenchSpec

(***************************************************************************)
(* A node that is tested with a client and a coordinator is the Proposer   *)
(* of the module it extends: everything proved of it holds here.           *)
(***************************************************************************)
THEOREM NodeIsProposer == BenchSpec => ProposerSpec
<1>1. BenchInit => ProposerInit
  BY DEF BenchInit
<1>2. BenchInv /\ [BenchNext]_benchVars => [ProposerNext]_proposerVars
  BY NextIsProposerStep DEF BenchInv
<1> QED
  BY <1>1, <1>2, BenchInvariant, PTL DEF BenchSpec, ProposerSpec

(***************************************************************************)
(* However the calls of NodeFinish and the reads of Client.Stop interleave *)
(* and whatever additions are lost, neither the client nor the coordinator *)
(* counts more transactions than were executed after the warm-up.          *)
(***************************************************************************)
THEOREM CountsAreBounded == BenchSpec => []NeverOvercounts
<1>1. BenchInv => NeverOvercounts
  <2> SUFFICES ASSUME BenchInv PROVE NeverOvercounts
    OBVIOUS
  <2>1. AskedSum(calls) = SteadyNumber /\ AskedSum(calls) \in Nat
    BY SteadyIsAsked, SumsOfCalls DEF BenchInv, CallsInv
  <2>2. ASSUME NEW c \in Bounded PROVE counters[c] <= AskedSum(calls)
    <3> DEFINE m == StoredSum(calls, c)
               n == AskedSum(calls)
    <3>1. counters[c] <= m /\ m <= n /\ m \in Nat /\ n \in Nat /\ counters[c] \in Nat
      BY SumsOfCalls DEF BenchInv, CallsInv, Bounded, Name
    <3> HIDE DEF m, n
    <3>2. counters[c] <= n
      BY <3>1
    <3> QED
      BY <3>2 DEF n
  <2>3. Self \in Finished => executionNumber[Self] <= AskedSum(calls)
    BY DEF BenchInv, ReportInv
  <2> QED
    BY <2>1, <2>2, <2>3 DEF NeverOvercounts, Bounded, Finished
<1> QED
  BY <1>1, BenchInvariant, PTL

----------------------------------------------------------------------------
(***************************************************************************)
(* Calls that overlap no other one.  While such a call runs no other is    *)
(* between its load and its store; so what is stored over their sum has    *)
(* been loaded when it was counted.                                        *)
(***************************************************************************)
Added(cs, al, r) == IF r \in al /\ cs[r].next > 2 THEN cs[r].block.ReqNum ELSE 0
AloneSum(cs, al) == Total([r \in Round |-> Added(cs, al, r)], Round)

AloneCalls(cs, al) ==
    /\ al \subseteq Round
    /\ \A r \in al : cs[r].state # "none" /\ cs[r].steady
    /\ \A r \in al, q \in Round :
          cs[r].state = "running" /\ cs[q].state = "running" /\ cs[q].steady => q = r

AloneInv ==
    /\ AloneCalls(calls, alone)
    /\ \A r \in Round : calls[r].state # "none" /\ calls[r].loaded # << >> => calls[r].state = "running"
    /\ AloneSum(calls, alone) <= counters["finishNum"]
    /\ \A r \in Round :
          calls[r].state # "none" /\ calls[r].loaded # << >> /\ calls[r].next = 2
             => AloneSum(calls, alone) <= calls[r].loaded[1]

LEMMA AddedType ==
    ASSUME NEW cs, CallType(cs), NEW al, AloneCalls(cs, al)
    PROVE  /\ \A r \in Round : Added(cs, al, r) \in Nat
           /\ [r \in Round |-> Added(cs, al, r)] \in [Round -> Nat]
           /\ AloneSum(cs, al) \in Nat
<1>1. \A r \in Round : Added(cs, al, r) \in Nat
  <2> SUFFICES ASSUME NEW r \in Round, r \in al PROVE cs[r].block.ReqNum \in Nat
    BY DEF Added
  <2>1. cs[r] \in Call
    BY NoCallIsNone DEF CallType, AloneCalls
  <2> QED
    BY <2>1 DEF Call, BlockInfo
<1> DEFINE f == [r \in Round |-> Added(cs, al, r)]
<1>2. f \in [Round -> Nat] /\ AloneSum(cs, al) = Total(f, Round)
  BY <1>1 DEF AloneSum
<1> HIDE DEF f
<1>3. Total(f, Round) \in Nat
  <2>1. \A r \in Round : f[r] <= f[r]
    BY <1>2
  <2> QED
    BY <1>2, <2>1, RoundFinite, TotalRises
<1> QED
  BY <1>1, <1>2, <1>3 DEF f

\* What NodeFinish makes of a call.
LEMMA NodeFinishStep ==
    ASSUME CallsInv, NEW r \in Round, NodeFinish(r)
    PROVE  LET x == calls[r]
               up == Updates(x.block)
           IN  \E y \in Call :
                  /\ calls' = [calls EXCEPT ![r] = y] /\ y.block = x.block /\ y.steady = x.steady
                  /\ y.loaded # << >> => y.state = "running"
                  /\ \/ /\ y.loaded = <<counters[up[x.next].counter]>>
                        /\ y.next = x.next /\ x.next \in 1..Len(up) /\ counters' = counters
                     \/ /\ x.loaded # << >> /\ y.loaded = << >>
                        /\ y.next = x.next + 1 /\ x.next \in 1..Len(up)
                        /\ counters' = [counters EXCEPT ![up[x.next].counter] = x.loaded[1] + up[x.next].by]
                     \/ y.loaded = << >> /\ y.next = x.next /\ counters' = counters
<1> DEFINE x == calls[r]
           up == Updates(x.block)
<1>1. x \in Call /\ x.state = "running" /\ CallOK(x) /\ x.block \in BlockInfo
  <2>1. x.state = "running" /\ x \in Call \cup {NoCall} /\ CallOK(x)
    BY DEF NodeFinish, CallsInv, CallType
  <2>2. x \in Call
    BY <2>1, NoCallIsNone
  <2> QED
    BY <2>1, <2>2 DEF Call
<1>2. /\ Len(up) \in Nat
      /\ \A i \in 1..Len(up) : up[i].counter \in Name
  BY <1>1, UpdatesLemma DEF Name
<1>3. /\ x.next \in Nat /\ x.next >= 1
      /\ ~x.steady => x.loaded = << >>
      /\ x.loaded # << >> => x.next <= Len(up)
  BY <1>1 DEF CallOK, Call
<1>4. counters \in [Name -> Nat]
  BY DEF CallsInv
<1>5. CASE /\ x.steady /\ x.loaded = << >> /\ x.next <= Len(up)
           /\ calls' = [calls EXCEPT ![r].loaded = <<counters[up[x.next].counter]>>]
           /\ UNCHANGED counters
  <2> DEFINE n == counters[up[x.next].counter]
             y == [x EXCEPT !.loaded = <<n>>]
  <2>1. x.next \in 1..Len(up) /\ n \in Nat
    BY <1>2, <1>3, <1>4, <1>5
  <2>2. calls' = [calls EXCEPT ![r] = y] /\ counters' = counters
    BY <1>5
  <2> HIDE DEF n
  <2>3. /\ y \in Call /\ y.block = x.block /\ y.steady = x.steady
        /\ y.next = x.next /\ y.loaded = <<n>> /\ y.state = "running"
    BY <1>1, <2>1 DEF Call
  <2> HIDE DEF y
  <2> QED
    BY <2>1, <2>2, <2>3 DEF n
<1>6. CASE /\ x.loaded # << >>
           /\ counters' = [counters EXCEPT ![up[x.next].counter] = x.loaded[1] + up[x.next].by]
           /\ calls' = [calls EXCEPT ![r].loaded = << >>, ![r].next = @ + 1]
  <2> DEFINE k == x.next + 1
             y == [x EXCEPT !.loaded = << >>, !.next = k]
  <2>1. x.next \in 1..Len(up) /\ k \in Nat
    BY <1>2, <1>3, <1>6
  <2>2. calls' = [calls EXCEPT ![r] = y]
    BY <1>6
  <2>6. y = [x EXCEPT !.loaded = << >>, !.next = k]
    OBVIOUS
  <2> HIDE DEF k, y
  <2>3. y = [state |-> x.state, block |-> x.block, steady |-> x.steady, next |-> k, loaded |-> << >>]
    BY <1>1, <2>6 DEF Call
  <2>4. y \in Call
    BY <1>1, <2>1, <2>3 DEF Call
  <2>5. y.block = x.block /\ y.steady = x.steady /\ y.next = k /\ y.loaded = << >>
    BY <2>3
  <2> QED
    BY <1>6, <2>1, <2>2, <2>4, <2>5 DEF k
<1>7. CASE /\ ~x.steady \/ (x.loaded = << >> /\ x.next > Len(up))
           /\ calls' = [calls EXCEPT ![r].state = "done"]
           /\ UNCHANGED counters
  <2> DEFINE y == [x EXCEPT !.state = "done"]
  <2>1. calls' = [calls EXCEPT ![r] = y] /\ counters' = counters
    BY <1>7
  <2>2. y \in Call /\ y.block = x.block /\ y.steady = x.steady /\ y.next = x.next /\ y.loaded = x.loaded
    BY <1>1 DEF Call
  <2>3. x.loaded = << >>
    BY <1>3, <1>7
  <2> HIDE DEF y
  <2> QED
    BY <2>1, <2>2, <2>3
<1> QED
  BY <1>5, <1>6, <1>7 DEF NodeFinish

\* Nothing that the others have loaded is affected.
LEMMA blockBackAlone ==
    ASSUME CallsInv, CallsInv', AloneInv, ProposerTypeOK, steady \in BOOLEAN,
           NEW i \in DOMAIN myBlocks, blockBack(i)
    PROVE  AloneInv'
<1> DEFINE b == myBlocks[i]
           q == b.Round
           y == [state |-> "running", block |-> b, steady |-> steady, next |-> 1, loaded |-> << >>]
<1>1. q \in Round
  <2>1. b \in BlockInfo
    BY DEF ProposerTypeOK
  <2> QED
    BY <2>1 DEF BlockInfo
<1>2. /\ calls[q] = NoCall /\ calls' = [calls EXCEPT ![q] = y] /\ counters' = counters
      /\ alone' = (alone \ Busy) \cup (IF steady /\ Busy = {} THEN {q} ELSE {})
  BY DEF blockBack
<1>3. y.state = "running" /\ y.steady = steady /\ y.next = 1 /\ y.loaded = << >>
  OBVIOUS
<1> HIDE DEF y
<1>4. /\ calls'[q] = y /\ \A r \in Round \ {q} : calls'[r] = calls[r]
      /\ q \notin alone /\ alone \subseteq Round
  BY <1>1, <1>2, NoCallIsNone DEF CallsInv, CallType, AloneInv, AloneCalls
<1>5. \A r \in Round : r \in Busy <=> calls[r].state = "running" /\ calls[r].steady
  BY DEF Busy, Running
<1>6. \A r \in alone : calls[r].state # "none" /\ calls[r].steady
  BY DEF AloneInv, AloneCalls
<1>7. \A r \in alone' : r \in Round /\ (r = q \/ r \in alone)
  BY <1>1, <1>2, <1>4
<1>8. AloneCalls(calls', alone')
  <2>1. \A r \in alone' : calls'[r].state # "none" /\ calls'[r].steady
    <3> SUFFICES ASSUME NEW r \in alone' PROVE calls'[r].state # "none" /\ calls'[r].steady
      OBVIOUS
    <3>1. CASE r = q
      <4>1. steady
        BY <1>2, <1>4, <3>1
      <4> QED
        BY <1>3, <1>4, <3>1, <4>1
    <3>2. CASE r # q
      BY <1>4, <1>6, <1>7, <3>2
    <3> QED
      BY <3>1, <3>2
  <2>2. ASSUME NEW r \in alone', NEW s \in Round, calls'[r].state = "running",
               calls'[s].state = "running", calls'[s].steady
        PROVE  s = r
    <3>1. CASE steady /\ Busy = {}
      <4>1. r = q
        BY <1>4, <1>5, <1>6, <1>7, <2>2, <3>1
      <4>2. s = q
        BY <1>4, <1>5, <2>2, <3>1
      <4> QED
        BY <4>1, <4>2
    <3>2. CASE ~(steady /\ Busy = {})
      <4>1. r \in alone /\ r \notin Busy /\ r # q
        BY <1>2, <1>4, <3>2
      <4> QED
        BY <1>4, <1>5, <1>6, <1>7, <2>2, <4>1
    <3> QED
      BY <3>1, <3>2
  <2>3. alone' \subseteq Round
    BY <1>7
  <2> QED
    BY <2>1, <2>2, <2>3 DEF AloneCalls
<1>9. /\ AloneSum(calls', alone') \in Nat /\ AloneSum(calls, alone) \in Nat
      /\ AloneSum(calls', alone') <= AloneSum(calls, alone)
  <2> DEFINE f == [r \in Round |-> Added(calls, alone, r)]
             g == [r \in Round |-> Added(calls', alone', r)]
  <2>1. f \in [Round -> Nat] /\ g \in [Round -> Nat]
    BY <1>8, AddedType DEF AloneInv, CallsInv
  <2>2. ASSUME NEW r \in Round PROVE Added(calls', alone', r) <= Added(calls, alone, r)
    <3>0. Added(calls, alone, r) \in Nat /\ Added(calls', alone', r) \in Nat
      BY <1>8, AddedType DEF AloneInv, CallsInv
    <3>1. CASE r = q
      <4>1. Added(calls', alone', r) = 0
        BY <1>3, <1>4, <3>1 DEF Added
      <4> QED
        BY <3>0, <4>1
    <3>2. CASE r # q
      <4>1. calls'[r] = calls[r] /\ (r \in alone' => r \in alone)
        BY <1>4, <1>7, <3>2
      <4>2. \/ Added(calls', alone', r) = Added(calls, alone, r)
            \/ Added(calls', alone', r) = 0
        BY <4>1 DEF Added
      <4> QED
        BY <3>0, <4>2
    <3> QED
      BY <3>1, <3>2
  <2>3. \A r \in Round : g[r] <= f[r]
    BY <2>2
  <2>4. AloneSum(calls, alone) = Total(f, Round) /\ AloneSum(calls', alone') = Total(g, Round)
    BY DEF AloneSum
  <2> HIDE DEF f, g
  <2> QED
    BY <2>1, <2>3, <2>4, RoundFinite, TotalRises
<1>10. counters["finishNum"] \in Nat
  BY DEF CallsInv, Name
<1>11. AloneSum(calls', alone') <= counters'["finishNum"]
  BY <1>2, <1>9, <1>10 DEF AloneInv
<1>12. ASSUME NEW r \in Round, calls'[r].state # "none", calls'[r].loaded # << >>, calls'[r].next = 2
       PROVE  AloneSum(calls', alone') <= calls'[r].loaded[1]
  <2>1. r # q
    BY <1>3, <1>4, <1>12
  <2>2. calls'[r] = calls[r]
    BY <1>4, <2>1
  <2>3. AloneSum(calls, alone) <= calls[r].loaded[1]
    BY <1>12, <2>2 DEF AloneInv
  <2>4. calls[r].loaded[1] \in Nat
    <3>1. calls[r] \in Call
      BY <1>12, <2>2, NoCallIsNone DEF CallsInv, CallType
    <3> QED
      BY <1>12, <2>2, <3>1 DEF Call
  <2> QED
    BY <1>9, <2>2, <2>3, <2>4
<1>13. \A r \in Round : calls'[r].state # "none" /\ calls'[r].loaded # << >> => calls'[r].state = "running"
  BY <1>3, <1>4 DEF AloneInv
<1> QED
  BY <1>8, <1>11, <1>12, <1>13 DEF AloneInv

LEMMA NodeFinishAlone ==
    ASSUME CallsInv, CallsInv', AloneInv, NEW r \in Round, NodeFinish(r)
    PROVE  AloneInv'
<1> DEFINE x == calls[r]
           up == Updates(x.block)
           sum == AloneSum(calls, alone)
           new == AloneSum(calls', alone')
           m == x.block.ReqNum
<1>1. x \in Call /\ x.state = "running" /\ x.block \in BlockInfo /\ m \in Nat /\ alone' = alone
  <2>1. x.state = "running" /\ x \in Call \cup {NoCall} /\ alone' = alone
    BY DEF NodeFinish, CallsInv, CallType
  <2>2. x \in Call
    BY <2>1, NoCallIsNone
  <2> QED
    BY <2>1, <2>2 DEF Call, BlockInfo
<1>2. PICK y \in Call :
          /\ calls' = [calls EXCEPT ![r] = y] /\ y.block = x.block /\ y.steady = x.steady
          /\ y.loaded # << >> => y.state = "running"
          /\ \/ /\ y.loaded = <<counters[up[x.next].counter]>>
                /\ y.next = x.next /\ x.next \in 1..Len(up) /\ counters' = counters
             \/ /\ x.loaded # << >> /\ y.loaded = << >>
                /\ y.next = x.next + 1 /\ x.next \in 1..Len(up)
                /\ counters' = [counters EXCEPT ![up[x.next].counter] = x.loaded[1] + up[x.next].by]
             \/ y.loaded = << >> /\ y.next = x.next /\ counters' = counters
  BY NodeFinishStep
<1>3. calls'[r] = y /\ \A q \in Round \ {r} : calls'[q] = calls[q]
  BY <1>2 DEF CallsInv, CallType
<1>4. AloneCalls(calls', alone')
  <2>1. y.state \in {"running", "done"}
    BY DEF Call
  <2>2. AloneCalls(calls, alone)
    BY DEF AloneInv
  <2>3. \A q \in alone' : calls'[q].state # "none" /\ calls'[q].steady
    BY <1>1, <1>2, <1>3, <2>1, <2>2 DEF AloneCalls
  <2>4. ASSUME NEW q \in Round
        PROVE  /\ calls'[q].state = "running" => calls[q].state = "running"
               /\ calls'[q].steady = calls[q].steady
    BY <1>1, <1>2, <1>3
  <2>5. \A q \in alone', s \in Round :
           calls'[q].state = "running" /\ calls'[s].state = "running" /\ calls'[s].steady => s = q
    BY <1>1, <2>2, <2>4 DEF AloneCalls
  <2> QED
    BY <1>1, <2>2, <2>3, <2>5 DEF AloneCalls
<1>5. sum \in Nat /\ new \in Nat
  BY <1>4, AddedType DEF AloneInv, CallsInv
<1>6. new + Added(calls, alone, r) = sum + Added(calls', alone', r)
  <2> DEFINE f == [q \in Round |-> Added(calls, alone, q)]
             g == [q \in Round |-> Added(calls', alone', q)]
  <2>1. f \in [Round -> Nat] /\ g \in [Round -> Nat]
    BY <1>4, AddedType DEF AloneInv, CallsInv
  <2>2. \A q \in Round \ {r} : f[q] = g[q]
    BY <1>1, <1>3 DEF Added
  <2>3. f[r] = Added(calls, alone, r) /\ g[r] = Added(calls', alone', r)
    OBVIOUS
  <2>4. sum = Total(f, Round) /\ new = Total(g, Round)
    BY DEF AloneSum
  <2> HIDE DEF f, g, sum, new
  <2>5. Total(g, Round) + f[r] = Total(f, Round) + g[r]
    BY <2>1, <2>2, RoundFinite, TotalUpdate
  <2> QED
    BY <2>3, <2>4, <2>5
<1>7. Added(calls, alone, r) \in Nat /\ Added(calls', alone', r) \in Nat
  BY <1>4, AddedType DEF AloneInv, CallsInv
<1>8. counters["finishNum"] \in Nat /\ counters \in [Name -> Nat] /\ sum <= counters["finishNum"]
  BY DEF CallsInv, Name, AloneInv
<1>9. ASSUME NEW q \in Round, calls[q].state # "none", calls[q].loaded # << >>, calls[q].next = 2
      PROVE  /\ sum <= calls[q].loaded[1] /\ calls[q].loaded[1] \in Nat
             /\ calls[q].state = "running" /\ calls[q].steady
  <2>1. calls[q] \in Call /\ CallOK(calls[q])
    BY <1>9, NoCallIsNone DEF CallsInv, CallType
  <2>2. sum <= calls[q].loaded[1] /\ calls[q].loaded[1] \in Nat /\ calls[q].steady
    BY <1>9, <2>1 DEF AloneInv, Call, CallOK
  <2>3. calls[q].state = "running"
    BY <1>9 DEF AloneInv
  <2> QED
    BY <2>2, <2>3
<1>10. /\ Len(up) \in Nat /\ x.next \in Nat
       /\ \A i \in 1..Len(up) :
             /\ up[i].counter = IF i = 1 THEN "blockNum" ELSE IF i = 2 THEN "finishNum" ELSE "allTime"
             /\ up[i].by = IF i = 1 THEN 1 ELSE IF i = 2 THEN m ELSE Interval
  BY <1>1, UpdatesLemma DEF Call
<1>11. ASSUME new <= counters'["finishNum"],
              \A q \in Round : calls'[q].state # "none" /\ calls'[q].loaded # << >> /\ calls'[q].next = 2
                  => new <= calls'[q].loaded[1]
       PROVE  AloneInv'
  <2>1. \A q \in Round : calls'[q].state # "none" /\ calls'[q].loaded # << >> => calls'[q].state = "running"
    BY <1>2, <1>3 DEF AloneInv
  <2> QED
    BY <1>4, <1>11, <2>1 DEF AloneInv
<1>12. CASE /\ y.next = x.next /\ counters' = counters
            /\ y.loaded = << >> \/ (/\ y.loaded = <<counters[up[x.next].counter]>>
                                    /\ x.next \in 1..Len(up))
  <2>1. Added(calls', alone', r) = Added(calls, alone, r)
    BY <1>1, <1>2, <1>3, <1>12 DEF Added
  <2>2. new = sum
    <3> HIDE DEF new, sum
    <3> QED
      BY <1>5, <1>6, <1>7, <2>1
  <2>3. ASSUME NEW q \in Round, calls'[q].state # "none", calls'[q].loaded # << >>, calls'[q].next = 2
        PROVE  sum <= calls'[q].loaded[1]
    <3>1. CASE q = r
      <4>1. y.loaded = <<counters["finishNum"]>>
        BY <1>3, <1>10, <1>12, <2>3, <3>1
      <4> QED
        BY <1>3, <1>8, <3>1, <4>1
    <3>2. CASE q # r
      BY <1>3, <1>9, <2>3, <3>2
    <3> QED
      BY <3>1, <3>2
  <2> HIDE DEF new, sum
  <2> QED
    BY <1>8, <1>11, <1>12, <2>2, <2>3
<1>13. CASE /\ x.loaded # << >> /\ y.loaded = << >>
            /\ y.next = x.next + 1 /\ x.next \in 1..Len(up)
            /\ counters' = [counters EXCEPT ![up[x.next].counter] = x.loaded[1] + up[x.next].by]
  <2>1. CASE x.next = 2
    <3> DEFINE l == x.loaded[1]
    <3>1. sum <= l /\ l \in Nat
      BY <1>1, <1>9, <1>13, <2>1
    <3>2. counters'["finishNum"] = l + m
      BY <1>8, <1>10, <1>13, <2>1 DEF Name
    <3>3. /\ Added(calls, alone, r) = 0
          /\ Added(calls', alone', r) = IF r \in alone THEN m ELSE 0
      BY <1>1, <1>2, <1>3, <1>13, <2>1 DEF Added
    <3>4. new = sum + (IF r \in alone THEN m ELSE 0)
      <4> HIDE DEF new, sum, m
      <4> QED
        BY <1>1, <1>5, <1>6, <3>3
    <3>5. ASSUME NEW q \in Round, calls'[q].state # "none", calls'[q].loaded # << >>, calls'[q].next = 2
          PROVE  new <= calls'[q].loaded[1]
      <4>1. q # r
        BY <1>3, <1>13, <3>5
      <4>2. /\ calls'[q] = calls[q] /\ sum <= calls[q].loaded[1]
            /\ calls[q].state = "running" /\ calls[q].steady
        BY <1>3, <1>9, <3>5, <4>1
      <4>3. r \notin alone
        BY <1>1, <4>1, <4>2 DEF AloneInv, AloneCalls
      <4> HIDE DEF new, sum, m
      <4> QED
        BY <1>5, <3>4, <4>2, <4>3
    <3>6. new <= counters'["finishNum"]
      <4> HIDE DEF new, sum, m, l
      <4> QED
        BY <1>1, <1>5, <3>1, <3>2, <3>4
    <3> QED
      BY <1>11, <3>5, <3>6
  <2>2. CASE x.next # 2
    <3>1. counters'["finishNum"] = counters["finishNum"]
      BY <1>8, <1>10, <1>13, <2>2 DEF Name
    <3>2. Added(calls', alone', r) = Added(calls, alone, r)
      <4>1. x.next > 2 <=> y.next > 2
        BY <1>10, <1>13, <2>2
      <4> QED
        BY <1>1, <1>2, <1>3, <4>1 DEF Added
    <3>3. new = sum
      <4> HIDE DEF new, sum
      <4> QED
        BY <1>5, <1>6, <1>7, <3>2
    <3>4. ASSUME NEW q \in Round, calls'[q].state # "none", calls'[q].loaded # << >>, calls'[q].next = 2
          PROVE  sum <= calls'[q].loaded[1]
      BY <1>3, <1>9, <1>13, <3>4
    <3> HIDE DEF new, sum
    <3> QED
      BY <1>8, <1>11, <3>1, <3>3, <3>4
  <2> QED
    BY <2>1, <2>2
<1> QED
  BY <1>2, <1>12, <1>13

\* The calls that are counted are those of AloneNumber.
LEMMA AloneIsSum == CallsInv /\ AloneInv => AloneNumber = AloneSum(calls, alone)
<1> SUFFICES ASSUME CallsInv, AloneInv PROVE AloneNumber = AloneSum(calls, alone)
  OBVIOUS
<1> DEFINE A == {r \in alone : calls[r].next > 2}
<1>1. A \in SUBSET Round
  BY DEF AloneInv, AloneCalls
<1>2. ASSUME NEW r \in Round
      PROVE  /\ r \in A => calls[r].block.ReqNum \in Nat
             /\ Added(calls, alone, r) = IF r \in A THEN calls[r].block.ReqNum ELSE 0
  <2>1. Added(calls, alone, r) \in Nat
    BY AddedType DEF AloneInv, CallsInv
  <2> QED
    BY <2>1 DEF Added
<1>3. AloneNumber = NumberOf(A)
  BY DEF AloneNumber, NumberOf
<1> HIDE DEF A
<1>4. NumberOf(A) = Total([r \in Round |-> IF r \in A THEN calls[r].block.ReqNum ELSE 0], Round)
  BY <1>1, <1>2, NumberIsTotal
<1>5. [r \in Round |-> Added(calls, alone, r)] = [r \in Round |-> IF r \in A THEN calls[r].block.ReqNum ELSE 0]
  BY <1>2
<1> QED
  BY <1>3, <1>4, <1>5 DEF AloneSum

LEMMA NextAlone == BenchInv /\ AloneInv /\ [BenchNext]_benchVars => AloneInv'
<1> SUFFICES ASSUME BenchInv, AloneInv, [BenchNext]_benchVars PROVE AloneInv'
  OBVIOUS
<1>1. CallsInv /\ CallsInv' /\ ProposerTypeOK /\ steady \in BOOLEAN
  <2>1. CallsInv /\ ClientInv /\ ProposerTypeOK
    BY DEF BenchInv, Inv, TypeInv
  <2>2. BenchInv'
    BY NextBench
  <2> QED
    BY <2>1, <2>2 DEF BenchInv, ClientInv
<1>2. CASE UNCHANGED <<calls, counters, alone>>
  BY <1>2 DEF AloneInv
<1>3. CASE \/ SendRequest \/ NodeStep \/ WarmUpEnds
           \/ StopClient \/ Stop \/ SelfFinishes
           \/ \E id \in Others : OtherFinishes(id)
           \/ PrintReport \/ UNCHANGED benchVars
  BY <1>2, <1>3 DEF SendRequest, NodeStep, WarmUpEnds, StopClient, Stop, SelfFinishes, OtherFinishes,
                    PrintReport, benchVars, clientSide
<1> QED
  BY <1>1, <1>3, blockBackAlone, NodeFinishAlone DEF BenchNext

(***************************************************************************)
(* What a call has added that overlapped no other one stays in the count   *)
(* of the client, however many calls race before and after it.             *)
(***************************************************************************)
THEOREM AloneCallsCount == BenchSpec => []AloneIsCounted
<1>1. BenchInit => AloneInv
  <2> SUFFICES ASSUME BenchInit PROVE AloneInv
    OBVIOUS
  <2>1. /\ alone = {} /\ CallsInv /\ \A r \in Round : calls[r].state = "none"
    BY InitCalls, NoCallIsNone DEF BenchInit
  <2>2. AloneCalls(calls, alone)
    BY <2>1 DEF AloneCalls
  <2>3. CallType(calls) /\ counters["finishNum"] \in Nat
    BY <2>1 DEF CallsInv, Name
  <2> DEFINE f == [r \in Round |-> Added(calls, alone, r)]
  <2>4. f = [r \in Round |-> 0] /\ f \in [Round -> Nat]
    BY <2>1 DEF Added
  <2>5. AloneSum(calls, alone) = Total(f, Round)
    BY DEF AloneSum
  <2>6. AloneSum(calls, alone) = 0
    <3> DEFINE B == {}
               g == [x \in B |-> 0]
    <3>1. IsFiniteSet(B) /\ g \in [B -> Nat] /\ B \subseteq Round
      BY FS_EmptySet
    <3>2. PICK it : Sums(g, B, it) /\ Total(g, B) = it[B]
      BY <3>1, TotalIsSum
    <3>3. Total(g, B) = 0
      <4>1. it[B] = SumAt(g, it, B)
        BY <3>2 DEF Sums
      <4> QED
        BY <3>2, <4>1 DEF SumAt
    <3>4. PICK jt : Sums(f, Round, jt) /\ Total(f, Round) = jt[Round]
      BY <2>4, RoundFinite, TotalIsSum
    <3>5. \A x \in Round : f[x] = IF x \in B THEN g[x] ELSE 0
      BY <2>4
    <3> HIDE DEF f, g, B
    <3>6. Total(g, B) = jt[Round]
      BY <2>4, <3>1, <3>4, <3>5, RoundFinite, SumIsTotal
    <3> QED
      BY <2>5, <3>3, <3>4, <3>6
  <2> QED
    BY <2>1, <2>2, <2>3, <2>6 DEF AloneInv
<1>2. BenchInv /\ AloneInv => AloneIsCounted
  BY AloneIsSum DEF BenchInv, AloneInv, AloneIsCounted
<1> QED
  BY <1>1, <1>2, NextAlone, BenchInvariant, PTL DEF BenchSpec

----------------------------------------------------------------------------
(***************************************************************************)
(* Latencies.  The numbers of the transactions of a block follow those of  *)
(* the blocks before; divided by the interval they may leave gaps, but     *)
(* never meet.                                                             *)
(***************************************************************************)
LEMMA Floor ==
    ASSUME NEW m \in Nat, NEW k \in Nat, Interval * k <= m
    PROVE  k <= m \div Interval
<1> DEFINE q == m \div Interval
           r == m % Interval
           d == Interval
<1>1. q \in Nat /\ r \in Nat /\ m = d * q + r /\ r < d /\ d \in Nat /\ d >= 1
  BY ProposerAssumption
<1>2. d * k <= m
  OBVIOUS
<1> HIDE DEF q, r, d
<1>3. ASSUME k > q PROVE FALSE
  <2> DEFINE e == (k - q) - 1
  <2>1. e \in Nat /\ k = (q + 1) + e
    BY <1>1, <1>3
  <2> HIDE DEF e
  <2>2. d * k = (d * q + d) + d * e /\ d * e \in Nat /\ d * q \in Nat
    BY <1>1, <2>1
  <2> QED
    BY <1>1, <1>2, <2>2
<1>4. k <= q
  BY <1>1, <1>3
<1> QED
  BY <1>4 DEF q

LEMMA DivLemma ==
    ASSUME NEW x \in Nat, NEW y \in Nat
    PROVE  /\ x \div Interval \in Nat
           /\ x <= y => x \div Interval <= y \div Interval
           /\ (x \div Interval) + (y \div Interval) <= (x + y) \div Interval
           /\ (Interval * x) \div Interval = x
           /\ (1 + Interval * x) \div Interval = x + (1 \div Interval)
<1> DEFINE p == x \div Interval
           q == y \div Interval
<1>1. /\ p \in Nat /\ q \in Nat
      /\ Interval * p \in Nat /\ Interval * p <= x
      /\ Interval * q \in Nat /\ Interval * q <= y
  BY Whole
<1>2. Interval \in Nat /\ Interval >= 1
  BY ProposerAssumption
<1> HIDE DEF p, q
<1>3. x <= y => p <= q
  <2>1. x <= y => Interval * p <= y
    BY <1>1
  <2> QED
    BY <1>1, <2>1, Floor DEF q
<1>4. p + q <= (x + y) \div Interval
  <2>1. Interval * (p + q) = Interval * p + Interval * q
    BY <1>1, <1>2
  <2>2. Interval * (p + q) <= x + y
    BY <1>1, <2>1
  <2> QED
    BY <1>1, <2>2, Floor
<1>5. (Interval * x) \div Interval = x
  BY <1>2
<1>6. (1 + Interval * x) \div Interval = x + (1 \div Interval)
  <2>1. CASE Interval = 1
    BY <2>1
  <2>2. CASE Interval # 1
    <3> DEFINE d == Interval
    <3>1. d \in Nat /\ d >= 2
      BY <1>2, <2>2
    <3>2. 1 \div d = 0
      <4> HIDE DEF d
      <4> QED
        BY <3>1
    <3>3. (1 + d * x) \div d = x
      <4> HIDE DEF d
      <4> QED
        BY <3>1
    <3> QED
      BY <3>2, <3>3
  <2> QED
    BY <2>1, <2>2
<1> QED
  BY <1>1, <1>3, <1>4, <1>5, <1>6 DEF p, q

\* The number after a block.
After(i) == Blocks[i].StartID + Blocks[i].ReqNum

LEMMA NumberType ==
    ASSUME TypeInv, NEW i \in 1..Len(Blocks)
    PROVE  /\ Blocks[i].StartID \in Nat /\ Blocks[i].ReqNum \in Nat /\ After(i) \in Nat
           /\ Blocks[i].StartID <= After(i)
<1>1. Blocks[i] \in BlockInfo
  BY PipelineType
<1> QED
  BY <1>1 DEF BlockInfo, After

LEMMA NumbersFollow ==
    ASSUME Inv, CountInv
    PROVE  \A j \in 1..Len(Blocks) :
              /\ Blocks[j].StartID >= 1 /\ After(j) <= startId
              /\ \A i \in 1..(j - 1) : After(i) <= Blocks[j].StartID
<1> DEFINE Good(j) == /\ Blocks[j].StartID >= 1
                      /\ \A i \in 1..(j - 1) : After(i) <= Blocks[j].StartID
           T == {j \in 1..Len(Blocks) : ~Good(j)}
<1>1. Len(Blocks) \in Nat /\ TypeInv
  BY PipelineType DEF Inv
<1>2. T \in SUBSET Nat
  BY <1>1
<1>3. ASSUME NEW j \in T, \A i \in T : j <= i PROVE FALSE
  <2>1. j \in 1..Len(Blocks) /\ ~Good(j)
    OBVIOUS
  <2>2. CASE j = 1
    <3>1. Blocks # << >>
      BY <1>1, <2>1, EmptySeq
    <3>2. Blocks[1].StartID = 1
      BY <3>1 DEF CountInv, FirstInv
    <3> QED
      BY <2>1, <2>2, <3>2
  <2>3. CASE j # 1
    <3> DEFINE h == j - 1
    <3>1. h \in 1..Len(Blocks) /\ ~(j <= h) /\ h + 1 = j /\ h # Len(Blocks)
      BY <1>1, <2>1, <2>3
    <3>2. Good(h)
      BY <1>3, <3>1
    <3>3. After(h) = Blocks[j].StartID
      BY <3>1 DEF Inv, Contiguous, After
    <3>4. \A i \in 1..Len(Blocks) : /\ Blocks[i].StartID \in Nat /\ After(i) \in Nat
                                    /\ Blocks[i].StartID <= After(i)
      BY <1>1, NumberType
    <3>5. Blocks[j].StartID >= 1
      BY <2>1, <3>1, <3>2, <3>3, <3>4
    <3>6. ASSUME NEW i \in 1..(j - 1) PROVE After(i) <= Blocks[j].StartID
      <4>1. i \in 1..Len(Blocks) /\ (i = h \/ i \in 1..(h - 1))
        BY <1>1, <2>1, <3>1
      <4>2. i \in 1..(h - 1) => After(i) <= Blocks[h].StartID
        BY <3>2
      <4> HIDE DEF h
      <4> QED
        BY <2>1, <3>1, <3>3, <3>4, <4>1, <4>2
    <3> QED
      BY <2>1, <3>5, <3>6
  <2> QED
    BY <2>2, <2>3
<1> HIDE DEF T
<1>4. T = {}
  BY <1>2, <1>3, LeastNat
<1>5. \A j \in 1..Len(Blocks) : Good(j)
  BY <1>4 DEF T
<1>6. ASSUME NEW j \in 1..Len(Blocks) PROVE After(j) <= startId
  <2> DEFINE n == Len(Blocks)
  <2>1. n \in 1..n /\ After(n) = startId
    BY <1>1 DEF Inv, Contiguous, After
  <2>2. j = n \/ j \in 1..(n - 1)
    BY <1>1
  <2>3. j \in 1..(n - 1) => After(j) <= Blocks[n].StartID
    BY <1>5, <2>1
  <2>4. /\ After(j) \in Nat /\ After(n) \in Nat /\ Blocks[n].StartID \in Nat
        /\ Blocks[n].StartID <= After(n)
    BY <1>1, <2>1, NumberType
  <2> HIDE DEF n
  <2> QED
    BY <2>1, <2>2, <2>3, <2>4
<1> QED
  BY <1>5, <1>6

\* The entries of startTime a block is charged with.
LEMMA ChargedLemma ==
    ASSUME TypeInv, NEW i \in 1..Len(Blocks)
    PROVE  LET a == Blocks[i].StartID \div Interval
               n == Blocks[i].ReqNum \div Interval
           IN  /\ a \in Nat /\ n \in Nat /\ a + n <= After(i) \div Interval
               /\ \A e : e \in Charged(Blocks[i]) <=> e \in Nat /\ a <= e /\ e < a + n
<1> DEFINE a == Blocks[i].StartID \div Interval
           n == Blocks[i].ReqNum \div Interval
<1>1. a \in Nat /\ n \in Nat /\ a + n <= After(i) \div Interval
  BY NumberType, DivLemma DEF After
<1>2. Charged(Blocks[i]) = {a + j : j \in 0..(n - 1)}
  BY DEF Charged
<1> HIDE DEF a, n
<1>3. ASSUME NEW e, e \in Charged(Blocks[i]) PROVE e \in Nat /\ a <= e /\ e < a + n
  BY <1>1, <1>2, <1>3
<1>4. ASSUME NEW e \in Nat, a <= e, e < a + n PROVE e \in Charged(Blocks[i])
  <2>1. e - a \in 0..(n - 1) /\ a + (e - a) = e
    BY <1>1, <1>4
  <2> QED
    BY <1>2, <2>1
<1> QED
  BY <1>1, <1>3, <1>4 DEF a, n

\* A block that is reported is one the node has proposed.
CallBlocksInv ==
    \A r \in Round : calls[r].state # "none" =>
        \E j \in DOMAIN myBlocks : calls[r].block = myBlocks[j] /\ myBlocks[j].Round = r

LEMMA NextCallBlocks ==
    ASSUME CallsInv, ProposerTypeOK, CallBlocksInv,
           ClientInv, [BenchNext]_benchVars
    PROVE  CallBlocksInv'
<1>0. calls \in [Round -> Call \cup {NoCall}]
  BY DEF CallsInv, CallType
<1>1. \A j \in DOMAIN myBlocks : j \in DOMAIN myBlocks' /\ myBlocks'[j] = myBlocks[j]
  <2>1. myBlocks' = myBlocks \/ Propose
    BY NextIsProposerStep DEF ProposerNext, ReceiveRequest, TimerFires, TakeRequest, TakeRound,
          SendBlock, StartRounds, Announce, proposerVars
  <2>2. CASE Propose
    <3>1. myBlocks \in Seq(BlockInfo) /\ Head(proposeChan) \in BlockInfo
      BY <2>2, HeadTailProperties DEF ProposerTypeOK, Propose
    <3>2. myBlocks' = Append(myBlocks, Head(proposeChan))
      BY <2>2 DEF Propose
    <3>3. /\ Len(myBlocks') = Len(myBlocks) + 1 /\ Len(myBlocks) \in Nat
          /\ \A j \in 1..Len(myBlocks) : myBlocks'[j] = myBlocks[j]
          /\ myBlocks' \in Seq(BlockInfo)
      BY <3>1, <3>2, AppendProperties, LenProperties
    <3>4. DOMAIN myBlocks = 1..Len(myBlocks) /\ DOMAIN myBlocks' = 1..Len(myBlocks')
      BY <3>1, <3>3, LenProperties
    <3> QED
      BY <3>3, <3>4
  <2> QED
    BY <2>1, <2>2
<1>2. ASSUME \A r \in Round : calls'[r].state # "none" =>
                 \/ calls[r].state # "none" /\ calls'[r].block = calls[r].block
                 \/ \E j \in DOMAIN myBlocks : calls'[r].block = myBlocks[j] /\ myBlocks[j].Round = r
      PROVE  CallBlocksInv'
  <2> SUFFICES ASSUME NEW r \in Round, calls'[r].state # "none"
               PROVE  \E j \in DOMAIN myBlocks' : calls'[r].block = myBlocks'[j] /\ myBlocks'[j].Round = r
    BY DEF CallBlocksInv
  <2>1. \E j \in DOMAIN myBlocks : calls'[r].block = myBlocks[j] /\ myBlocks[j].Round = r
    BY <1>2 DEF CallBlocksInv
  <2> QED
    BY <1>1, <2>1
<1>3. CASE calls' = calls
  BY <1>2, <1>3
<1>4. ASSUME NEW i \in DOMAIN myBlocks, blockBack(i) PROVE CallBlocksInv'
  <2> DEFINE q == myBlocks[i].Round
             y == [state |-> "running", block |-> myBlocks[i], steady |-> steady,
                   next |-> 1, loaded |-> << >>]
  <2>1. calls' = [calls EXCEPT ![q] = y]
    BY <1>4 DEF blockBack
  <2>2. y.block = myBlocks[i]
    OBVIOUS
  <2> HIDE DEF y
  <2>3. \A r \in Round : calls'[r] = calls[r] \/ (r = q /\ calls'[r] = y)
    BY <1>0, <2>1
  <2> QED
    BY <1>2, <2>2, <2>3
<1>5. ASSUME NEW q \in Round, NodeFinish(q) PROVE CallBlocksInv'
  <2> DEFINE x == calls[q]
  <2>1. x.state = "running" /\ x \in Call
    <3>1. x.state = "running"
      BY <1>5 DEF NodeFinish
    <3> QED
      BY <1>0, <3>1, NoCallIsNone
  <2>2. \E y : calls' = [calls EXCEPT ![q] = y] /\ y.block = x.block
    <3>1. ASSUME NEW l, calls' = [calls EXCEPT ![q].loaded = l]
          PROVE  \E y : calls' = [calls EXCEPT ![q] = y] /\ y.block = x.block
      <4>1. [x EXCEPT !.loaded = l].block = x.block
        BY <2>1 DEF Call
      <4> QED
        BY <3>1, <4>1
    <3>2. ASSUME NEW l, calls' = [calls EXCEPT ![q].loaded = l, ![q].next = @ + 1]
          PROVE  \E y : calls' = [calls EXCEPT ![q] = y] /\ y.block = x.block
      <4>1. [x EXCEPT !.loaded = l, !.next = @ + 1].block = x.block
        BY <2>1 DEF Call
      <4> QED
        BY <3>2, <4>1
    <3>3. ASSUME calls' = [calls EXCEPT ![q].state = "done"]
          PROVE  \E y : calls' = [calls EXCEPT ![q] = y] /\ y.block = x.block
      <4>1. [x EXCEPT !.state = "done"].block = x.block
        BY <2>1 DEF Call
      <4> QED
        BY <3>3, <4>1
    <3> QED
      BY <1>5, <3>1, <3>2, <3>3 DEF NodeFinish
  <2>3. PICK y : calls' = [calls EXCEPT ![q] = y] /\ y.block = x.block
    BY <2>2
  <2>4. \A r \in Round : calls'[r] = calls[r] \/ (r = q /\ calls'[r] = y)
    BY <1>0, <2>3
  <2>5. x.state # "none"
    BY <2>1
  <2> QED
    BY <1>2, <2>3, <2>4, <2>5
<1>6. CASE \/ SendRequest \/ NodeStep \/ WarmUpEnds
           \/ StopClient \/ Stop \/ SelfFinishes
           \/ \E id \in Others : OtherFinishes(id)
           \/ PrintReport \/ UNCHANGED benchVars
  BY <1>3, <1>6 DEF SendRequest, NodeStep, WarmUpEnds, StopClient, Stop, SelfFinishes, OtherFinishes,
                    PrintReport, benchVars, clientSide
<1> QED
  BY <1>4, <1>5, <1>6 DEF BenchNext

\* Blocks of a node in their places.
LEMMA ProposedBlocks ==
    ASSUME TypeInv, NEW i \in DOMAIN myBlocks
    PROVE  i \in 1..Len(Blocks) /\ Blocks[i] = myBlocks[i]
<1>1. myBlocks \in Seq(BlockInfo) /\ proposeChan \in Seq(BlockInfo) /\ sending \in Seq(BlockInfo)
  BY DEF TypeInv, ProposerTypeOK
<1>2. /\ myBlocks \o proposeChan \in Seq(BlockInfo)
      /\ Len(myBlocks \o proposeChan) = Len(myBlocks) + Len(proposeChan)
      /\ \A j \in 1..Len(myBlocks) : (myBlocks \o proposeChan)[j] = myBlocks[j]
      /\ Len(myBlocks) \in Nat /\ Len(proposeChan) \in Nat /\ Len(sending) \in Nat
      /\ DOMAIN myBlocks = 1..Len(myBlocks)
  BY <1>1, ConcatProperties, LenProperties
<1>3. /\ Len(Blocks) = (Len(myBlocks) + Len(proposeChan)) + Len(sending)
      /\ \A j \in 1..(Len(myBlocks) + Len(proposeChan)) : Blocks[j] = (myBlocks \o proposeChan)[j]
  BY <1>1, <1>2, ConcatProperties DEF Blocks
<1>4. i \in 1..Len(myBlocks) /\ i \in 1..(Len(myBlocks) + Len(proposeChan)) /\ i \in 1..Len(Blocks)
  BY <1>2, <1>3
<1> QED
  BY <1>2, <1>3, <1>4

LEMMA InvLatency ==
    ASSUME Inv, Placed, CountInv, ClientInv, CallBlocksInv
    PROVE  LatencyIndex
<1> DEFINE shift == 1 \div Interval
<1> SUFFICES ASSUME NEW i \in DOMAIN myBlocks, myBlocks[i].Round \in Running
             PROVE  LET b == myBlocks[i]
                    IN  /\ Charged(b) \subseteq shift..(startTime - 1 + shift)
                        /\ \A s \in Running \ {b.Round} : Charged(b) \cap Charged(calls[s].block) = {}
                        /\ (/\ InOrder(i - 1) /\ InOrder(i)
                            /\ b.StartID = 1 + Interval * Cardinality(Requests(i - 1)))
                              => Charged(b) = {k - 1 + shift : k \in Range(b.Payload)}
  BY DEF LatencyIndex, Charges, Timed
<1>1. TypeInv
  BY DEF Inv
<1>2. i \in 1..Len(Blocks) /\ Blocks[i] = myBlocks[i] /\ Len(Blocks) \in Nat
  BY <1>1, ProposedBlocks, PipelineType
<1> DEFINE b == myBlocks[i]
           a == b.StartID \div Interval
           n == b.ReqNum \div Interval
<1>3. /\ a \in Nat /\ n \in Nat /\ a + n <= After(i) \div Interval
      /\ \A e : e \in Charged(b) <=> e \in Nat /\ a <= e /\ e < a + n
  BY <1>1, <1>2, ChargedLemma
<1>4. shift \in Nat
  BY DivLemma
<1>5. Charged(b) \subseteq shift..(startTime - 1 + shift)
  <2>1. shift <= a
    <3>1. b.StartID \in Nat /\ 1 <= b.StartID
      BY <1>1, <1>2, NumbersFollow, NumberType
    <3> HIDE DEF b
    <3> QED
      BY <3>1, DivLemma
  <2>2. startTime \in Nat
    BY ProposerAssumption DEF ClientInv
  <2>3. Cardinality(received) \in Nat /\ Cardinality(received) <= startTime
    <3>1. IsFiniteSet(1..startTime) /\ Cardinality(1..startTime) = startTime
      <4>1. /\ IsFiniteSet(1..startTime)
            /\ Cardinality(1..startTime) = IF 1 > startTime THEN 0 ELSE (startTime - 1) + 1
        BY <2>2, FS_Interval
      <4> QED
        BY <2>2, <4>1
    <3>2. Cardinality(received) <= Cardinality(1..startTime)
      BY <3>1, FS_Subset DEF ClientInv
    <3> QED
      BY <1>1, <3>1, <3>2, ReceivedFinite
  <2>4. startId <= 1 + Interval * startTime
    <3> DEFINE m == Cardinality(received)
               c == Len(clientChan)
               d == Interval
               g == startTime - m
    <3>1. startId + reqNum + d * c = 1 + d * m
      BY DEF CountInv
    <3>2. startId \in Nat /\ reqNum \in Nat /\ c \in Nat /\ d \in Nat /\ m \in Nat /\ g \in Nat
      <4>1. startId \in Nat /\ reqNum \in Nat /\ clientChan \in Seq(Request)
        BY <1>1 DEF TypeInv, ProposerTypeOK
      <4>2. c \in Nat
        BY <4>1, LenProperties
      <4> QED
        BY <2>2, <2>3, <4>1, <4>2, ProposerAssumption
    <3>3. startTime = m + g
      BY <2>2, <2>3
    <3> HIDE DEF m, c, d, g
    <3>4. d * c \in Nat /\ d * m \in Nat /\ d * g \in Nat /\ d * startTime = d * m + d * g
      BY <3>2, <3>3
    <3>5. startId <= 1 + d * startTime
      BY <3>1, <3>2, <3>4
    <3> QED
      BY <3>5 DEF d
  <2>5. a + n <= startTime + shift
    <3> DEFINE u == After(i)
               v == 1 + Interval * startTime
    <3>1. u \in Nat /\ u <= startId /\ startId \in Nat
      BY <1>1, <1>2, NumbersFollow, NumberType DEF TypeInv, ProposerTypeOK
    <3>2. v \in Nat /\ v \div Interval = startTime + shift
      <4>1. (1 + Interval * startTime) \div Interval = startTime + (1 \div Interval)
        BY <2>2, DivLemma
      <4>2. Interval \in Nat
        BY ProposerAssumption
      <4>3. Interval * startTime \in Nat
        BY <2>2, <4>2
      <4> QED
        BY <4>1, <4>3
    <3>3. u <= v
      <4>1. startId <= v
        BY <2>4
      <4> HIDE DEF u, v
      <4> QED
        BY <3>1, <3>2, <4>1
    <3>4. u \div Interval <= v \div Interval /\ u \div Interval \in Nat
      <4> HIDE DEF u, v
      <4> QED
        BY <3>1, <3>2, <3>3, DivLemma
    <3> DEFINE x == u \div Interval
    <3>5. a + n <= x /\ x <= startTime + shift /\ x \in Nat
      BY <1>3, <3>2, <3>4
    <3> HIDE DEF x, a, n, shift
    <3> QED
      BY <1>3, <1>4, <2>2, <3>5
  <2> HIDE DEF b, a, n, shift
  <2> QED
    BY <1>3, <1>4, <2>1, <2>2, <2>5
<1>6. ASSUME NEW s \in Running, s # b.Round
      PROVE  Charged(b) \cap Charged(calls[s].block) = {}
  <2>1. PICK j \in DOMAIN myBlocks : calls[s].block = myBlocks[j] /\ myBlocks[j].Round = s
    BY DEF CallBlocksInv, Running
  <2>2. j \in 1..Len(Blocks) /\ Blocks[j] = myBlocks[j] /\ i # j
    BY <1>1, <1>6, <2>1, ProposedBlocks
  <2>3. ASSUME NEW x \in 1..Len(Blocks), NEW y \in 1..Len(Blocks), x < y
        PROVE  Charged(Blocks[x]) \cap Charged(Blocks[y]) = {}
    <3> DEFINE k == Blocks[x].StartID \div Interval
               l == Blocks[x].ReqNum \div Interval
               p == Blocks[y].StartID \div Interval
               q == Blocks[y].ReqNum \div Interval
               z == After(x) \div Interval
    <3>1. /\ k \in Nat /\ l \in Nat /\ k + l <= z
          /\ \A e : e \in Charged(Blocks[x]) <=> e \in Nat /\ k <= e /\ e < k + l
      BY <1>1, ChargedLemma
    <3>2. p \in Nat /\ \A e : e \in Charged(Blocks[y]) => e \in Nat /\ p <= e
      BY <1>1, ChargedLemma
    <3>3. z \in Nat /\ z <= p
      <4>1. x \in 1..(y - 1)
        BY <1>2, <2>3
      <4>2. After(x) <= Blocks[y].StartID
        BY <4>1, NumbersFollow
      <4> QED
        BY <1>1, <4>2, NumberType, DivLemma
    <3> HIDE DEF k, l, p, q, z
    <3>4. \A e : ~(e \in Charged(Blocks[x]) /\ e \in Charged(Blocks[y]))
      BY <3>1, <3>2, <3>3
    <3> QED
      BY <3>4
  <2>4. i < j \/ j < i
    BY <1>2, <2>2
  <2>5. Charged(Blocks[i]) \cap Charged(Blocks[j]) = {}
    BY <1>2, <2>2, <2>3, <2>4
  <2> QED
    BY <1>2, <2>1, <2>2, <2>5
<1>7. ASSUME InOrder(i - 1), InOrder(i), b.StartID = 1 + Interval * Cardinality(Requests(i - 1))
      PROVE  Charged(b) = {k - 1 + shift : k \in Range(b.Payload)}
  <2> DEFINE K == Cardinality(Requests(i - 1))
             L == Cardinality(Requests(i))
             h == Len(b.Payload)
             d == Interval
  <2>1. Requests(i - 1) = 1..K /\ Requests(i) = 1..L
    BY <1>7 DEF InOrder
  <2>2. /\ Requests(i) = Requests(i - 1) \cup Range(b.Payload)
        /\ Requests(i - 1) \cap Range(b.Payload) = {}
        /\ L = K + h /\ i - 1 \in 0..Len(Blocks)
    BY <1>1, <1>2, RequestsGrow
  <2>3. K \in Nat /\ h \in Nat /\ L \in Nat /\ d \in Nat
    BY <1>1, <1>2, <2>2, RequestsOfBlocks, PayloadType, ProposerAssumption
  <2>4. a = K + shift
    BY <1>7, <2>3, DivLemma
  <2>5. n = h
    <3>1. IsCut(b) \/ b.StartID + b.ReqNum = 1 + d * L
      BY <1>2 DEF CountInv
    <3>2. CASE IsCut(b)
      BY <3>2 DEF IsCut
    <3>3. CASE b.StartID + b.ReqNum = 1 + d * L
      <4>1. b.ReqNum = d * h
        <5> DEFINE x == d * K
                   y == d * h
        <5>0. b.StartID = 1 + x /\ b.ReqNum \in Nat
          BY <1>1, <1>2, <1>7, NumberType
        <5>1. x \in Nat /\ y \in Nat /\ d * L = x + y
          <6> HIDE DEF K, h, L, d, b
          <6> QED
            BY <2>2, <2>3
        <5>2. (1 + x) + b.ReqNum = 1 + (x + y)
          BY <3>3, <5>0, <5>1
        <5> HIDE DEF x, y, b, d, K, h, L
        <5>3. b.ReqNum = y
          BY <5>0, <5>1, <5>2
        <5> QED
          BY <5>3 DEF y
      <4>2. (d * h) \div d = h
        BY <2>3, DivLemma
      <4> QED
        BY <4>1, <4>2
    <3> QED
      BY <3>1, <3>2, <3>3
  <2> HIDE DEF b, K, L, h, d, a, n, shift
  <2>6. \A e : e \in Charged(b) <=> e \in Nat /\ K + shift <= e /\ e < L + shift
    BY <1>3, <1>4, <2>2, <2>3, <2>4, <2>5
  <2>7. \A k : k \in Range(b.Payload) <=> k \in 1..L /\ k \notin 1..K
    BY <2>1, <2>2
  <2>8. ASSUME NEW e, e \in Charged(b) PROVE e \in {k - 1 + shift : k \in Range(b.Payload)}
    <3> DEFINE k == (e - shift) + 1
    <3>1. k \in 1..L /\ k \notin 1..K /\ k - 1 + shift = e
      BY <1>4, <2>3, <2>6, <2>8
    <3>2. k \in Range(b.Payload)
      BY <2>7, <3>1
    <3> HIDE DEF k
    <3> QED
      BY <3>1, <3>2
  <2>9. ASSUME NEW k \in Range(b.Payload) PROVE k - 1 + shift \in Charged(b)
    <3>1. k \in 1..L /\ k \notin 1..K
      BY <2>7
    <3>2. k - 1 + shift \in Nat /\ K + shift <= k - 1 + shift /\ k - 1 + shift < L + shift
      BY <1>4, <2>3, <3>1
    <3> QED
      BY <2>6, <3>2
  <2> QED
    BY <2>8, <2>9
<1> QED
  BY <1>5, <1>6, <1>7

(***************************************************************************)
(* For every interval and batch size, the entries of startTime that the    *)
(* blocks are charged with never meet and are those of the blocks' own     *)
(* requests as long as none overtakes another one, shifted by one, so that *)
(* the last may be out of range, if and only if the interval is 1.         *)
(***************************************************************************)
THEOREM LatenciesAreOwn == BenchSpec => []LatencyIndex
<1> DEFINE I == BenchInv /\ Placed /\ CountInv /\ CallBlocksInv
<1>1. BenchInit => I
  <2> SUFFICES ASSUME BenchInit PROVE I
    OBVIOUS
  <2>1. BenchInv /\ Placed /\ CountInv
    BY InitBench, InitPlaced, InitCount DEF BenchInit
  <2>2. CallBlocksInv
    BY NoCallIsNone DEF BenchInit, CallBlocksInv
  <2> QED
    BY <2>1, <2>2
<1>2. I /\ [BenchNext]_benchVars => I'
  <2> SUFFICES ASSUME I, [BenchNext]_benchVars PROVE I'
    OBVIOUS
  <2>1. [ProposerNext]_proposerVars /\ BenchInv'
    BY NextIsProposerStep, NextBench DEF BenchInv
  <2>2. TypeInv /\ ProposerTypeOK
    BY DEF BenchInv, Inv, TypeInv
  <2>3. Placed' /\ CountInv'
    BY <2>1, <2>2, NextPlaced, NextCount
  <2>4. CallBlocksInv'
    BY <2>2, NextCallBlocks DEF BenchInv
  <2> QED
    BY <2>1, <2>3, <2>4
<1>3. I => LatencyIndex
  BY InvLatency DEF BenchInv
<1> QED
  BY <1>1, <1>2, <1>3, PTL DEF BenchSpec

============================================================================
