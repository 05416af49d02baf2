--------------------------- MODULE DataflowProofs ----------------------------
(***************************************************************************)
(* Proofs about the two data flow analyses, for all control flow graphs    *)
(* and all logs of events: the depth-first search yields a reverse         *)
(* post-order, what the sweeps stop at is exactly what the walks through   *)
(* the graph bring about, and so exactly the right places are reported.    *)
(*                                                                         *)
(* Fixed points and walks are compared by closed sets (BackReach,          *)
(* WalkClosed): a set that contains the start and is closed under the      *)
(* steps contains all that can be reached.  Within a block, a key is moved *)
(* or revived whatever comes in, or left as it is (Fates); so it comes out *)
(* of the union of what came in just if it comes out for one walk.         *)
(***************************************************************************)
EXTENDS MoveDataflow, NullDataflow, FiniteSetTheorems, SequenceTheorems,
        WellFoundedInduction, TLAPS

------------------------------------------------------------------------------
(* Induction and recursion over an interval, without an operator parameter. *)

\* A nonempty set of numbers has a least one: the intervals 0 .. n are
\* well-founded by inclusion.
LEMMA LeastNumber == \A T \in SUBSET Nat : T # {} => \E m \in T : \A k \in T : m <= k
<1> SUFFICES ASSUME NEW T \in SUBSET Nat, T # {}
             PROVE  \E m \in T : \A k \in T : m <= k
  OBVIOUS
<1> DEFINE C == {0 .. n : n \in T}
           R == StrictSubsetOrdering(Nat)
<1>1. C \subseteq FiniteSubsetsOf(Nat)
  <2> SUFFICES ASSUME NEW n \in T PROVE 0 .. n \in FiniteSubsetsOf(Nat)  OBVIOUS
  <2> QED  BY FS_Interval DEF FiniteSubsetsOf
<1>2. PICK x \in C : \A y \in C : <<y, x>> \notin R
  <2>1. IsWellFoundedOn(R, FiniteSubsetsOf(Nat))  BY FS_StrictSubsetOrderingWellFounded
  <2>2. C # {}  OBVIOUS
  <2> HIDE DEF C, R
  <2> QED  BY <1>1, <2>1, <2>2, WFMin
<1>3. PICK m \in T : x = 0 .. m  OBVIOUS
<1>4. ASSUME NEW k \in T, k < m PROVE FALSE
  <2>1. 0 .. k \subseteq 0 .. m /\ 0 .. k # 0 .. m  BY <1>4
  <2>2. 0 .. k \subseteq Nat /\ 0 .. m \subseteq Nat  OBVIOUS
  <2>3. <<0 .. k, x>> \in R  BY <1>3, <2>1, <2>2 DEF StrictSubsetOrdering
  <2> QED  BY <1>2, <2>3
<1> QED  BY <1>4

\* What holds of 0, and of k + 1 if it holds of k, holds up to n.
LEMMA UpTo ==
  ASSUME NEW n \in Nat, NEW A, 0 \in A, \A k \in 0 .. n - 1 : k \in A => k + 1 \in A
  PROVE  0 .. n \subseteq A
<1> DEFINE Bad == (0 .. n) \ A
<1> SUFFICES ASSUME Bad # {} PROVE FALSE  OBVIOUS
<1>1. Bad \in SUBSET Nat  OBVIOUS
<1>2. PICK m \in Bad : \A k \in Bad : m <= k  BY <1>1, LeastNumber
<1>3. m - 1 \in 0 .. n - 1  BY <1>2
<1>4. m - 1 \notin Bad  BY <1>2, <1>3
<1> QED  BY <1>3, <1>4, m = (m - 1) + 1

Solves(R, n, s, F) == R[0] = s /\ \A k \in 1 .. n : R[k] = F[k][R[k - 1]]

\* A recursive function on 0 .. n exists.
LEMMA Recursion ==
  ASSUME NEW n \in Nat, NEW X, NEW s \in X, NEW F \in [1 .. n -> [X -> X]]
  PROVE  \E R \in [0 .. n -> X] : Solves(R, n, s, F)
<1> DEFINE A == {m \in 0 .. n : \E R \in [0 .. m -> X] : Solves(R, m, s, F)}
<1>1. 0 \in A
  <2>1. [k \in 0 .. 0 |-> s] \in [0 .. 0 -> X]  OBVIOUS
  <2>2. Solves([k \in 0 .. 0 |-> s], 0, s, F)  BY DEF Solves
  <2>3. 0 \in 0 .. n  OBVIOUS
  <2> QED  BY <2>1, <2>2, <2>3
<1>2. ASSUME NEW m \in 0 .. n - 1, m \in A PROVE m + 1 \in A
  <2>1. PICK R \in [0 .. m -> X] : Solves(R, m, s, F)  BY <1>2
  <2> DEFINE v == F[m + 1][R[m]]
             Q == [k \in 0 .. m + 1 |-> IF k = m + 1 THEN v ELSE R[k]]
  <2>2. R[m] \in X /\ m + 1 \in 1 .. n  OBVIOUS
  <2>3. v \in X  BY <2>2
  <2> HIDE DEF v
  <2>4. Q \in [0 .. m + 1 -> X]  BY <2>3
  <2>5. Q[0] = s  BY <2>1 DEF Solves
  <2>6. ASSUME NEW k \in 1 .. m + 1 PROVE Q[k] = F[k][Q[k - 1]]
    <3>1. k - 1 \in 0 .. m /\ Q[k - 1] = R[k - 1]  OBVIOUS
    <3>2. CASE k = m + 1  BY <3>1, <3>2 DEF v
    <3>3. CASE k # m + 1
      <4>1. k \in 1 .. m /\ Q[k] = R[k]  BY <3>3
      <4> QED  BY <4>1, <3>1, <2>1 DEF Solves
    <3> QED  BY <3>2, <3>3
  <2>7. m + 1 \in 0 .. n  OBVIOUS
  <2>8. Solves(Q, m + 1, s, F)  BY <2>5, <2>6 DEF Solves
  <2> QED  BY <2>4, <2>7, <2>8
<1>3. n \in A
  <2> HIDE DEF A
  <2>1. 0 .. n \subseteq A  BY <1>1, <1>2, UpTo
  <2> QED  BY <2>1
<1> QED  BY <1>3

------------------------------------------------------------------------------
(* What can be reached.                                                      *)

OneStep(r, E) == r \cup {e[2] : e \in {x \in E : x[1] \in r}}

Closed(C, E) == \A e \in E : e[1] \in C => e[2] \in C

IsRounds(R, S, E) == R[0] = S /\ \A k \in 1 .. Cardinality(E) : R[k] = OneStep(R[k - 1], E)

\* The rounds of ReachableFrom.
LEMMA Rounds ==
  ASSUME NEW S, NEW E, IsFiniteSet(E)
  PROVE  \E R : IsRounds(R, S, E) /\ ReachableFrom(S, E) = R[Cardinality(E)]
<1> DEFINE n == Cardinality(E)
           X == SUBSET (S \cup {e[2] : e \in E})
           F == [k \in 1 .. n |-> [r \in X |-> OneStep(r, E)]]
           Body(R) == [k \in 0 .. n |->
                        IF k = 0 THEN S
                        ELSE LET r == R[k - 1] IN r \cup {e[2] : e \in {x \in E : x[1] \in r}}]
<1>1. n \in Nat  BY FS_CardinalityType
<1>2. S \in X /\ F \in [1 .. n -> [X -> X]]
  <2>1. ASSUME NEW r \in X PROVE OneStep(r, E) \in X  BY DEF OneStep
  <2> QED  BY <2>1
<1>3. PICK R \in [0 .. n -> X] : Solves(R, n, S, F)
  <2> HIDE DEF X, F, n
  <2> QED  BY <1>1, <1>2, Recursion
<1>4. ASSUME NEW k \in 1 .. n PROVE R[k] = OneStep(R[k - 1], E)
  <2>1. k - 1 \in 0 .. n  BY <1>1
  <2>2. F[k][R[k - 1]] = OneStep(R[k - 1], E)  BY <2>1, <1>3
  <2> QED  BY <2>2, <1>3 DEF Solves
<1>5. R = Body(R)
  <2>1. ASSUME NEW k \in 0 .. n PROVE R[k] = Body(R)[k]
    BY <1>1, <1>3, <1>4, k = 0 \/ k \in 1 .. n DEF OneStep, Solves
  <2> HIDE DEF X
  <2> QED  BY <2>1
<1> DEFINE Q == CHOOSE R_1 : R_1 = Body(R_1)
<1>6. Q = Body(Q)  BY <1>5
<1>7. ReachableFrom(S, E) = Q[n]  BY DEF ReachableFrom
<1> HIDE DEF Q
<1>8. Q[0] = S  BY <1>1, <1>6
<1>9. ASSUME NEW k \in 1 .. n PROVE Q[k] = OneStep(Q[k - 1], E)
  <2>1. Q[k] = Body(Q)[k]  BY <1>6
  <2>2. k \in 0 .. n /\ k # 0  BY <1>1
  <2>3. Body(Q)[k] = OneStep(Q[k - 1], E)  BY <2>2 DEF OneStep
  <2> QED  BY <2>1, <2>3
<1>10. IsRounds(Q, S, E)  BY <1>8, <1>9 DEF IsRounds
<1>11. ReachableFrom(S, E) = Q[Cardinality(E)]  BY <1>7
<1> HIDE DEF n
<1> QED  BY <1>10, <1>11

\* The rounds end where nothing new can be reached: each adds the target of an edge.
LEMMA ReachClosed ==
  ASSUME NEW S, NEW E, IsFiniteSet(E)
  PROVE  S \subseteq ReachableFrom(S, E) /\ Closed(ReachableFrom(S, E), E)
<1> DEFINE n == Cardinality(E)
           I == {e[2] : e \in E}
<1>1. PICK R : IsRounds(R, S, E) /\ ReachableFrom(S, E) = R[n]  BY Rounds
<1>2. n \in Nat  BY FS_CardinalityType
<1>3. R[0] = S /\ \A k \in 1 .. n : R[k] = OneStep(R[k - 1], E)  BY <1>1 DEF IsRounds
<1>4. IsFiniteSet(I) /\ Cardinality(I) <= n
  <2> DEFINE f == [e \in E |-> e[2]]
  <2>1. f \in Surjection(E, I)  BY DEF Surjection
  <2> HIDE DEF f, I
  <2> QED  BY <2>1, FS_Surjection
<1>5. ASSUME NEW k \in 0 .. n - 1
      PROVE  R[k] \subseteq R[k + 1] /\ R[k + 1] \subseteq R[k] \cup I
  <2>0. k + 1 \in 1 .. n /\ (k + 1) - 1 = k  BY <1>2
  <2>1. R[k + 1] = OneStep(R[k], E)  BY <1>3, <2>0
  <2> QED  BY <2>1 DEF OneStep
<1> HIDE DEF n, I
<1>6. \A k \in 0 .. n : S \subseteq R[k] /\ R[k] \subseteq S \cup I
  <2> DEFINE A == {k \in 0 .. n : S \subseteq R[k] /\ R[k] \subseteq S \cup I}
  <2>1. 0 \in A  BY <1>2, <1>3
  <2>2. \A k \in 0 .. n - 1 : k \in A => k + 1 \in A
    BY <1>2, <1>5, \A k \in 0 .. n - 1 : k + 1 \in 0 .. n
  <2> HIDE DEF A
  <2>3. 0 .. n \subseteq A  BY <1>2, <2>1, <2>2, UpTo
  <2> QED  BY <2>3 DEF A
<1>7. SUFFICES ASSUME ~ Closed(R[n], E) PROVE FALSE  BY <1>1, <1>2, <1>6
\* No earlier round was the last either.
<1>8. \A k \in 0 .. n - 1 : R[k] # R[k + 1]
  <2> SUFFICES ASSUME NEW k \in 0 .. n - 1, R[k] = R[k + 1] PROVE FALSE  OBVIOUS
  <2>0. k + 1 \in 1 .. n /\ (k + 1) - 1 = k  BY <1>2
  <2>1. R[k] = OneStep(R[k], E)  BY <1>3, <2>0
  <2> DEFINE A == {j \in 0 .. n - k : R[k + j] = R[k]}
  <2>2. 0 \in A  BY <1>2
  <2>3. ASSUME NEW j \in 0 .. (n - k) - 1, j \in A PROVE j + 1 \in A
    <3>1. k + (j + 1) \in 1 .. n /\ (k + (j + 1)) - 1 = k + j  BY <1>2
    <3>2. R[k + (j + 1)] = OneStep(R[k + j], E)  BY <3>1, <1>3
    <3>3. j + 1 \in 0 .. n - k  BY <1>2
    <3> QED  BY <2>1, <2>3, <3>2, <3>3
  <2>4. n - k \in Nat  BY <1>2
  <2> HIDE DEF A
  <2>5. 0 .. n - k \subseteq A  BY <2>2, <2>3, <2>4, UpTo
  <2>6. n - k \in A  BY <2>4, <2>5
  <2>7. k + (n - k) = n  BY <1>2
  <2>8. R[n] = R[k]  BY <2>6, <2>7 DEF A
  <2>9. Closed(R[n], E)  BY <2>1, <2>8 DEF OneStep, Closed
  <2> QED  BY <2>9, <1>7
\* So there are as many new targets as rounds, and one more.
<1>9. \A k \in 0 .. n : IsFiniteSet(R[k] \ S) /\ Cardinality(R[k] \ S) >= k
  <2> DEFINE A == {k \in 0 .. n : IsFiniteSet(R[k] \ S) /\ Cardinality(R[k] \ S) >= k}
  <2>1. 0 \in A
    <3>1. R[0] \ S = {}  BY <1>3
    <3> QED  BY <1>2, <3>1, FS_EmptySet
  <2>2. ASSUME NEW k \in 0 .. n - 1, k \in A PROVE k + 1 \in A
    <3>1. k + 1 \in 0 .. n  BY <1>2
    <3>2. R[k + 1] \ S \in SUBSET I  BY <1>6, <3>1
    <3>3. IsFiniteSet(R[k + 1] \ S)  BY <1>4, <3>2, FS_Subset
    <3>4. R[k] \ S \in SUBSET (R[k + 1] \ S)  BY <1>5
    <3>5. R[k] \ S # R[k + 1] \ S
      <4>1. PICK x \in R[k + 1] : x \notin R[k]  BY <1>5, <1>8
      <4>2. x \notin S  BY <1>2, <1>6, <4>1, k \in 0 .. n
      <4> QED  BY <4>1, <4>2
    <3>6. /\ Cardinality(R[k] \ S) <= Cardinality(R[k + 1] \ S)
          /\ Cardinality(R[k] \ S) # Cardinality(R[k + 1] \ S)
      BY <3>3, <3>4, <3>5, FS_Subset
    <3>7. Cardinality(R[k] \ S) \in Nat /\ Cardinality(R[k + 1] \ S) \in Nat
      BY <2>2, <3>3, FS_CardinalityType
    <3> QED  BY <2>2, <3>1, <3>3, <3>6, <3>7
  <2> HIDE DEF A
  <2>3. 0 .. n \subseteq A  BY <1>2, <2>1, <2>2, UpTo
  <2> QED  BY <2>3 DEF A
<1>10. PICK e \in E : e[1] \in R[n] /\ e[2] \notin R[n]  BY <1>7 DEF Closed
<1>11. R[n] \ S \in SUBSET (I \ {e[2]})
  BY <1>2, <1>6, <1>10
<1>12. e[2] \in I  BY <1>10 DEF I
<1>13. IsFiniteSet(I \ {e[2]}) /\ Cardinality(I \ {e[2]}) = Cardinality(I) - 1
  BY <1>4, <1>12, FS_RemoveElement
<1>14. Cardinality(R[n] \ S) <= Cardinality(I \ {e[2]})  BY <1>11, <1>13, FS_Subset
<1>15. IsFiniteSet(R[n] \ S) /\ Cardinality(R[n] \ S) >= n  BY <1>2, <1>9
<1>16. Cardinality(I) \in Nat /\ Cardinality(R[n] \ S) \in Nat
  BY <1>4, <1>15, FS_CardinalityType
<1> QED  BY <1>2, <1>4, <1>13, <1>14, <1>15, <1>16

\* What contains the start and is closed contains all that can be reached.
LEMMA ReachLeast ==
  ASSUME NEW S, NEW E, IsFiniteSet(E), NEW C, S \subseteq C, Closed(C, E)
  PROVE  ReachableFrom(S, E) \subseteq C
<1> DEFINE n == Cardinality(E)
<1>1. PICK R : IsRounds(R, S, E) /\ ReachableFrom(S, E) = R[n]  BY Rounds
<1>2. n \in Nat  BY FS_CardinalityType
<1>3. R[0] = S /\ \A k \in 1 .. n : R[k] = OneStep(R[k - 1], E)  BY <1>1 DEF IsRounds
<1> HIDE DEF n
<1> DEFINE A == {k \in 0 .. n : R[k] \subseteq C}
<1>4. 0 \in A  BY <1>2, <1>3
<1>5. ASSUME NEW k \in 0 .. n - 1, k \in A PROVE k + 1 \in A
  <2>1. k + 1 \in 1 .. n /\ (k + 1) - 1 = k  BY <1>2
  <2>2. R[k + 1] = OneStep(R[k], E)  BY <2>1, <1>3
  <2>3. R[k] \subseteq C  BY <1>5
  <2>4. R[k + 1] \subseteq C  BY <2>2, <2>3 DEF OneStep, Closed
  <2> QED  BY <2>1, <2>4
<1> HIDE DEF A
<1>6. 0 .. n \subseteq A  BY <1>2, <1>4, <1>5, UpTo
<1> QED  BY <1>1, <1>2, <1>6 DEF A

------------------------------------------------------------------------------
(* The depth-first search.                                                   *)

Frames(G) == [block : Blocks(G), at : Nat \ {0}]

SearchType(G, d) ==
  /\ d = [visited |-> d.visited, post |-> d.post, stack |-> d.stack]
  /\ d.visited \subseteq Blocks(G)
  /\ d.post \in Seq(Blocks(G))
  /\ d.stack \in Seq(Frames(G))

\* The visited blocks are on the stack or finished, once.
SearchOnce(G, d) ==
  /\ \A b \in d.visited : \/ \E i \in DOMAIN d.stack : d.stack[i].block = b
                          \/ \E j \in DOMAIN d.post : d.post[j] = b
  /\ \A i \in DOMAIN d.stack : d.stack[i].block \in d.visited
  /\ \A j \in DOMAIN d.post : d.post[j] \in d.visited
  /\ \A i, j \in DOMAIN d.stack : i # j => d.stack[i].block # d.stack[j].block
  /\ \A i, j \in DOMAIN d.post : i # j => d.post[i] # d.post[j]
  /\ \A i \in DOMAIN d.stack, j \in DOMAIN d.post : d.stack[i].block # d.post[j]

\* The stack is a way from the entry, and every finished block but the entry
\* has a predecessor that is not finished or was finished later.
SearchTree(G, d) ==
  /\ d.stack # << >> => d.stack[1].block = 1
  /\ d.stack = << >> => d.post # << >> /\ d.post[Len(d.post)] = 1
  /\ \A i \in 1 .. Len(d.stack) - 1 : d.stack[i + 1].block \in Range(G[d.stack[i].block])
  /\ \A j \in DOMAIN d.post :
       \/ d.stack = << >> /\ j = Len(d.post)
       \/ \E i \in DOMAIN d.stack : d.post[j] \in Range(G[d.stack[i].block])
       \/ \E l \in j + 1 .. Len(d.post) : d.post[j] \in Range(G[d.post[l]])

\* The successors looked at have been visited.
SearchSeen(G, d) ==
  /\ \A i \in DOMAIN d.stack : \A k \in DOMAIN G[d.stack[i].block] :
       k < d.stack[i].at => G[d.stack[i].block][k] \in d.visited
  /\ \A j \in DOMAIN d.post : Range(G[d.post[j]]) \subseteq d.visited

SearchInv(G, d) == SearchType(G, d) /\ SearchOnce(G, d) /\ SearchTree(G, d) /\ SearchSeen(G, d)

LEMMA CfgType ==
  ASSUME NEW G, IsCfg(G)
  PROVE  /\ 1 \in Blocks(G) /\ Len(G) \in Nat
         /\ \A b \in Blocks(G) : /\ G[b] \in Seq(2 .. Len(G))
                                /\ Range(G[b]) \subseteq Blocks(G) \ {1}
                                /\ \A k \in DOMAIN G[b] : G[b][k] \in Range(G[b])
<1>1. G \in Seq(Seq(2 .. Len(G))) /\ Len(G) \in Nat /\ Len(G) # 0  BY DEF IsCfg
<1>2. \A b \in Blocks(G) : G[b] \in Seq(2 .. Len(G))  BY <1>1 DEF Blocks
<1> QED  BY <1>1, <1>2 DEF Blocks, Range

LEMMA FrontOf ==
  ASSUME NEW T, NEW s \in Seq(T), s # << >>
  PROVE  /\ Front(s) \in Seq(T) /\ Len(Front(s)) = Len(s) - 1
         /\ \A i \in 1 .. Len(s) - 1 : Front(s)[i] = s[i]
         /\ Last(s) = s[Len(s)] /\ Len(s) \in Nat \ {0} /\ Last(s) \in T
<1>1. Len(s) \in Nat \ {0} /\ \A i \in 1 .. Len(s) : s[i] \in T  OBVIOUS
<1>2. Front(s) = [i \in 1 .. Len(s) - 1 |-> s[i]]
  BY <1>1 DEF Front
<1> QED  BY <1>1, <1>2 DEF Last

LEMMA SearchStarts ==
  ASSUME NEW G, IsCfg(G)
  PROVE  SearchInv(G, SearchStart)
<1> DEFINE f == [block |-> 1, at |-> 1]
           d == SearchStart
<1>1. d.stack = <<f>> /\ d.post = << >> /\ d.visited = {1}  BY DEF SearchStart
<1>2. f \in Frames(G)  BY CfgType DEF Frames
<1>3. SearchType(G, d)  BY <1>1, <1>2, CfgType DEF SearchType, SearchStart
<1>4. DOMAIN d.stack = {1} /\ d.stack[1] = f /\ DOMAIN d.post = {} /\ Len(d.stack) = 1
  BY <1>1
<1>5. SearchOnce(G, d)  BY <1>1, <1>4 DEF SearchOnce
<1>6. SearchTree(G, d)  BY <1>1, <1>4 DEF SearchTree
<1>7. SearchSeen(G, d)  BY <1>1, <1>4, CfgType DEF SearchSeen
<1> QED  BY <1>3, <1>5, <1>6, <1>7 DEF SearchInv

\* A block whose successors are all looked at is finished.
LEMMA SearchLeaves ==
  ASSUME NEW G, IsCfg(G), NEW d, SearchInv(G, d), d.stack # << >>,
         Last(d.stack).at > Len(G[Last(d.stack).block])
  PROVE  SearchInv(G, SearchStep(G, d))
<1> DEFINE n == Len(d.stack)
           top == d.stack[n]
           below == Front(d.stack)
           m == Len(d.post)
           e == SearchStep(G, d)
<1>1. SearchType(G, d) /\ SearchOnce(G, d) /\ SearchTree(G, d) /\ SearchSeen(G, d)
  BY DEF SearchInv
<1>2. n \in Nat \ {0} /\ m \in Nat /\ top \in Frames(G) /\ Last(d.stack) = top
  BY <1>1 DEF SearchType, Last
<1>3. /\ e.stack = below /\ e.post = Append(d.post, top.block) /\ e.visited = d.visited
      /\ e = [visited |-> e.visited, post |-> e.post, stack |-> e.stack]
  BY <1>1, <1>2 DEF SearchStep, SearchType
<1>4. /\ below \in Seq(Frames(G)) /\ Len(below) = n - 1
      /\ \A i \in 1 .. n - 1 : below[i] = d.stack[i]
      /\ DOMAIN below = 1 .. n - 1
  BY <1>1, FrontOf DEF SearchType
<1>5. /\ e.post \in Seq(Blocks(G)) /\ Len(e.post) = m + 1 /\ DOMAIN e.post = 1 .. m + 1
      /\ e.post[m + 1] = top.block
      /\ \A j \in 1 .. m : e.post[j] = d.post[j]
  BY <1>1, <1>2, <1>3 DEF SearchType, Frames
<1>6. DOMAIN d.stack = 1 .. n /\ DOMAIN d.post = 1 .. m  BY <1>1 DEF SearchType
<1> HIDE DEF e, below, top, m, n
<1>11. DOMAIN e.stack = 1 .. n - 1 /\ \A i \in 1 .. n - 1 : i \in 1 .. n /\ e.stack[i] = d.stack[i]
  BY <1>2, <1>3, <1>4
<1>7. SearchType(G, e)  BY <1>1, <1>3, <1>4, <1>5 DEF SearchType
<1>8. SearchOnce(G, e)
  <2>1. \A i \in 1 .. n - 1 : below[i].block # top.block
    BY <1>1, <1>2, <1>4, <1>6 DEF SearchOnce, top
  <2>2. \A j \in 1 .. m : d.post[j] # top.block
    BY <1>1, <1>2, <1>6 DEF SearchOnce, top
  <2>3. ASSUME NEW b \in e.visited
        PROVE  \/ \E i \in DOMAIN e.stack : e.stack[i].block = b
               \/ \E j \in DOMAIN e.post : e.post[j] = b
    <3>1. CASE \E i \in DOMAIN d.stack : d.stack[i].block = b
      <4>1. PICK i \in 1 .. n : d.stack[i].block = b  BY <3>1, <1>6
      <4>2. CASE i = n  BY <4>1, <4>2, <1>2, <1>5 DEF top
      <4>3. CASE i # n
        <5>1. i \in 1 .. n - 1  BY <4>3, <1>2
        <5> QED  BY <5>1, <4>1, <1>3, <1>4
      <4> QED  BY <4>2, <4>3
    <3>2. CASE \E j \in DOMAIN d.post : d.post[j] = b
      <4>1. PICK j \in 1 .. m : d.post[j] = b  BY <3>2, <1>6
      <4> QED  BY <4>1, <1>2, <1>5
    <3> QED  BY <3>1, <3>2, <1>1, <1>3 DEF SearchOnce
  <2>4. \A i \in DOMAIN e.stack : e.stack[i].block \in e.visited
    BY <1>1, <1>2, <1>3, <1>4, <1>6 DEF SearchOnce
  <2>5. \A j \in DOMAIN e.post : e.post[j] \in e.visited
    <3>1. top.block \in d.visited  BY <1>1, <1>2, <1>6 DEF SearchOnce, top
    <3> QED  BY <3>1, <1>1, <1>2, <1>3, <1>5, <1>6 DEF SearchOnce
  <2>6. \A i, j \in DOMAIN e.stack : i # j => e.stack[i].block # e.stack[j].block
    BY <1>1, <1>6, <1>11 DEF SearchOnce
  <2>7. \A i, j \in DOMAIN e.post : i # j => e.post[i] # e.post[j]
    BY <2>2, <1>1, <1>2, <1>5, <1>6 DEF SearchOnce
  <2>8. \A i \in DOMAIN e.stack, j \in DOMAIN e.post : e.stack[i].block # e.post[j]
    <3>1. \A i \in 1 .. n - 1, j \in 1 .. m : below[i].block # d.post[j]
      BY <1>1, <1>4, <1>6, <1>11 DEF SearchOnce
    <3> QED  BY <2>1, <3>1, <1>2, <1>3, <1>4, <1>5
  <2> QED  BY <2>3, <2>4, <2>5, <2>6, <2>7, <2>8 DEF SearchOnce
<1>9. SearchTree(G, e)
  <2>1. e.stack # << >> => e.stack[1].block = 1
    BY <1>1, <1>2, <1>3, <1>4 DEF SearchTree
  <2>2. e.stack = << >> => e.post # << >> /\ e.post[Len(e.post)] = 1
    <3>1. e.stack = << >> => n = 1  BY <1>2, <1>3, <1>4
    <3>2. n = 1 => top.block = 1  BY <1>1, <1>2, <1>6 DEF SearchTree, top
    <3> QED  BY <3>1, <3>2, <1>2, <1>5
  <2>3. \A i \in 1 .. Len(e.stack) - 1 : e.stack[i + 1].block \in Range(G[e.stack[i].block])
    <3>1. \A i \in 1 .. n - 1 : d.stack[i + 1].block \in Range(G[d.stack[i].block])
      BY <1>1 DEF SearchTree, n
    <3> QED  BY <3>1, <1>2, <1>3, <1>4
  <2>4. ASSUME NEW j \in DOMAIN e.post
        PROVE  \/ e.stack = << >> /\ j = Len(e.post)
               \/ \E i \in DOMAIN e.stack : e.post[j] \in Range(G[e.stack[i].block])
               \/ \E l \in j + 1 .. Len(e.post) : e.post[j] \in Range(G[e.post[l]])
    <3>1. CASE j = m + 1 /\ n = 1
      <4>1. Len(e.stack) = 0  BY <3>1, <1>3, <1>4
      <4> QED  BY <3>1, <4>1, <1>3, <1>4, <1>5
    <3>2. CASE j = m + 1 /\ n # 1
      <4>1. n - 1 \in 1 .. n - 1 /\ (n - 1) + 1 = n  BY <3>2, <1>2
      <4>2. d.stack[n].block \in Range(G[d.stack[n - 1].block])
        BY <4>1, <1>1 DEF SearchTree, n
      <4>3. e.post[j] = d.stack[n].block  BY <3>2, <1>5 DEF top
      <4> QED  BY <4>1, <4>2, <4>3, <1>3, <1>4
    <3>3. CASE j \in 1 .. m
      <4>0. e.post[j] = d.post[j]  BY <3>3, <1>5
      <4>1. \/ \E i \in 1 .. n : d.post[j] \in Range(G[d.stack[i].block])
            \/ \E l \in j + 1 .. m : d.post[j] \in Range(G[d.post[l]])
        <5>1. d.stack # << >>  OBVIOUS
        <5> QED  BY <5>1, <3>3, <1>1, <1>6 DEF SearchTree, m
      <4>2. CASE \E i \in 1 .. n : d.post[j] \in Range(G[d.stack[i].block])
        <5>1. PICK i \in 1 .. n : d.post[j] \in Range(G[d.stack[i].block])  BY <4>2
        <5>2. CASE i = n
          <6>1. m + 1 \in j + 1 .. Len(e.post)  BY <3>3, <1>2, <1>5
          <6>2. e.post[j] \in Range(G[e.post[m + 1]])  BY <4>0, <5>1, <5>2, <1>5 DEF top
          <6> QED  BY <6>1, <6>2
        <5>3. CASE i # n
          <6>1. i \in 1 .. n - 1  BY <5>3, <1>2
          <6> QED  BY <6>1, <4>0, <5>1, <1>3, <1>4
        <5> QED  BY <5>2, <5>3
      <4>3. CASE \E l \in j + 1 .. m : d.post[j] \in Range(G[d.post[l]])
        <5>1. PICK l \in j + 1 .. m : d.post[j] \in Range(G[d.post[l]])  BY <4>3
        <5>2. l \in 1 .. m /\ l \in j + 1 .. Len(e.post)  BY <3>3, <1>2, <1>5
        <5> QED  BY <4>0, <5>1, <5>2, <1>5
      <4> QED  BY <4>1, <4>2, <4>3
    <3> QED  BY <3>1, <3>2, <3>3, <1>2, <1>5
  <2> QED  BY <2>1, <2>2, <2>3, <2>4 DEF SearchTree
<1>10. SearchSeen(G, e)
  <2>1. \A i \in DOMAIN e.stack : \A k \in DOMAIN G[e.stack[i].block] :
          k < e.stack[i].at => G[e.stack[i].block][k] \in e.visited
    BY <1>1, <1>3, <1>6, <1>11 DEF SearchSeen
  <2>2. Range(G[top.block]) \subseteq d.visited
    <3>1. top.block \in Blocks(G) /\ top.at \in Nat  BY <1>2 DEF Frames
    <3>2. G[top.block] \in Seq(2 .. Len(G))  BY <3>1, CfgType
    <3>3. top.at > Len(G[top.block])  BY <1>2
    <3>4. \A k \in DOMAIN G[top.block] : k < top.at => G[top.block][k] \in d.visited
      BY <1>1, <1>2, <1>6 DEF SearchSeen, top
    <3>5. \A k \in DOMAIN G[top.block] : k < top.at  BY <3>1, <3>2, <3>3
    <3> QED  BY <3>4, <3>5 DEF Range
  <2>3. \A j \in DOMAIN e.post : Range(G[e.post[j]]) \subseteq e.visited
    BY <2>2, <1>1, <1>2, <1>3, <1>5, <1>6 DEF SearchSeen
  <2> QED  BY <2>1, <2>3 DEF SearchSeen
<1> QED  BY <1>7, <1>8, <1>9, <1>10 DEF SearchInv, e

\* The stack after a look at the next successor of its last block.
LEMMA Advanced ==
  ASSUME NEW G, IsCfg(G), NEW d, SearchType(G, d), d.stack # << >>,
         Last(d.stack).at <= Len(G[Last(d.stack).block])
  PROVE  LET n == Len(d.stack)
             top == d.stack[n]
             adv == Append(Front(d.stack), [top EXCEPT !.at = @ + 1])
             next == G[top.block][top.at]
         IN /\ n \in Nat \ {0} /\ Last(d.stack) = top /\ top \in Frames(G)
            /\ next \in Range(G[top.block]) /\ next \in Blocks(G)
            /\ adv \in Seq(Frames(G)) /\ Len(adv) = n
            /\ \A i \in 1 .. n : adv[i].block = d.stack[i].block
            /\ \A i \in 1 .. n : i # n => adv[i].at = d.stack[i].at
            /\ adv[n].at = top.at + 1
<1> DEFINE n == Len(d.stack)
           top == d.stack[n]
           t == [top EXCEPT !.at = @ + 1]
           adv == Append(Front(d.stack), t)
           next == G[top.block][top.at]
<1>1. n \in Nat \ {0} /\ Last(d.stack) = top /\ top \in Frames(G)
  BY FrontOf DEF SearchType
<1>2. top.block \in Blocks(G) /\ top.at \in Nat \ {0}  BY <1>1 DEF Frames
<1>3. next \in Range(G[top.block]) /\ next \in Blocks(G)
  <2>1. top.at \in DOMAIN G[top.block]  BY <1>1, <1>2, CfgType
  <2> QED  BY <1>2, <2>1, CfgType
<1>4. t \in Frames(G) /\ t.block = top.block /\ t.at = top.at + 1
  BY <1>1, <1>2 DEF Frames
<1>5. /\ Front(d.stack) \in Seq(Frames(G)) /\ Len(Front(d.stack)) = n - 1
      /\ \A i \in 1 .. n - 1 : Front(d.stack)[i] = d.stack[i]
  BY FrontOf DEF SearchType
<1> HIDE DEF t
<1>6. adv \in Seq(Frames(G)) /\ Len(adv) = n /\ adv[n] = t
      /\ \A i \in 1 .. n - 1 : adv[i] = Front(d.stack)[i]
  BY <1>1, <1>4, <1>5
<1>7. \A i \in 1 .. n : i = n \/ i \in 1 .. n - 1  BY <1>1
<1> HIDE DEF adv, top, n
<1>8. \A i \in 1 .. n : adv[i].block = d.stack[i].block  BY <1>4, <1>5, <1>6, <1>7 DEF top
<1>9. \A i \in 1 .. n : i # n => adv[i].at = d.stack[i].at  BY <1>5, <1>6, <1>7
<1> QED  BY <1>1, <1>3, <1>4, <1>6, <1>8, <1>9 DEF adv, t, top, n

\* A successor visited before is passed over.
LEMMA SearchPasses ==
  ASSUME NEW G, IsCfg(G), NEW d, SearchInv(G, d), d.stack # << >>,
         Last(d.stack).at <= Len(G[Last(d.stack).block]),
         G[Last(d.stack).block][Last(d.stack).at] \in d.visited
  PROVE  SearchInv(G, SearchStep(G, d))
<1> DEFINE n == Len(d.stack)
           top == d.stack[n]
           adv == Append(Front(d.stack), [top EXCEPT !.at = @ + 1])
           next == G[top.block][top.at]
           e == SearchStep(G, d)
<1>1. SearchType(G, d) /\ SearchOnce(G, d) /\ SearchTree(G, d) /\ SearchSeen(G, d)
  BY DEF SearchInv
<1>2. /\ n \in Nat \ {0} /\ Last(d.stack) = top /\ top \in Frames(G)
      /\ adv \in Seq(Frames(G)) /\ Len(adv) = n
      /\ \A i \in 1 .. n : adv[i].block = d.stack[i].block
      /\ \A i \in 1 .. n : i # n => adv[i].at = d.stack[i].at
      /\ adv[n].at = top.at + 1
  BY <1>1, Advanced
<1>3. /\ e.stack = adv /\ e.post = d.post /\ e.visited = d.visited
      /\ e = [visited |-> e.visited, post |-> e.post, stack |-> e.stack]
  <2>1. ~ (top.at > Len(G[top.block])) /\ next \in d.visited
    <3>1. top.block \in Blocks(G) /\ top.at \in Nat  BY <1>2 DEF Frames
    <3>2. Len(G[top.block]) \in Nat  BY <3>1, CfgType
    <3> QED  BY <1>2, <3>1, <3>2
  <2>2. e = [d EXCEPT !.stack = adv]  BY <1>2, <2>1 DEF SearchStep
  <2> QED  BY <1>1, <2>2 DEF SearchType
<1>4. next \in d.visited  BY <1>2
<1> HIDE DEF e, adv, top, n, next
<1>5. DOMAIN e.stack = 1 .. n /\ DOMAIN d.stack = 1 .. n /\ Len(e.stack) = n /\ e.stack # << >>
  BY <1>1, <1>2, <1>3 DEF SearchType, n
<1>6. \A i \in 1 .. n : e.stack[i].block = d.stack[i].block  BY <1>2, <1>3
<1>7. SearchType(G, e)  BY <1>1, <1>2, <1>3 DEF SearchType
<1>8. SearchOnce(G, e)
  BY <1>1, <1>3, <1>5, <1>6 DEF SearchOnce
<1>9. SearchTree(G, e)
  <2>1. \A i \in 1 .. n - 1 : i \in 1 .. n /\ i + 1 \in 1 .. n  BY <1>2
  <2>2. \A i \in 1 .. n - 1 : e.stack[i + 1].block \in Range(G[e.stack[i].block])
    BY <2>1, <1>1, <1>6 DEF SearchTree, n
  <2>3. e.stack[1].block = 1  BY <1>1, <1>2, <1>6 DEF SearchTree
  <2>4. ASSUME NEW j \in DOMAIN e.post
        PROVE  \/ \E i \in DOMAIN e.stack : e.post[j] \in Range(G[e.stack[i].block])
               \/ \E l \in j + 1 .. Len(e.post) : e.post[j] \in Range(G[e.post[l]])
    BY <1>1, <1>3, <1>5, <1>6 DEF SearchTree
  <2> QED  BY <2>2, <2>3, <2>4, <1>5 DEF SearchTree
<1>10. SearchSeen(G, e)
  <2>1. ASSUME NEW i \in 1 .. n, NEW k \in DOMAIN G[e.stack[i].block], k < e.stack[i].at
        PROVE  G[e.stack[i].block][k] \in e.visited
    <3>1. CASE i = n
      <4>1. e.stack[i].block = top.block /\ e.stack[i].at = top.at + 1
        BY <3>1, <1>2, <1>3, <1>6 DEF top
      <4>2. top.at \in Nat /\ G[top.block] \in Seq(2 .. Len(G))
        BY <1>2, CfgType DEF Frames
      <4>3. k \in Nat /\ (k < top.at \/ k = top.at)  BY <2>1, <4>1, <4>2
      <4> QED  BY <2>1, <4>1, <4>3, <1>1, <1>3, <1>4, <1>5, <3>1 DEF SearchSeen, next, top
    <3>2. CASE i # n
      BY <2>1, <3>2, <1>1, <1>2, <1>3, <1>5, <1>6 DEF SearchSeen
    <3> QED  BY <3>1, <3>2
  <2>2. \A j \in DOMAIN e.post : Range(G[e.post[j]]) \subseteq e.visited
    BY <1>1, <1>3 DEF SearchSeen
  <2> QED  BY <2>1, <2>2, <1>5 DEF SearchSeen
<1> QED  BY <1>7, <1>8, <1>9, <1>10 DEF SearchInv, e

\* A successor not visited before is searched next.
LEMMA SearchEnters ==
  ASSUME NEW G, IsCfg(G), NEW d, SearchInv(G, d), d.stack # << >>,
         Last(d.stack).at <= Len(G[Last(d.stack).block]),
         G[Last(d.stack).block][Last(d.stack).at] \notin d.visited
  PROVE  SearchInv(G, SearchStep(G, d))
<1> DEFINE n == Len(d.stack)
           top == d.stack[n]
           adv == Append(Front(d.stack), [top EXCEPT !.at = @ + 1])
           next == G[top.block][top.at]
           f == [block |-> next, at |-> 1]
           e == SearchStep(G, d)
<1>1. SearchType(G, d) /\ SearchOnce(G, d) /\ SearchTree(G, d) /\ SearchSeen(G, d)
  BY DEF SearchInv
<1>2. /\ n \in Nat \ {0} /\ Last(d.stack) = top /\ top \in Frames(G)
      /\ adv \in Seq(Frames(G)) /\ Len(adv) = n
      /\ \A i \in 1 .. n : adv[i].block = d.stack[i].block
      /\ \A i \in 1 .. n : i # n => adv[i].at = d.stack[i].at
      /\ adv[n].at = top.at + 1
      /\ next \in Range(G[top.block]) /\ next \in Blocks(G)
  BY <1>1, Advanced
<1>3. /\ e.stack = Append(adv, f) /\ e.post = d.post /\ e.visited = d.visited \cup {next}
      /\ e = [visited |-> e.visited, post |-> e.post, stack |-> e.stack]
  <2>1. ~ (top.at > Len(G[top.block])) /\ next \notin d.visited
    <3>1. top.block \in Blocks(G) /\ top.at \in Nat  BY <1>2 DEF Frames
    <3>2. Len(G[top.block]) \in Nat  BY <3>1, CfgType
    <3> QED  BY <1>2, <3>1, <3>2
  <2>2. e = [d EXCEPT !.visited = @ \cup {next}, !.stack = Append(adv, f)]
    BY <1>2, <2>1 DEF SearchStep
  <2> QED  BY <1>1, <2>2 DEF SearchType
<1>4. next \notin d.visited  BY <1>2
<1>5. f \in Frames(G) /\ f.block = next /\ f.at = 1  BY <1>2 DEF Frames
<1> HIDE DEF e, adv, top, n, next, f
<1>6. /\ e.stack \in Seq(Frames(G)) /\ Len(e.stack) = n + 1 /\ e.stack[n + 1] = f
      /\ \A i \in 1 .. n : e.stack[i] = adv[i]
      /\ DOMAIN e.stack = 1 .. n + 1 /\ e.stack # << >>
  BY <1>2, <1>3, <1>5
<1>7. DOMAIN d.stack = 1 .. n  BY <1>1 DEF SearchType, n
<1>8. \A i \in 1 .. n : e.stack[i].block = d.stack[i].block /\ i \in 1 .. n + 1
  BY <1>2, <1>6
<1>9. \A i \in 1 .. n + 1 : i = n + 1 \/ i \in 1 .. n  BY <1>2
<1>10. e.stack[n + 1].block = next /\ e.stack[n + 1].at = 1 /\ n + 1 \in 1 .. n + 1
  BY <1>2, <1>5, <1>6
<1>11. SearchType(G, e)  BY <1>1, <1>2, <1>3, <1>6 DEF SearchType
<1>12. SearchOnce(G, e)
  <2>1. \A i \in 1 .. n : d.stack[i].block # next  BY <1>1, <1>4, <1>7 DEF SearchOnce
  <2>2. \A j \in DOMAIN d.post : d.post[j] # next  BY <1>1, <1>4 DEF SearchOnce
  <2>3. ASSUME NEW b \in e.visited
        PROVE  \/ \E i \in DOMAIN e.stack : e.stack[i].block = b
               \/ \E j \in DOMAIN e.post : e.post[j] = b
    <3>1. CASE b = next  BY <3>1, <1>6, <1>10
    <3>2. CASE b \in d.visited
      <4>1. CASE \E i \in 1 .. n : d.stack[i].block = b  BY <4>1, <1>6, <1>8
      <4> QED  BY <3>2, <4>1, <1>1, <1>3, <1>7 DEF SearchOnce
    <3> QED  BY <3>1, <3>2, <1>3
  <2>4. \A i \in DOMAIN e.stack : e.stack[i].block \in e.visited
    BY <1>1, <1>3, <1>6, <1>7, <1>8, <1>9, <1>10 DEF SearchOnce
  <2>5. \A j \in DOMAIN e.post : e.post[j] \in e.visited
    BY <1>1, <1>3 DEF SearchOnce
  <2>6. \A i, j \in DOMAIN e.stack : i # j => e.stack[i].block # e.stack[j].block
    <3>1. \A i, j \in 1 .. n : i # j => d.stack[i].block # d.stack[j].block
      BY <1>1, <1>7 DEF SearchOnce
    <3> QED  BY <2>1, <3>1, <1>6, <1>8, <1>9, <1>10
  <2>7. \A i, j \in DOMAIN e.post : i # j => e.post[i] # e.post[j]
    BY <1>1, <1>3 DEF SearchOnce
  <2>8. \A i \in DOMAIN e.stack, j \in DOMAIN e.post : e.stack[i].block # e.post[j]
    <3>1. \A i \in 1 .. n, j \in DOMAIN d.post : d.stack[i].block # d.post[j]
      BY <1>1, <1>7 DEF SearchOnce
    <3> QED  BY <2>2, <3>1, <1>3, <1>6, <1>8, <1>9, <1>10
  <2> QED  BY <2>3, <2>4, <2>5, <2>6, <2>7, <2>8 DEF SearchOnce
<1>13. SearchTree(G, e)
  <2>1. ASSUME NEW i \in 1 .. n
        PROVE  e.stack[i + 1].block \in Range(G[e.stack[i].block])
    <3>1. CASE i = n  BY <3>1, <1>2, <1>8, <1>10 DEF top
    <3>2. CASE i # n
      <4>1. i \in 1 .. n - 1 /\ i + 1 \in 1 .. n  BY <3>2, <1>2
      <4> QED  BY <4>1, <1>1, <1>8 DEF SearchTree, n
    <3> QED  BY <3>1, <3>2
  <2>2. e.stack[1].block = 1
    <3>1. d.stack[1].block = 1 /\ 1 \in 1 .. n  BY <1>1, <1>2 DEF SearchTree
    <3> QED  BY <3>1, <1>8
  <2>3. ASSUME NEW j \in DOMAIN e.post
        PROVE  \/ \E i \in DOMAIN e.stack : e.post[j] \in Range(G[e.stack[i].block])
               \/ \E l \in j + 1 .. Len(e.post) : e.post[j] \in Range(G[e.post[l]])
    <3>1. \/ \E i \in 1 .. n : d.post[j] \in Range(G[d.stack[i].block])
          \/ \E l \in j + 1 .. Len(d.post) : d.post[j] \in Range(G[d.post[l]])
      BY <1>1, <1>3, <1>7 DEF SearchTree
    <3> QED  BY <3>1, <1>3, <1>6, <1>8
  <2>4. (n + 1) - 1 = n  BY <1>2
  <2> QED  BY <2>1, <2>2, <2>3, <2>4, <1>6 DEF SearchTree
<1>14. SearchSeen(G, e)
  <2>1. ASSUME NEW i \in 1 .. n, NEW k \in DOMAIN G[e.stack[i].block], k < e.stack[i].at
        PROVE  G[e.stack[i].block][k] \in e.visited
    <3>1. CASE i = n
      <4>1. e.stack[i].block = top.block /\ e.stack[i].at = top.at + 1
        BY <3>1, <1>2, <1>6, <1>8 DEF top
      <4>2. top.at \in Nat /\ G[top.block] \in Seq(2 .. Len(G))
        BY <1>2, CfgType DEF Frames
      <4>3. k \in Nat /\ (k < top.at \/ k = top.at)  BY <2>1, <4>1, <4>2
      <4> QED  BY <2>1, <4>1, <4>3, <1>1, <1>3, <1>7, <3>1 DEF SearchSeen, next, top
    <3>2. CASE i # n
      <4>1. e.stack[i].at = d.stack[i].at  BY <3>2, <1>2, <1>6
      <4> QED  BY <2>1, <4>1, <1>1, <1>3, <1>7, <1>8 DEF SearchSeen
    <3> QED  BY <3>1, <3>2
  <2>2. \A k \in DOMAIN G[next] : ~ (k < 1)
    <3>1. G[next] \in Seq(2 .. Len(G))  BY <1>2, CfgType
    <3> QED  BY <3>1
  <2>3. \A j \in DOMAIN e.post : Range(G[e.post[j]]) \subseteq e.visited
    BY <1>1, <1>3 DEF SearchSeen
  <2> QED  BY <2>1, <2>2, <2>3, <1>6, <1>9, <1>10 DEF SearchSeen
<1> QED  BY <1>11, <1>12, <1>13, <1>14 DEF SearchInv, e

LEMMA SearchSteps ==
  ASSUME NEW G, IsCfg(G), NEW d, SearchInv(G, d), d.stack # << >>
  PROVE  SearchInv(G, SearchStep(G, d))
<1>1. Last(d.stack).block \in Blocks(G) /\ Last(d.stack).at \in Nat
  <2>1. d.stack \in Seq(Frames(G))  BY DEF SearchInv, SearchType
  <2>2. Last(d.stack) \in Frames(G)  BY <2>1, FrontOf
  <2> QED  BY <2>2 DEF Frames
<1>2. Len(G[Last(d.stack).block]) \in Nat  BY <1>1, CfgType
<1> QED  BY <1>1, <1>2, SearchLeaves, SearchPasses, SearchEnters

(***************************************************************************)
(* The reverse post-order: the entry comes first, every other block comes  *)
(* after one of its predecessors, no block comes twice, and with a block   *)
(* come all its successors.                                                *)
(***************************************************************************)
Ordered(G, ord) ==
  /\ ord \in Seq(Blocks(G)) /\ ord # << >> /\ ord[1] = 1
  /\ \A i \in 2 .. Len(ord) : \E p \in 1 .. i - 1 : ord[i] \in Range(G[ord[p]])
  /\ \A i, j \in 1 .. Len(ord) : ord[i] = ord[j] => i = j
  /\ \A i \in 1 .. Len(ord) : Range(G[ord[i]]) \subseteq Range(ord)

LEMMA SearchOrders ==
  ASSUME NEW G, IsCfg(G), NEW d, SearchInv(G, d), d.stack = << >>
  PROVE  Ordered(G, Reverse(d.post))
<1> DEFINE m == Len(d.post)
           ord == Reverse(d.post)
<1>1. SearchType(G, d) /\ SearchOnce(G, d) /\ SearchTree(G, d) /\ SearchSeen(G, d)
  BY DEF SearchInv
<1>2. m \in Nat \ {0} /\ d.post \in Seq(Blocks(G)) /\ DOMAIN d.post = 1 .. m /\ d.post[m] = 1
  BY <1>1 DEF SearchType, SearchTree
<1>3. ord = [i \in 1 .. m |-> d.post[(m - i) + 1]]  BY DEF Reverse
<1> HIDE DEF ord, m
<1>4. \A i \in 1 .. m : (m - i) + 1 \in 1 .. m /\ (m - ((m - i) + 1)) + 1 = i  BY <1>2
<1>5. /\ ord \in Seq(Blocks(G)) /\ Len(ord) = m /\ DOMAIN ord = 1 .. m
      /\ \A i \in 1 .. m : ord[i] = d.post[(m - i) + 1]
  <2>1. \A i \in 1 .. m : d.post[(m - i) + 1] \in Blocks(G)  BY <1>2, <1>4
  <2> QED  BY <1>2, <1>3, <2>1
<1>6. DOMAIN d.stack = {}  BY <1>1 DEF SearchType
<1>7. ord # << >> /\ ord[1] = 1
  <2>1. 1 \in 1 .. m /\ (m - 1) + 1 = m  BY <1>2
  <2> QED  BY <2>1, <1>2, <1>5
<1>8. ASSUME NEW i \in 2 .. m PROVE \E p \in 1 .. i - 1 : ord[i] \in Range(G[ord[p]])
  <2> DEFINE j == (m - i) + 1
  <2>1. j \in 1 .. m /\ j # m /\ i \in 1 .. m  BY <1>2
  <2>2. \E l \in j + 1 .. m : d.post[j] \in Range(G[d.post[l]])
    BY <2>1, <1>1, <1>2, <1>6 DEF SearchTree, m
  <2>3. PICK l \in j + 1 .. m : d.post[j] \in Range(G[d.post[l]])  BY <2>2
  <2> DEFINE p == (m - l) + 1
  <2>4. p \in 1 .. i - 1 /\ p \in 1 .. m /\ (m - p) + 1 = l  BY <1>2, <2>1
  <2>5. ord[p] = d.post[l] /\ ord[i] = d.post[j]  BY <1>5, <2>1, <2>4
  <2> HIDE DEF p, j
  <2> QED  BY <2>3, <2>4, <2>5
<1>9. \A i, j \in 1 .. m : ord[i] = ord[j] => i = j
  <2> SUFFICES ASSUME NEW i \in 1 .. m, NEW j \in 1 .. m, i # j PROVE ord[i] # ord[j]  OBVIOUS
  <2> DEFINE k == (m - i) + 1
             l == (m - j) + 1
  <2>1. k \in 1 .. m /\ l \in 1 .. m /\ k # l  BY <1>2
  <2>2. ord[i] = d.post[k] /\ ord[j] = d.post[l]  BY <1>5
  <2> HIDE DEF k, l
  <2> QED  BY <2>1, <2>2, <1>1, <1>2 DEF SearchOnce
<1>10. ASSUME NEW i \in 1 .. m PROVE Range(G[ord[i]]) \subseteq Range(ord)
  <2>1. Range(G[ord[i]]) \subseteq d.visited  BY <1>1, <1>2, <1>4, <1>5 DEF SearchSeen
  <2>2. ASSUME NEW b \in d.visited PROVE b \in Range(ord)
    <3>1. PICK j \in 1 .. m : d.post[j] = b  BY <1>1, <1>2, <1>6 DEF SearchOnce
    <3>2. ord[(m - j) + 1] = b /\ (m - j) + 1 \in DOMAIN ord  BY <3>1, <1>4, <1>5
    <3> QED  BY <3>2 DEF Range
  <2> QED  BY <2>1, <2>2
<1> QED  BY <1>5, <1>7, <1>8, <1>9, <1>10 DEF Ordered, ord

------------------------------------------------------------------------------
(* movedf: what a block does to the moved keys.                              *)

MovedKeys == {"x", "x.f"}

LEMMA ApplyType ==
  ASSUME NEW s \in SUBSET Keys, NEW e \in Kinds
  PROVE  ApplyEvent(s, e) \in SUBSET Keys
BY DEF ApplyEvent, Keys, Kinds, Uses

IsReplay(R, evs, s) ==
  R[0] = s /\ \A k \in 1 .. Len(evs) : R[k] = ApplyEvent(R[k - 1], evs[k])

LEMMA ReplaySteps ==
  ASSUME NEW evs \in Seq(Kinds), NEW s \in SUBSET Keys
  PROVE  /\ Replay(evs, 0, s) = s
         /\ \A k \in 0 .. Len(evs) : Replay(evs, k, s) \in SUBSET Keys
         /\ \A k \in 1 .. Len(evs) : Replay(evs, k, s) = ApplyEvent(Replay(evs, k - 1, s), evs[k])
<1> DEFINE n == Len(evs)
           X == SUBSET Keys
           F == [k \in 1 .. n |-> [r \in X |-> ApplyEvent(r, evs[k])]]
           Body(R) == [k \in 0 .. n |-> IF k = 0 THEN s ELSE ApplyEvent(R[k - 1], evs[k])]
<1>1. n \in Nat /\ \A k \in 1 .. n : evs[k] \in Kinds  OBVIOUS
<1>2. F \in [1 .. n -> [X -> X]]
  <2>1. ASSUME NEW k \in 1 .. n, NEW r \in X PROVE ApplyEvent(r, evs[k]) \in X
    BY <1>1, ApplyType
  <2> QED  BY <2>1
<1>3. PICK R \in [0 .. n -> X] : Solves(R, n, s, F)
  <2>1. s \in X  OBVIOUS
  <2> HIDE DEF X, F, n
  <2> QED  BY <1>1, <1>2, <2>1, Recursion
<1>4. ASSUME NEW k \in 1 .. n PROVE R[k] = ApplyEvent(R[k - 1], evs[k])
  <2>1. k - 1 \in 0 .. n  BY <1>1
  <2>2. R[k - 1] \in X  BY <2>1, <1>3
  <2>3. F[k][R[k - 1]] = ApplyEvent(R[k - 1], evs[k])  BY <2>2
  <2> QED  BY <2>3, <1>3 DEF Solves
<1>5. R = Body(R)
  <2>1. ASSUME NEW k \in 0 .. n PROVE R[k] = Body(R)[k]
    BY <1>1, <1>3, <1>4, k = 0 \/ k \in 1 .. n DEF Solves
  <2> HIDE DEF X
  <2> QED  BY <2>1
<1> DEFINE Q == CHOOSE R_1 : R_1 = Body(R_1)
<1>6. Q = Body(Q)  BY <1>5
<1>7. \A k : Replay(evs, k, s) = Q[k]  BY DEF Replay
<1> HIDE DEF Q
<1>8. Q[0] = s  BY <1>1, <1>6
<1>9. ASSUME NEW k \in 1 .. n PROVE Q[k] = ApplyEvent(Q[k - 1], evs[k])
  <2>1. Q[k] = Body(Q)[k]  BY <1>6
  <2>2. k \in 0 .. n /\ k # 0  BY <1>1
  <2>3. Body(Q)[k] = ApplyEvent(Q[k - 1], evs[k])  BY <2>2
  <2> QED  BY <2>1, <2>3
<1> HIDE DEF n, Body, F
<1>10. 0 .. n \subseteq {k \in 0 .. n : Q[k] \in SUBSET Keys}
  <2> DEFINE A == {k \in 0 .. n : Q[k] \in SUBSET Keys}
  <2>1. 0 \in A  BY <1>1, <1>8
  <2>2. ASSUME NEW k \in 0 .. n - 1, k \in A PROVE k + 1 \in A
    <3>1. k + 1 \in 1 .. n /\ (k + 1) - 1 = k  BY <1>1
    <3>2. Q[k + 1] = ApplyEvent(Q[k], evs[k + 1])  BY <3>1, <1>9
    <3>3. ApplyEvent(Q[k], evs[k + 1]) \in SUBSET Keys  BY <2>2, <3>1, <1>1, ApplyType
    <3> QED  BY <3>1, <3>2, <3>3
  <2> HIDE DEF A
  <2>3. 0 .. n \subseteq A  BY <1>1, <2>1, <2>2, UpTo
  <2> QED  BY <2>3 DEF A
<1> QED  BY <1>7, <1>8, <1>9, <1>10 DEF n

\* Whatever reaches the first k events, they move the key q, or revive it, or
\* leave it as it is.
Fate(evs, k, q) ==
  \/ \A s \in SUBSET Keys : q \in Replay(evs, k, s)
  \/ \A s \in SUBSET Keys : q \notin Replay(evs, k, s)
  \/ \A s \in SUBSET Keys : q \in Replay(evs, k, s) <=> q \in s

LEMMA Fates ==
  ASSUME NEW evs \in Seq(Kinds), NEW k \in 0 .. Len(evs), NEW q \in MovedKeys
  PROVE  Fate(evs, k, q)
<1> DEFINE n == Len(evs)
           A == {j \in 0 .. n : Fate(evs, j, q)}
<1>1. n \in Nat /\ \A j \in 1 .. n : evs[j] \in Kinds  OBVIOUS
<1>2. 0 \in A
  <2>1. \A s \in SUBSET Keys : q \in Replay(evs, 0, s) <=> q \in s  BY ReplaySteps
  <2> QED  BY <1>1, <2>1 DEF Fate
<1>3. ASSUME NEW j \in 0 .. n - 1, j \in A PROVE j + 1 \in A
  <2> DEFINE e == evs[j + 1]
  <2>1. j + 1 \in 1 .. n /\ (j + 1) - 1 = j /\ e \in Kinds  BY <1>1
  <2>2. \A s \in SUBSET Keys : /\ Replay(evs, j, s) \in SUBSET Keys
                              /\ Replay(evs, j + 1, s) = ApplyEvent(Replay(evs, j, s), e)
    <3> TAKE s \in SUBSET Keys
    <3> HIDE DEF e
    <3>1. \A i \in 1 .. n : Replay(evs, i, s) = ApplyEvent(Replay(evs, i - 1, s), evs[i])
      BY ReplaySteps
    <3>0. j \in 0 .. Len(evs)  BY <1>1
    <3>2. Replay(evs, j, s) \in SUBSET Keys  BY <3>0, ReplaySteps
    <3> QED  BY <2>1, <3>1, <3>2 DEF e
  <2>3. \/ \A r \in SUBSET Keys : q \in ApplyEvent(r, e)
        \/ \A r \in SUBSET Keys : q \notin ApplyEvent(r, e)
        \/ \A r \in SUBSET Keys : q \in ApplyEvent(r, e) <=> q \in r
    <3> HIDE DEF e
    <3>1. CASE e = "KillWhole"  BY <3>1 DEF ApplyEvent, MovedKeys
    <3>2. CASE e = "KillField"  BY <3>2 DEF ApplyEvent, MovedKeys
    <3>3. CASE e = "GenReviveWhole"  BY <3>3 DEF ApplyEvent, MovedKeys
    <3>4. CASE e = "GenReviveField"  BY <3>4 DEF ApplyEvent, MovedKeys
    <3>5. CASE e = "GenBind"  BY <3>5 DEF ApplyEvent, MovedKeys
    <3>6. CASE e \in Uses  BY <3>6 DEF ApplyEvent, MovedKeys, Uses
    <3> QED  BY <2>1, <3>1, <3>2, <3>3, <3>4, <3>5, <3>6 DEF Kinds, Uses
  <2> HIDE DEF e
  <2>4. Fate(evs, j, q)  BY <1>3
  <2>5. Fate(evs, j + 1, q)  BY <2>2, <2>3, <2>4 DEF Fate
  <2>6. j + 1 \in 0 .. n  BY <2>1, <1>1
  <2> QED  BY <2>5, <2>6
<1> HIDE DEF A
<1>4. 0 .. n \subseteq A  BY <1>1, <1>2, <1>3, UpTo
<1> QED  BY <1>4 DEF A

\* A use is of a moved value for one of the moved keys.
LEMMA PathKeys ==
  ASSUME NEW s \in SUBSET Keys, NEW use
  PROVE  IsPathMoved(s, use) <=> \E q \in MovedKeys : q \in s /\ (q = "x.f" => use = "UseField")
BY DEF IsPathMoved, MovedKeys

LEMMA MergedKeys ==
  ASSUME NEW inputs \in SUBSET (SUBSET Keys)
  PROVE  /\ MergeMovedSets(inputs) \in SUBSET Keys
         /\ \A q \in MovedKeys : q \in MergeMovedSets(inputs) <=> \E s \in inputs : q \in s
BY DEF MergeMovedSets, MovedKeys

------------------------------------------------------------------------------
(* movedf: solutions and walks.                                              *)

PredsOf(i, E) == {e[1] : e \in {x \in E : x[2] = i}}
InOf(sol, i, E) == MergeMovedSets({sol[p] : p \in PredsOf(i, E)})

\* Forward edges and some others between the places of an order, none to the entry.
EdgeSet(E) ==
  /\ E \subseteq (1 .. N) \X (1 .. N)
  /\ \A e \in E : e[2] # 1
  /\ ForwardEdges \subseteq E

EventsType == \A i \in 1 .. N : EventsOf(i) \in Seq(Kinds)

LEMMA EdgeSets ==
  ASSUME IsCfg(g), Ordered(g, order)
  PROVE  EdgeSet(Edges) /\ EdgeSet(ForwardEdges)
<1>1. Edges \subseteq (1 .. N) \X (1 .. N)  BY DEF Edges, N
<1>2. ASSUME NEW e \in Edges PROVE e[2] # 1
  <2>1. order[e[1]] \in Blocks(g) /\ order[1] = 1  BY <1>1 DEF Ordered, N
  <2>2. order[e[2]] \in Range(g[order[e[1]]])  BY DEF Edges
  <2> QED  BY <2>1, <2>2, CfgType
<1> QED  BY <1>1, <1>2 DEF EdgeSet, ForwardEdges

\* Walks are closed under a step along an edge, and what contains the start and
\* is closed under the steps contains them.
LEMMA WalkClosed ==
  ASSUME Ordered(g, order), EventsType, NEW E, EdgeSet(E)
  PROVE  /\ IsFiniteSet(WalkSteps(E))
         /\ <<1, {}>> \in Walks(E)
         /\ Walks(E) \subseteq (1 .. N) \X SUBSET MovedKeys
         /\ \A e \in E, s \in SUBSET MovedKeys : <<e[1], s>> \in Walks(E) =>
              <<e[2], Moved(Transfer(EventsOf(e[1]), s))>> \in Walks(E)
<1> DEFINE C == (1 .. N) \X SUBSET MovedKeys
<1>1. N \in Nat /\ 1 \in 1 .. N  BY DEF Ordered, N
<1>2. ASSUME NEW e \in E, NEW s \in SUBSET MovedKeys
      PROVE  Moved(Transfer(EventsOf(e[1]), s)) \in SUBSET MovedKeys
  <2>1. e[1] \in 1 .. N  BY DEF EdgeSet
  <2>2. EventsOf(e[1]) \in Seq(Kinds)  BY <2>1 DEF EventsType
  <2>3. s \in SUBSET Keys  BY DEF MovedKeys, Keys
  <2>4. Transfer(EventsOf(e[1]), s) \in SUBSET Keys
    <3>1. Len(EventsOf(e[1])) \in 0 .. Len(EventsOf(e[1]))  BY <2>2
    <3> QED  BY <2>2, <2>3, <3>1, ReplaySteps DEF Transfer
  <2> QED  BY <2>4 DEF Moved, Keys, MovedKeys
<1>3. \A e \in E : e[1] \in 1 .. N /\ e[2] \in 1 .. N  BY DEF EdgeSet
<1>4. WalkSteps(E) \subseteq C \X C
  <2> SUFFICES ASSUME NEW e \in E, NEW s \in SUBSET MovedKeys
               PROVE  <<<<e[1], s>>, <<e[2], Moved(Transfer(EventsOf(e[1]), s))>>>> \in C \X C
    <3> HIDE DEF C
    <3> QED  BY DEF WalkSteps, MovedKeys
  <2> DEFINE t == Moved(Transfer(EventsOf(e[1]), s))
  <2>1. t \in SUBSET MovedKeys  BY <1>2
  <2> HIDE DEF t
  <2>2. <<e[1], s>> \in C /\ <<e[2], t>> \in C  BY <1>3, <2>1
  <2> HIDE DEF C
  <2> QED  BY <2>2 DEF t
<1>5. IsFiniteSet(WalkSteps(E))
  <2>1. IsFiniteSet(1 .. N)  BY <1>1, FS_Interval
  <2>2. IsFiniteSet(MovedKeys)
    <3>1. MovedKeys = ({} \cup {"x"}) \cup {"x.f"}  BY DEF MovedKeys
    <3> QED  BY <3>1, FS_EmptySet, FS_AddElement
  <2>3. IsFiniteSet(SUBSET MovedKeys)  BY <2>2, FS_SUBSET
  <2>4. IsFiniteSet(C)  BY <2>1, <2>3, FS_Product
  <2> HIDE DEF C
  <2>5. IsFiniteSet(C \X C)  BY <2>4, FS_Product
  <2> QED  BY <1>4, <2>5, FS_Subset
<1>6. {<<1, {}>>} \subseteq Walks(E) /\ Closed(Walks(E), WalkSteps(E))
  BY <1>5, ReachClosed DEF Walks
<1>7. Walks(E) \subseteq C
  <2>1. {<<1, {}>>} \subseteq C  BY <1>1
  <2>2. Closed(C, WalkSteps(E))  BY <1>4 DEF Closed
  <2> HIDE DEF C
  <2> QED  BY <1>5, <2>1, <2>2, ReachLeast DEF Walks
<1>8. ASSUME NEW e \in E, NEW s \in SUBSET MovedKeys, <<e[1], s>> \in Walks(E)
      PROVE  <<e[2], Moved(Transfer(EventsOf(e[1]), s))>> \in Walks(E)
  <2> DEFINE t == Moved(Transfer(EventsOf(e[1]), s))
             w == <<<<e[1], s>>, <<e[2], t>>>>
  <2>1. w \in WalkSteps(E)  BY DEF WalkSteps, MovedKeys
  <2>2. w[1] \in Walks(E) => w[2] \in Walks(E)  BY <1>6, <2>1 DEF Closed
  <2>3. w[1] = <<e[1], s>> /\ w[2] = <<e[2], t>>  OBVIOUS
  <2> HIDE DEF w, t
  <2>4. <<e[2], t>> \in Walks(E)  BY <1>8, <2>2, <2>3
  <2> QED  BY <2>4 DEF t
<1> QED  BY <1>5, <1>6, <1>7, <1>8

\* Some walk leads to every place.
LEMMA EveryPlaceWalked ==
  ASSUME Ordered(g, order), EventsType, NEW E, EdgeSet(E), NEW i \in 1 .. N
  PROVE  \E c \in Walks(E) : c[1] = i
<1> DEFINE Bad == {j \in 1 .. N : ~ \E c \in Walks(E) : c[1] = j}
<1> SUFFICES ASSUME Bad # {} PROVE FALSE  OBVIOUS
<1>1. N \in Nat  BY DEF Ordered, N
<1>2. PICK m \in Bad : \A k \in Bad : m <= k
  <2>1. Bad \in SUBSET Nat  BY <1>1
  <2> HIDE DEF Bad
  <2> QED  BY <2>1, LeastNumber
<1>3. m # 1
  <2>1. <<1, {}>> \in Walks(E)  BY WalkClosed
  <2>2. <<1, {}>>[1] = 1  OBVIOUS
  <2> QED  BY <2>1, <2>2
<1>4. m \in 2 .. N  BY <1>1, <1>3
<1>5. PICK p \in 1 .. m - 1 : order[m] \in Range(g[order[p]])  BY <1>4 DEF Ordered, N
<1>6. p \in 1 .. N /\ p < m  BY <1>1, <1>4
<1>7. <<p, m>> \in E
  <2>1. <<p, m>> \in Edges  BY <1>4, <1>5, <1>6 DEF Edges, N
  <2> QED  BY <2>1, <1>6 DEF ForwardEdges, EdgeSet
<1>8. PICK c \in Walks(E) : c[1] = p
  <2>1. p \notin Bad  BY <1>1, <1>2, <1>6
  <2> QED  BY <2>1, <1>6
<1>9. c = <<p, c[2]>> /\ c[2] \in SUBSET MovedKeys  BY <1>8, WalkClosed
<1>10. <<m, Moved(Transfer(EventsOf(p), c[2]))>> \in Walks(E)
  <2>1. <<p, m>>[1] = p /\ <<p, m>>[2] = m  OBVIOUS
  <2> QED  BY <2>1, <1>7, <1>8, <1>9, WalkClosed
<1> QED  BY <1>2, <1>10

\* What is moved in the sets of the solution sol for the places S is moved
\* after some walk.
FromWalks(sol, S, W) ==
  \A i \in S : \A q \in sol[i] \cap MovedKeys :
    \E c \in W : c[1] = i /\ q \in Transfer(EventsOf(i), c[2])

LEMMA InOfType ==
  ASSUME NEW E, NEW i, NEW sol, \A p \in PredsOf(i, E) : sol[p] \in SUBSET Keys
  PROVE  /\ InOf(sol, i, E) \in SUBSET Keys
         /\ \A q \in MovedKeys : q \in InOf(sol, i, E) <=> \E p \in PredsOf(i, E) : q \in sol[p]
<1> DEFINE S == {sol[p] : p \in PredsOf(i, E)}
<1>1. S \in SUBSET (SUBSET Keys)  OBVIOUS
<1>2. \A q : (\E s \in S : q \in s) <=> \E p \in PredsOf(i, E) : q \in sol[p]  OBVIOUS
<1>3. InOf(sol, i, E) = MergeMovedSets(S)  BY DEF InOf
<1> HIDE DEF S
<1> QED  BY <1>1, <1>2, <1>3, MergedKeys

\* So is what comes in from them at a place.
LEMMA IncomingFromWalks ==
  ASSUME Ordered(g, order), EventsType, NEW E, EdgeSet(E), NEW i \in 1 .. N, NEW sol,
         \A p \in PredsOf(i, E) : sol[p] \in SUBSET Keys,
         FromWalks(sol, PredsOf(i, E), Walks(E)),
         NEW q \in MovedKeys, q \in InOf(sol, i, E)
  PROVE  \E c \in Walks(E) : c[1] = i /\ q \in c[2]
<1>1. PICK p \in PredsOf(i, E) : q \in sol[p]  BY InOfType
<1>2. PICK c \in Walks(E) : c[1] = p /\ q \in Transfer(EventsOf(p), c[2])
  BY <1>1 DEF FromWalks
<1>3. PICK e \in E : e[1] = p /\ e[2] = i  BY <1>1 DEF PredsOf
<1>4. c = <<p, c[2]>> /\ c[2] \in SUBSET MovedKeys  BY <1>2, WalkClosed
<1> DEFINE t == Moved(Transfer(EventsOf(p), c[2]))
<1>5. <<i, t>> \in Walks(E)  BY <1>2, <1>3, <1>4, WalkClosed
<1>6. q \in t  BY <1>2 DEF Moved, MovedKeys
<1>7. <<i, t>>[1] = i /\ <<i, t>>[2] = t  OBVIOUS
<1> HIDE DEF t
<1> QED  BY <1>5, <1>6, <1>7

\* And so is what the first k events of the place make of it.
LEMMA ReplayFromWalks ==
  ASSUME Ordered(g, order), EventsType, NEW E, EdgeSet(E), NEW i \in 1 .. N, NEW sol,
         \A p \in PredsOf(i, E) : sol[p] \in SUBSET Keys,
         FromWalks(sol, PredsOf(i, E), Walks(E)),
         NEW k \in 0 .. Len(EventsOf(i)),
         NEW q \in MovedKeys, q \in Replay(EventsOf(i), k, InOf(sol, i, E))
  PROVE  \E c \in Walks(E) : c[1] = i /\ q \in Replay(EventsOf(i), k, c[2])
<1> DEFINE evs == EventsOf(i)
<1>1. evs \in Seq(Kinds)  BY DEF EventsType
<1>2. InOf(sol, i, E) \in SUBSET Keys  BY InOfType
<1>3. \A c \in Walks(E) : c[2] \in SUBSET Keys  BY WalkClosed DEF MovedKeys, Keys
<1>4. Fate(evs, k, q)  BY <1>1, Fates
<1>5. CASE \A s \in SUBSET Keys : q \in Replay(evs, k, s)
  BY <1>3, <1>5, EveryPlaceWalked
<1>6. CASE \A s \in SUBSET Keys : q \in Replay(evs, k, s) <=> q \in s
  <2>1. q \in InOf(sol, i, E)  BY <1>2, <1>6
  <2>2. PICK c \in Walks(E) : c[1] = i /\ q \in c[2]  BY <2>1, IncomingFromWalks
  <2> QED  BY <1>3, <1>6, <2>2
<1> QED  BY <1>2, <1>4, <1>5, <1>6 DEF Fate

\* What any walk brings along is in a solution of the equations.
LEMMA WalksInside ==
  ASSUME Ordered(g, order), EventsType, NEW E, EdgeSet(E), NEW sol,
         \A i \in 1 .. N : sol[i] \in SUBSET Keys,
         \A i \in 1 .. N : sol[i] = Transfer(EventsOf(i), InOf(sol, i, E)),
         NEW c \in Walks(E)
  PROVE  c[1] \in 1 .. N /\ c[2] \subseteq InOf(sol, c[1], E)
<1> DEFINE C == {d \in (1 .. N) \X SUBSET MovedKeys : d[2] \subseteq InOf(sol, d[1], E)}
<1>1. \A i : \A p \in PredsOf(i, E) : p \in 1 .. N  BY DEF PredsOf, EdgeSet
<1>2. \A i \in 1 .. N : \A p \in PredsOf(i, E) : sol[p] \in SUBSET Keys  BY <1>1
<1>3. {<<1, {}>>} \subseteq C
  <2>1. 1 \in 1 .. N  BY DEF Ordered, N
  <2>2. <<1, {}>> \in (1 .. N) \X SUBSET MovedKeys /\ <<1, {}>>[2] = {}  BY <2>1
  <2> QED  BY <2>2
<1>4. Closed(C, WalkSteps(E))
  <2> SUFFICES ASSUME NEW e \in E, NEW s \in SUBSET MovedKeys, <<e[1], s>> \in C
               PROVE  <<e[2], Moved(Transfer(EventsOf(e[1]), s))>> \in C
    <3> HIDE DEF C
    <3> QED  BY DEF Closed, WalkSteps, MovedKeys
  <2> DEFINE p == e[1]
             i == e[2]
             evs == EventsOf(p)
             n == Len(evs)
             t == Moved(Transfer(evs, s))
  <2>1. p \in 1 .. N /\ i \in 1 .. N /\ p \in PredsOf(i, E)  BY DEF EdgeSet, PredsOf
  <2>2. evs \in Seq(Kinds) /\ n \in 0 .. n  BY <2>1 DEF EventsType
  <2>3. s \in SUBSET Keys /\ InOf(sol, p, E) \in SUBSET Keys
    BY <2>1, <1>2, InOfType DEF MovedKeys, Keys
  <2>4. s \subseteq InOf(sol, p, E)
    <3>1. <<p, s>>[1] = p /\ <<p, s>>[2] = s  OBVIOUS
    <3> QED  BY <3>1
  <2>5. t \in SUBSET MovedKeys
    <3>1. Transfer(evs, s) \in SUBSET Keys  BY <2>2, <2>3, ReplaySteps DEF Transfer
    <3> QED  BY <3>1 DEF Moved, Keys, MovedKeys
  <2>6. ASSUME NEW q \in t PROVE q \in InOf(sol, i, E)
    <3>1. q \in MovedKeys /\ q \in Replay(evs, n, s)  BY <2>5 DEF Moved, Transfer
    <3>2. Fate(evs, n, q)  BY <2>2, <3>1, Fates
    <3>3. q \in Replay(evs, n, InOf(sol, p, E))  BY <2>3, <2>4, <3>1, <3>2 DEF Fate
    <3>4. q \in sol[p]  BY <2>1, <3>3 DEF Transfer
    <3> HIDE DEF p, i
    <3> QED  BY <2>1, <3>1, <3>4, <1>2, InOfType
  <2> HIDE DEF t
  <2>7. <<i, t>> \in (1 .. N) \X SUBSET MovedKeys /\ <<i, t>>[1] = i /\ <<i, t>>[2] = t
    BY <2>1, <2>5
  <2>8. <<i, t>> \in C  BY <2>6, <2>7
  <2> QED  BY <2>8 DEF t
<1> HIDE DEF C
<1>5. Walks(E) \subseteq C
  BY <1>3, <1>4, WalkClosed, ReachLeast DEF Walks
<1> QED  BY <1>5 DEF C

(***************************************************************************)
(* A use is of a moved value by the solution that walks account for just   *)
(* if it is so after some walk.                                            *)
(***************************************************************************)
LEMMA SolutionExact ==
  ASSUME Ordered(g, order), EventsType, NEW E, EdgeSet(E), NEW sol,
         \A i \in 1 .. N : sol[i] \in SUBSET Keys,
         \A i \in 1 .. N : sol[i] = Transfer(EventsOf(i), InOf(sol, i, E)),
         FromWalks(sol, 1 .. N, Walks(E)), NEW u \in Positions
  PROVE  MovedAt(u, InOf(sol, u[1], E)) <=> MovedAfterWalk(Walks(E), u)
<1> DEFINE i == u[1]
           evs == EventsOf(i)
           k == u[2] - 1
           use == evs[u[2]]
           in == InOf(sol, i, E)
<1>1. i \in 1 .. N /\ k \in 0 .. Len(evs)  BY DEF Positions
<1>2. evs \in Seq(Kinds)  BY <1>1 DEF EventsType
<1>3. \A p \in PredsOf(i, E) : p \in 1 .. N /\ sol[p] \in SUBSET Keys  BY DEF PredsOf, EdgeSet
<1>4. FromWalks(sol, PredsOf(i, E), Walks(E))  BY <1>3 DEF FromWalks
<1>5. in \in SUBSET Keys  BY <1>3, InOfType
<1>6. \A c \in Walks(E) : c[2] \in SUBSET Keys  BY WalkClosed DEF MovedKeys, Keys
<1>7. \A s \in SUBSET Keys : Replay(evs, k, s) \in SUBSET Keys  BY <1>1, <1>2, ReplaySteps
<1> HIDE DEF i, k
<1>8. ASSUME IsPathMoved(Replay(evs, k, in), use)
      PROVE  \E c \in Walks(E) : c[1] = i /\ IsPathMoved(Replay(evs, k, c[2]), use)
  <2>1. PICK q \in MovedKeys : q \in Replay(evs, k, in) /\ (q = "x.f" => use = "UseField")
    BY <1>5, <1>7, <1>8, PathKeys
  <2>2. PICK c \in Walks(E) : c[1] = i /\ q \in Replay(evs, k, c[2])
    BY <1>1, <1>3, <1>4, <2>1, ReplayFromWalks
  <2> QED  BY <1>6, <1>7, <2>1, <2>2, PathKeys
<1>9. ASSUME NEW c \in Walks(E), c[1] = i, IsPathMoved(Replay(evs, k, c[2]), use)
      PROVE  IsPathMoved(Replay(evs, k, in), use)
  <2>1. PICK q \in MovedKeys : q \in Replay(evs, k, c[2]) /\ (q = "x.f" => use = "UseField")
    BY <1>6, <1>7, <1>9, PathKeys
  <2>2. c[2] \subseteq in  BY <1>9, WalksInside
  <2>3. Fate(evs, k, q)  BY <1>1, <1>2, Fates
  <2>4. q \in Replay(evs, k, in)  BY <1>5, <1>6, <2>1, <2>2, <2>3 DEF Fate
  <2> QED  BY <1>5, <1>7, <2>1, <2>4, PathKeys
<1> QED  BY <1>8, <1>9 DEF MovedAt, MovedAfterWalk, i, k

------------------------------------------------------------------------------
(* movedf: the state.                                                        *)

AllWalks == Walks(Edges)
ForwardWalks == Walks(ForwardEdges)

\* A block that is not dirty agrees with its predecessors.  Unless the sweep is
\* to be repeated, the dirty blocks are still ahead of it.
SweepInv ==
  /\ out \in [1 .. N -> SUBSET Keys]
  /\ dirty \subseteq 1 .. N
  /\ at \in 1 .. N + 1
  /\ FromWalks(out, 1 .. N, AllWalks)
  /\ \A i \in (1 .. N) \ dirty : out[i] = Result(i)
  /\ ~ again => \A i \in dirty : at <= i

Solved ==
  /\ out \in [1 .. N -> SUBSET Keys]
  /\ FromWalks(out, 1 .. N, AllWalks)
  /\ \A i \in 1 .. N : out[i] = Result(i)

\* The blocks already visited have their final sets.
AcyclicInv ==
  /\ acyclic \in [1 .. N -> SUBSET Keys]
  /\ at \in 1 .. N + 1
  /\ FromWalks(acyclic, 1 .. at - 1, ForwardWalks)
  /\ \A i \in 1 .. at - 1 : acyclic[i] = Transfer(EventsOf(i), AcyclicIncoming(i))

RightUses == {u \in Positions : MovedAfterWalk(AllWalks, u) /\ ~ MovedAfterWalk(ForwardWalks, u)}

GraphInv ==
  /\ g \in Graphs
  /\ phase \in {"search", "log", "sweep", "acyclic", "done"}
  /\ phase = "search" => SearchInv(g, search)
  /\ phase # "search" => Ordered(g, order) /\ events \in [Blocks(g) -> Seq(Kinds)]

MoveInv ==
  /\ GraphInv
  /\ phase = "sweep" => SweepInv
  /\ phase = "acyclic" => Solved /\ AcyclicInv
  /\ phase = "done" => reports = RightUses

LEMMA LogType ==
  ASSUME GraphInv, phase # "search"
  PROVE  /\ IsCfg(g) /\ Ordered(g, order) /\ EventsType
         /\ N \in Nat \ {0}
<1>1. IsCfg(g)  BY GraphsAssumption DEF GraphInv
<1>2. Ordered(g, order) /\ events \in [Blocks(g) -> Seq(Kinds)]  BY DEF GraphInv
<1>3. N \in Nat \ {0} /\ \A i \in 1 .. N : order[i] \in Blocks(g)  BY <1>2 DEF Ordered, N
<1>4. EventsType  BY <1>2, <1>3 DEF EventsType, EventsOf
<1> QED  BY <1>1, <1>2, <1>3, <1>4

\* The sets that come in at a block in the terms of the lemmas above.
LEMMA IncomingIs ==
  ASSUME IsCfg(g), Ordered(g, order)
  PROVE  /\ \A i \in 1 .. N : Incoming(i) = InOf(out, i, Edges)
         /\ \A i \in 1 .. N : AcyclicIncoming(i) = InOf(acyclic, i, ForwardEdges)
         /\ \A i \in 1 .. N : Preds(i) = PredsOf(i, Edges) /\ Preds(i) \subseteq 1 .. N
         /\ \A i \in 1 .. N : AcyclicPreds(i) = PredsOf(i, ForwardEdges)
         /\ \A i, j \in 1 .. N : i \in Preds(j) <=> j \in Succs(i)
         /\ \A i \in 1 .. N : Succs(i) \subseteq 1 .. N
<1>1. EdgeSet(Edges)  BY EdgeSets
<1>2. \A i : Preds(i) = PredsOf(i, Edges)  BY DEF Preds, PredsOf
<1>3. \A e \in Edges : e[1] \in 1 .. N /\ e[2] \in 1 .. N /\ e[2] # 1
  BY <1>1 DEF EdgeSet
<1>4. Preds(1) = {}  BY <1>3 DEF Preds
<1>5. \A i : Incoming(i) = InOf(out, i, Edges)
  BY <1>2, <1>4 DEF Incoming, InOf
<1>6. ASSUME NEW i PROVE AcyclicPreds(i) = PredsOf(i, ForwardEdges)
  BY DEF AcyclicPreds, PredsOf, Preds, ForwardEdges
<1>7. \A i : AcyclicIncoming(i) = InOf(acyclic, i, ForwardEdges)
  BY <1>6 DEF AcyclicIncoming, InOf
<1>8. \A i : Preds(i) \subseteq 1 .. N /\ Succs(i) \subseteq 1 .. N  BY <1>3 DEF Preds, Succs
<1>9. ASSUME NEW i, NEW j PROVE i \in Preds(j) <=> j \in Succs(i)
  BY DEF Preds, Succs
<1> QED  BY <1>2, <1>5, <1>6, <1>7, <1>8, <1>9

LEMMA SameGraph ==
  ASSUME UNCHANGED <<g, order, events>>
  PROVE  /\ N' = N /\ AllWalks' = AllWalks /\ ForwardWalks' = ForwardWalks
         /\ Edges' = Edges /\ ForwardEdges' = ForwardEdges
         /\ \A i : EventsOf(i)' = EventsOf(i) /\ Preds(i)' = Preds(i) /\ AcyclicPreds(i)' = AcyclicPreds(i)
         /\ RightUses' = RightUses
<1>1. N' = N  BY DEF N
<1>2. \A i : EventsOf(i)' = EventsOf(i)  BY DEF EventsOf
<1>3. Edges' = Edges  BY DEF Edges, N
<1>4. ForwardEdges' = ForwardEdges  BY <1>3 DEF ForwardEdges
<1>5. \A i : Preds(i)' = Preds(i) /\ AcyclicPreds(i)' = AcyclicPreds(i)
  BY <1>3 DEF Preds, AcyclicPreds
<1>6. AllWalks' = AllWalks  BY DEF AllWalks, Walks, WalkSteps, EventsOf, Edges, N
<1>7. ForwardWalks' = ForwardWalks
  BY DEF ForwardWalks, Walks, WalkSteps, EventsOf, ForwardEdges, Edges, N
<1>8. Positions' = Positions  BY <1>1, <1>2 DEF Positions
<1>9. \A u, W : MovedAfterWalk(W, u)' = MovedAfterWalk(W, u)
  BY DEF MovedAfterWalk, MovedAt, EventsOf
<1>10. RightUses' = RightUses
  BY <1>6, <1>7, <1>8, <1>9 DEF RightUses
<1> QED  BY <1>1, <1>2, <1>3, <1>4, <1>5, <1>6, <1>7, <1>10

\* What a block gives its successors is moved after some walk if what its
\* predecessors give it is.
LEMMA TransferFromWalks ==
  ASSUME Ordered(g, order), EventsType, NEW E, EdgeSet(E), NEW i \in 1 .. N, NEW sol,
         \A p \in PredsOf(i, E) : sol[p] \in SUBSET Keys,
         FromWalks(sol, PredsOf(i, E), Walks(E))
  PROVE  /\ Transfer(EventsOf(i), InOf(sol, i, E)) \in SUBSET Keys
         /\ \A q \in MovedKeys : q \in Transfer(EventsOf(i), InOf(sol, i, E)) =>
              \E c \in Walks(E) : c[1] = i /\ q \in Transfer(EventsOf(i), c[2])
<1>1. EventsOf(i) \in Seq(Kinds) /\ Len(EventsOf(i)) \in 0 .. Len(EventsOf(i))
  BY DEF EventsType
<1>2. InOf(sol, i, E) \in SUBSET Keys  BY InOfType
<1>3. Transfer(EventsOf(i), InOf(sol, i, E)) \in SUBSET Keys
  BY <1>1, <1>2, ReplaySteps DEF Transfer
<1>4. ASSUME NEW q \in MovedKeys, q \in Transfer(EventsOf(i), InOf(sol, i, E))
      PROVE  \E c \in Walks(E) : c[1] = i /\ q \in Transfer(EventsOf(i), c[2])
  BY <1>1, <1>4, ReplayFromWalks DEF Transfer
<1> QED  BY <1>3, <1>4

\* The result of a block in a sweep.
LEMMA ResultRight ==
  ASSUME GraphInv, phase # "search", SweepInv, NEW i \in 1 .. N
  PROVE  /\ Result(i) \in SUBSET Keys
         /\ \A q \in MovedKeys : q \in Result(i) =>
              \E c \in AllWalks : c[1] = i /\ q \in Transfer(EventsOf(i), c[2])
<1>1. IsCfg(g) /\ Ordered(g, order) /\ EventsType  BY LogType
<1>2. EdgeSet(Edges)  BY <1>1, EdgeSets
<1>3. \A p \in PredsOf(i, Edges) : p \in 1 .. N  BY <1>1, IncomingIs
<1>4. \A p \in PredsOf(i, Edges) : out[p] \in SUBSET Keys  BY <1>3 DEF SweepInv
<1>5. FromWalks(out, PredsOf(i, Edges), Walks(Edges))
  BY <1>3 DEF SweepInv, FromWalks, AllWalks
<1>6. Result(i) = Transfer(EventsOf(i), InOf(out, i, Edges))
  BY <1>1, IncomingIs DEF Result
<1> HIDE DEF SweepInv
<1>7. QED  BY <1>1, <1>2, <1>4, <1>5, <1>6, TransferFromWalks DEF AllWalks

LEMMA VisitKeeps ==
  ASSUME MoveInv, Visit
  PROVE  SweepInv'
<1>1. GraphInv /\ SweepInv /\ phase # "search" /\ UNCHANGED <<g, order, events>>
  BY DEF MoveInv, Visit
<1>2. IsCfg(g) /\ Ordered(g, order) /\ EventsType /\ N \in Nat \ {0}  BY <1>1, LogType
<1>3. N' = N /\ AllWalks' = AllWalks /\ (\A i : EventsOf(i)' = EventsOf(i))
      /\ (\A i : Preds(i)' = Preds(i))
  BY <1>1, SameGraph
<1>4. at \in 1 .. N /\ at' = at + 1  BY <1>1, <1>2 DEF Visit, SweepInv
<1>5. /\ Result(at) \in SUBSET Keys
      /\ \A q \in MovedKeys : q \in Result(at) =>
           \E c \in AllWalks : c[1] = at /\ q \in Transfer(EventsOf(at), c[2])
  BY <1>1, <1>4, ResultRight
<1>6. out \in [1 .. N -> SUBSET Keys] /\ dirty \subseteq 1 .. N  BY <1>1 DEF SweepInv
<1>7. \A i \in 1 .. N : Result(i)' = Transfer(EventsOf(i), Incoming(i)')
  BY <1>3 DEF Result
<1>8. CASE at \in dirty /\ Result(at) # out[at]
  <2>1. /\ out' = [out EXCEPT ![at] = Result(at)]
        /\ dirty' = (dirty \ {at}) \cup Succs(at)
        /\ again' = (again \/ \E s \in Succs(at) : Retreats(at, s))
    BY <1>8 DEF Visit
  <2>2. /\ out' \in [1 .. N -> SUBSET Keys] /\ out'[at] = Result(at)
        /\ \A i \in 1 .. N : i # at => out'[i] = out[i]
    BY <2>1, <1>4, <1>5, <1>6
  <2>3. Succs(at) \subseteq 1 .. N  BY <1>2, <1>4, IncomingIs
  <2>4. dirty' \subseteq 1 .. N  BY <2>1, <2>3, <1>6
  <2>5. FromWalks(out, 1 .. N, AllWalks)  BY <1>1 DEF SweepInv
  <2>6. FromWalks(out', 1 .. N, AllWalks)  BY <2>2, <2>5, <1>5 DEF FromWalks
  <2>7. ASSUME NEW i \in (1 .. N) \ dirty' PROVE out'[i] = Result(i)'
    <3>1. i \notin Succs(at)  BY <2>1
    <3>2. at \notin Preds(i) /\ Preds(i) \subseteq 1 .. N  BY <3>1, <1>2, <1>4, IncomingIs
    <3>3. \A p \in Preds(i) : out'[p] = out[p]  BY <2>2, <3>2
    <3>4. Incoming(i)' = Incoming(i)  BY <3>3, <1>3 DEF Incoming
    <3>5. Result(i)' = Result(i)  BY <3>4, <1>7 DEF Result
    <3>6. CASE i = at  BY <3>5, <3>6, <2>2
    <3>7. CASE i # at
      <4>1. out[i] = Result(i)  BY <2>1, <3>7, <1>1 DEF SweepInv
      <4> QED  BY <4>1, <3>5, <3>7, <2>2
    <3> QED  BY <3>6, <3>7
  <2>8. ASSUME ~ again', NEW i \in dirty' PROVE at' <= i
    <3>1. ~ again /\ \A s \in Succs(at) : ~ s <= at  BY <2>1, <2>8 DEF Retreats
    <3>2. CASE i \in Succs(at)  BY <3>1, <3>2, <2>3, <1>2, <1>4
    <3>3. CASE i \in dirty \ {at}
      <4>1. at <= i  BY <3>1, <3>3, <1>1 DEF SweepInv
      <4> QED  BY <4>1, <3>3, <1>2, <1>4, <1>6
    <3> QED  BY <3>2, <3>3, <2>1
  <2>9. at' \in 1 .. N + 1  BY <1>2, <1>4
  <2>10. FromWalks(out, 1 .. N, AllWalks)'  BY <2>6, <1>3 DEF FromWalks
  <2> QED  BY <2>2, <2>4, <2>7, <2>8, <2>9, <2>10, <1>3 DEF SweepInv
<1>9. CASE ~ (at \in dirty /\ Result(at) # out[at])
  <2>1. dirty' = dirty \ {at} /\ out' = out /\ again' = again  BY <1>9 DEF Visit
  <2>2. ASSUME NEW i \in 1 .. N PROVE Result(i)' = Result(i)
    <3>1. Incoming(i)' = Incoming(i)  BY <2>1, <1>3 DEF Incoming
    <3> QED  BY <3>1, <1>7 DEF Result
  <2>3. out[at] = Result(at)  BY <1>1, <1>4, <1>9 DEF SweepInv
  <2>4. \A i \in (1 .. N) \ dirty' : out'[i] = Result(i)'
    BY <2>1, <2>2, <2>3, <1>1 DEF SweepInv
  <2>5. ASSUME ~ again', NEW i \in dirty' PROVE at' <= i
    <3>1. at <= i /\ i # at /\ i \in 1 .. N  BY <2>1, <2>5, <1>1 DEF SweepInv
    <3> QED  BY <3>1, <1>2, <1>4
  <2>6. at' \in 1 .. N + 1 /\ dirty' \subseteq 1 .. N  BY <2>1, <1>2, <1>4, <1>6
  <2>7. FromWalks(out, 1 .. N, AllWalks)
    BY <1>1 DEF SweepInv
  <2>8. FromWalks(out, 1 .. N, AllWalks)'  BY <2>1, <2>7, <1>3 DEF FromWalks
  <2> QED  BY <2>1, <2>4, <2>5, <2>6, <2>8, <1>3, <1>6 DEF SweepInv
<1> QED  BY <1>8, <1>9

LEMMA VisitAcyclicKeeps ==
  ASSUME MoveInv, VisitAcyclic
  PROVE  AcyclicInv'
<1> DEFINE r == Transfer(EventsOf(at), AcyclicIncoming(at))
<1>1. GraphInv /\ AcyclicInv /\ phase # "search" /\ UNCHANGED <<g, order, events>>
  BY DEF MoveInv, VisitAcyclic
<1>2. IsCfg(g) /\ Ordered(g, order) /\ EventsType /\ N \in Nat \ {0}  BY <1>1, LogType
<1>3. N' = N /\ ForwardWalks' = ForwardWalks /\ (\A i : EventsOf(i)' = EventsOf(i))
      /\ (\A i : AcyclicPreds(i)' = AcyclicPreds(i))
  BY <1>1, SameGraph
<1>4. at \in 1 .. N /\ at' = at + 1  BY <1>1, <1>2 DEF VisitAcyclic, AcyclicInv
<1>5. \A i \in 1 .. N : \A p \in AcyclicPreds(i) : p \in 1 .. N /\ p < i
  BY <1>2, IncomingIs DEF AcyclicPreds
<1>6. acyclic \in [1 .. N -> SUBSET Keys] /\ FromWalks(acyclic, 1 .. at - 1, ForwardWalks)
  BY <1>1 DEF AcyclicInv
<1>7. /\ r \in SUBSET Keys
      /\ \A q \in MovedKeys : q \in r =>
           \E c \in ForwardWalks : c[1] = at /\ q \in Transfer(EventsOf(at), c[2])
  <2>1. EdgeSet(ForwardEdges)  BY <1>2, EdgeSets
  <2>2. AcyclicPreds(at) = PredsOf(at, ForwardEdges)
        /\ AcyclicIncoming(at) = InOf(acyclic, at, ForwardEdges)
    BY <1>2, <1>4, IncomingIs
  <2>3. \A p \in PredsOf(at, ForwardEdges) : p \in 1 .. at - 1 /\ acyclic[p] \in SUBSET Keys
    BY <2>2, <1>2, <1>4, <1>5, <1>6
  <2>4. FromWalks(acyclic, PredsOf(at, ForwardEdges), Walks(ForwardEdges))
    BY <2>3, <1>6 DEF FromWalks, ForwardWalks
  <2> QED  BY <1>2, <1>4, <2>1, <2>2, <2>3, <2>4, TransferFromWalks DEF ForwardWalks
<1>8. acyclic' = [acyclic EXCEPT ![at] = r]  BY DEF VisitAcyclic
<1>9. r = Transfer(EventsOf(at), AcyclicIncoming(at))  OBVIOUS
<1> HIDE DEF r
<1>10. /\ acyclic' \in [1 .. N -> SUBSET Keys] /\ acyclic'[at] = r
       /\ \A i \in 1 .. N : i # at => acyclic'[i] = acyclic[i]
  BY <1>4, <1>6, <1>7, <1>8
<1>11. 1 .. at' - 1 = (1 .. at - 1) \cup {at} /\ 1 .. at - 1 \subseteq 1 .. N /\ at \notin 1 .. at - 1
  BY <1>2, <1>4
<1>12. FromWalks(acyclic', 1 .. at' - 1, ForwardWalks)
  BY <1>4, <1>6, <1>7, <1>10, <1>11 DEF FromWalks
<1>13. FromWalks(acyclic, 1 .. at - 1, ForwardWalks)'  BY <1>3, <1>12 DEF FromWalks
<1>14. ASSUME NEW i \in 1 .. at' - 1
       PROVE  acyclic'[i] = Transfer(EventsOf(i), AcyclicIncoming(i))'
  <2>1. i \in 1 .. N /\ i <= at  BY <1>2, <1>4
  <2>2. \A p \in AcyclicPreds(i) : acyclic'[p] = acyclic[p]
    BY <2>1, <1>4, <1>5, <1>10
  <2>3. AcyclicIncoming(i)' = AcyclicIncoming(i)  BY <2>2, <1>3 DEF AcyclicIncoming
  <2>4. Transfer(EventsOf(i), AcyclicIncoming(i))' = Transfer(EventsOf(i), AcyclicIncoming(i))
    BY <2>3, <1>3
  <2>5. CASE i = at  BY <2>4, <2>5, <1>9, <1>10
  <2>6. CASE i # at
    <3>1. i \in 1 .. at - 1  BY <2>1, <2>6, <1>4
    <3>2. acyclic[i] = Transfer(EventsOf(i), AcyclicIncoming(i))  BY <3>1, <1>1 DEF AcyclicInv
    <3> QED  BY <3>2, <2>1, <2>4, <2>6, <1>10
  <2> QED  BY <2>5, <2>6
<1>15. at' \in 1 .. N + 1  BY <1>2, <1>4
<1> QED  BY <1>3, <1>10, <1>13, <1>14, <1>15 DEF AcyclicInv

LEMMA DiagnoseRight ==
  ASSUME MoveInv, Diagnose
  PROVE  reports' = RightUses
<1>1. GraphInv /\ Solved /\ AcyclicInv /\ phase # "search"  BY DEF MoveInv, Diagnose
<1>2. IsCfg(g) /\ Ordered(g, order) /\ EventsType /\ N \in Nat \ {0}  BY <1>1, LogType
<1>3. EdgeSet(Edges) /\ EdgeSet(ForwardEdges)  BY <1>2, EdgeSets
<1>4. at = N + 1 /\ at - 1 = N  BY <1>1, <1>2 DEF Diagnose, AcyclicInv
<1>5. ASSUME NEW u \in Positions
      PROVE  /\ MovedAt(u, Incoming(u[1])) <=> MovedAfterWalk(AllWalks, u)
             /\ MovedAt(u, AcyclicIncoming(u[1])) <=> MovedAfterWalk(ForwardWalks, u)
  <2>1. u[1] \in 1 .. N  BY DEF Positions
  <2>2. \A i \in 1 .. N : /\ out[i] \in SUBSET Keys
                         /\ out[i] = Transfer(EventsOf(i), InOf(out, i, Edges))
    BY <1>1, <1>2, IncomingIs DEF Solved, Result
  <2>3. MovedAt(u, InOf(out, u[1], Edges)) <=> MovedAfterWalk(AllWalks, u)
    BY <1>1, <1>2, <1>3, <2>2, SolutionExact DEF Solved, AllWalks
  <2>4. \A i \in 1 .. N : /\ acyclic[i] \in SUBSET Keys
                         /\ acyclic[i] = Transfer(EventsOf(i), InOf(acyclic, i, ForwardEdges))
    BY <1>1, <1>2, <1>4, IncomingIs DEF AcyclicInv
  <2>5. MovedAt(u, InOf(acyclic, u[1], ForwardEdges)) <=> MovedAfterWalk(ForwardWalks, u)
    BY <1>1, <1>2, <1>3, <1>4, <2>4, SolutionExact DEF AcyclicInv, ForwardWalks
  <2> QED  BY <1>2, <2>1, <2>3, <2>5, IncomingIs
<1>6. reports' = {u \in Positions :
                    MovedAt(u, Incoming(u[1])) /\ ~ MovedAt(u, AcyclicIncoming(u[1]))}
  BY DEF Diagnose
<1> QED  BY <1>5, <1>6 DEF RightUses

LEMMA MoveInit == Init => MoveInv
<1> SUFFICES ASSUME Init PROVE MoveInv  OBVIOUS
<1>1. IsCfg(g)  BY GraphsAssumption DEF Init
<1>2. SearchInv(g, search)  BY <1>1, SearchStarts DEF Init
<1> QED  BY <1>2 DEF Init, MoveInv, GraphInv

\* The graph keeps its order once it has one, and a log stays a log.
LEMMA GraphKeeps ==
  ASSUME GraphInv, [Next]_vars
  PROVE  GraphInv'
<1>1. IsCfg(g)  BY GraphsAssumption DEF GraphInv
<1>2. CASE Search
  <2>1. SearchInv(g, search')  BY <1>1, <1>2, SearchSteps DEF GraphInv, Search
  <2> QED  BY <2>1, <1>2 DEF GraphInv, Search
<1>3. CASE Number
  <2>1. Ordered(g, order')  BY <1>1, <1>3, SearchOrders DEF GraphInv, Number
  <2>2. events' \in [Blocks(g) -> Seq(Kinds)]  BY <1>3 DEF Number, NoEvents
  <2> QED  BY <2>1, <2>2, <1>3 DEF GraphInv, Number
<1>4. CASE Record
  <2>1. events \in [Blocks(g) -> Seq(Kinds)]  BY <1>4 DEF GraphInv, Record
  <2>2. PICK b \in Blocks(g), kind \in Kinds : events' = [events EXCEPT ![b] = Append(@, kind)]
    BY <2>1, <1>4 DEF Record, MoreEvents
  <2>3. Append(events[b], kind) \in Seq(Kinds)  BY <2>1
  <2>4. events' \in [Blocks(g) -> Seq(Kinds)]  BY <2>1, <2>2, <2>3
  <2> QED  BY <2>4, <1>4 DEF GraphInv, Record
<1>5. CASE BeginSweeps  BY <1>5 DEF GraphInv, BeginSweeps
<1>6. CASE Visit  BY <1>6 DEF GraphInv, Visit
<1>7. CASE NextSweep  BY <1>7 DEF GraphInv, NextSweep
<1>8. CASE EndSweeps  BY <1>8 DEF GraphInv, EndSweeps
<1>9. CASE VisitAcyclic  BY <1>9 DEF GraphInv, VisitAcyclic
<1>10. CASE Diagnose  BY <1>10 DEF GraphInv, Diagnose
<1>11. CASE UNCHANGED vars  BY <1>11 DEF GraphInv, vars
<1> QED
  BY <1>2, <1>3, <1>4, <1>5, <1>6, <1>7, <1>8, <1>9, <1>10, <1>11 DEF Next

LEMMA MoveStep == MoveInv /\ [Next]_vars => MoveInv'
<1> SUFFICES ASSUME MoveInv, [Next]_vars PROVE MoveInv'  OBVIOUS
<1>1. GraphInv /\ GraphInv'  BY GraphKeeps DEF MoveInv
<1>2. CASE Search  BY <1>1, <1>2 DEF MoveInv, Search
<1>3. CASE Number  BY <1>1, <1>3 DEF MoveInv, Number
<1>4. CASE Record  BY <1>1, <1>4 DEF MoveInv, Record
<1>5. CASE BeginSweeps
  <2>1. N \in Nat \ {0} /\ N' = N  BY <1>1, <1>5, LogType, SameGraph DEF BeginSweeps
  <2>2. out' = [i \in 1 .. N |-> {}] /\ dirty' = 1 .. N /\ at' = 1  BY <1>5 DEF BeginSweeps
  <2>3. FromWalks(out, 1 .. N, AllWalks)'  BY <2>1, <2>2 DEF FromWalks
  <2>4. SweepInv'  BY <2>1, <2>2, <2>3 DEF SweepInv
  <2> QED  BY <2>4, <1>1, <1>5 DEF MoveInv, BeginSweeps
<1>6. CASE Visit
  <2>1. SweepInv' /\ phase' = "sweep"  BY <1>6, VisitKeeps DEF Visit
  <2> QED  BY <2>1, <1>1 DEF MoveInv
<1>7. CASE NextSweep
  <2>1. SweepInv /\ UNCHANGED <<g, order, events, out, dirty>> /\ at' = 1 /\ phase' = "sweep"
    BY <1>7 DEF MoveInv, NextSweep
  <2>2. N \in Nat \ {0}  BY <1>1, <1>7, LogType DEF NextSweep
  <2>3. /\ N' = N /\ AllWalks' = AllWalks
        /\ \A i : EventsOf(i)' = EventsOf(i) /\ Preds(i)' = Preds(i)
    BY <2>1, SameGraph
  <2>4. \A i : Result(i)' = Result(i)  BY <2>1, <2>3 DEF Result, Incoming
  <2>5. FromWalks(out, 1 .. N, AllWalks)'  BY <2>1, <2>3 DEF SweepInv, FromWalks
  <2>6. \A i \in dirty' : at' <= i  BY <2>1, <2>2 DEF SweepInv
  <2>7. at' \in 1 .. N' + 1  BY <2>1, <2>2, <2>3
  <2>8. SweepInv'  BY <2>1, <2>3, <2>4, <2>5, <2>6, <2>7 DEF SweepInv
  <2> QED  BY <2>1, <2>8, <1>1 DEF MoveInv
<1>8. CASE EndSweeps
  <2>1. /\ SweepInv /\ UNCHANGED <<g, order, events, out>>
        /\ at > N /\ ~ again /\ at' = 1 /\ phase' = "acyclic"
        /\ acyclic' = [i \in 1 .. N |-> {}]
    BY <1>8 DEF MoveInv, EndSweeps
  <2>2. N \in Nat \ {0}  BY <1>1, <1>8, LogType DEF EndSweeps
  <2>3. /\ N' = N /\ AllWalks' = AllWalks
        /\ \A i : EventsOf(i)' = EventsOf(i) /\ Preds(i)' = Preds(i)
    BY <2>1, SameGraph
  <2>4. \A i : Result(i)' = Result(i)  BY <2>1, <2>3 DEF Result, Incoming
  <2>5. FromWalks(out, 1 .. N, AllWalks)'  BY <2>1, <2>3 DEF SweepInv, FromWalks
  <2>6. dirty = {}  BY <2>1, <2>2 DEF SweepInv
  <2>7. Solved'  BY <2>1, <2>3, <2>4, <2>5, <2>6 DEF SweepInv, Solved
  <2>8. 1 .. at' - 1 = {} /\ at' \in 1 .. N' + 1  BY <2>1, <2>2, <2>3
  <2>9. FromWalks(acyclic, 1 .. at - 1, ForwardWalks)'  BY <2>8 DEF FromWalks
  <2>10. AcyclicInv'  BY <2>1, <2>3, <2>8, <2>9 DEF AcyclicInv
  <2> QED  BY <2>1, <2>7, <2>10, <1>1 DEF MoveInv
<1>9. CASE VisitAcyclic
  <2>1. AcyclicInv'  BY <1>9, VisitAcyclicKeeps
  <2>2. Solved /\ UNCHANGED <<g, order, events, out>> /\ phase' = "acyclic"
    BY <1>9 DEF MoveInv, VisitAcyclic
  <2>3. /\ N' = N /\ AllWalks' = AllWalks
        /\ \A i : EventsOf(i)' = EventsOf(i) /\ Preds(i)' = Preds(i)
    BY <2>2, SameGraph
  <2>4. \A i : Result(i)' = Result(i)  BY <2>2, <2>3 DEF Result, Incoming
  <2>5. FromWalks(out, 1 .. N, AllWalks)'  BY <2>2, <2>3 DEF Solved, FromWalks
  <2>6. Solved'  BY <2>2, <2>3, <2>4, <2>5 DEF Solved
  <2> QED  BY <2>1, <2>2, <2>6, <1>1 DEF MoveInv
<1>10. CASE Diagnose
  <2>1. reports' = RightUses  BY <1>10, DiagnoseRight
  <2>2. RightUses' = RightUses  BY <1>10, SameGraph DEF Diagnose
  <2> QED  BY <2>1, <2>2, <1>1, <1>10 DEF MoveInv, Diagnose
<1>11. CASE UNCHANGED vars
  <2>1. UNCHANGED <<g, order, events, out, dirty, at, again, acyclic, phase, reports>>
    BY <1>11 DEF vars
  <2>2. /\ N' = N /\ AllWalks' = AllWalks /\ ForwardWalks' = ForwardWalks
        /\ \A i : EventsOf(i)' = EventsOf(i) /\ Preds(i)' = Preds(i)
                  /\ AcyclicPreds(i)' = AcyclicPreds(i)
        /\ RightUses' = RightUses
    BY <2>1, SameGraph
  <2>3. \A i : Result(i)' = Result(i) /\ AcyclicIncoming(i)' = AcyclicIncoming(i)
    BY <2>1, <2>2 DEF Result, Incoming, AcyclicIncoming
  <2>4. \A sol, S, W : FromWalks(sol, S, W)' <=> FromWalks(sol, S, W)
    BY <2>2 DEF FromWalks
  <2>5. SweepInv' <=> SweepInv  BY <2>1, <2>2, <2>3, <2>4 DEF SweepInv
  <2>6. Solved' <=> Solved  BY <2>1, <2>2, <2>3, <2>4 DEF Solved
  <2>7. AcyclicInv' <=> AcyclicInv  BY <2>1, <2>2, <2>3, <2>4 DEF AcyclicInv
  <2> QED  BY <1>1, <2>1, <2>2, <2>5, <2>6, <2>7 DEF MoveInv
<1> QED
  BY <1>2, <1>3, <1>4, <1>5, <1>6, <1>7, <1>8, <1>9, <1>10, <1>11 DEF Next

(***************************************************************************)
(* Every state of the move analysis satisfies its invariant: the order is  *)
(* a reverse post-order, what the sweeps have put together comes from      *)
(* walks, and a block that is not dirty agrees with its predecessors.      *)
(***************************************************************************)
THEOREM MoveInvHolds == Spec => []MoveInv
<1> QED  BY MoveInit, MoveStep, PTL DEF Spec

(***************************************************************************)
(* movedf::AnalyzeFunction reports exactly the uses that a walk reaches    *)
(* with the value moved and no walk without retreating edges does, for     *)
(* every control flow graph and every log of events.                       *)
(***************************************************************************)
THEOREM ReportsRight == Spec => []ReportsExact
<1>1. MoveInv => ReportsExact
  BY DEF MoveInv, ReportsExact, RightUses, AllWalks, ForwardWalks
<1> QED  BY <1>1, MoveInvHolds, PTL

------------------------------------------------------------------------------
(* nulldf: post-dominators.                                                  *)

Back(F) == {<<e[2], e[1]>> : e \in F}

LEMMA EdgesType ==
  ASSUME IsCfg(g), Ordered(g, order)
  PROVE  /\ N \in Nat \ {0}
         /\ Edges \subseteq (1 .. N) \X (1 .. N)
         /\ \A i, j : j \in Succs(i) <=> <<i, j>> \in Edges
         /\ \A i, j : i \in Preds(j) <=> <<i, j>> \in Edges
         /\ \A i : Succs(i) \subseteq 1 .. N /\ Preds(i) \subseteq 1 .. N
         /\ Preds(1) = {}
<1>1. N \in Nat \ {0}  BY DEF Ordered, N
<1>2. Edges \subseteq (1 .. N) \X (1 .. N)  BY DEF Edges
<1>3. \A e \in Edges : e = <<e[1], e[2]>> /\ e[1] \in 1 .. N /\ e[2] \in 1 .. N  BY <1>2
<1>4. \A i, j : j \in Succs(i) <=> <<i, j>> \in Edges  BY <1>3 DEF Succs
<1>5. \A i, j : i \in Preds(j) <=> <<i, j>> \in Edges  BY <1>3 DEF Preds
<1>6. \A i : Succs(i) \subseteq 1 .. N /\ Preds(i) \subseteq 1 .. N  BY <1>3 DEF Succs, Preds
<1>7. Preds(1) = {}
  <2>1. \A e \in Edges : e[2] # 1  BY EdgeSets DEF EdgeSet
  <2> QED  BY <2>1 DEF Preds
<1> QED  BY <1>1, <1>2, <1>4, <1>5, <1>6, <1>7

\* What can reach the blocks S along the edges F.
LEMMA BackReach ==
  ASSUME IsCfg(g), Ordered(g, order), NEW F \in SUBSET Edges, NEW S
  PROVE  /\ S \subseteq ReachableFrom(S, Back(F))
         /\ \A e \in F : e[2] \in ReachableFrom(S, Back(F)) => e[1] \in ReachableFrom(S, Back(F))
         /\ \A C : S \subseteq C /\ (\A e \in F : e[2] \in C => e[1] \in C) =>
              ReachableFrom(S, Back(F)) \subseteq C
<1> DEFINE B == Back(F)
<1>1. N \in Nat /\ Edges \subseteq (1 .. N) \X (1 .. N)  BY EdgesType
<1>2. IsFiniteSet(B)
  <2>0. IsFiniteSet(1 .. N)  BY <1>1, FS_Interval
  <2>1. IsFiniteSet((1 .. N) \X (1 .. N))  BY <2>0, FS_Product
  <2>2. B \subseteq (1 .. N) \X (1 .. N)  BY <1>1 DEF Back
  <2> QED  BY <2>1, <2>2, FS_Subset
<1>3. \A C : Closed(C, B) <=> \A e \in F : e[2] \in C => e[1] \in C
  <2> TAKE C
  <2>1. \A e : <<e[2], e[1]>>[1] = e[2] /\ <<e[2], e[1]>>[2] = e[1]  OBVIOUS
  <2> QED  BY <2>1 DEF Closed, Back
<1> HIDE DEF B
<1>4. S \subseteq ReachableFrom(S, B) /\ Closed(ReachableFrom(S, B), B)
  BY <1>2, ReachClosed
<1>5. ASSUME NEW C, S \subseteq C, Closed(C, B) PROVE ReachableFrom(S, B) \subseteq C
  BY <1>2, <1>5, ReachLeast
<1> QED  BY <1>3, <1>4, <1>5 DEF B

\* What the blocks S can reach along the edges F.
LEMMA ForwardReach ==
  ASSUME IsCfg(g), Ordered(g, order), NEW F \in SUBSET Edges, NEW S
  PROVE  /\ S \subseteq ReachableFrom(S, F)
         /\ \A C : S \subseteq C /\ (\A e \in F : e[1] \in C => e[2] \in C) =>
              ReachableFrom(S, F) \subseteq C
<1>1. N \in Nat /\ Edges \subseteq (1 .. N) \X (1 .. N)  BY EdgesType
<1>2. IsFiniteSet(F)
  <2>0. IsFiniteSet(1 .. N)  BY <1>1, FS_Interval
  <2>1. IsFiniteSet((1 .. N) \X (1 .. N))  BY <2>0, FS_Product
  <2> QED  BY <1>1, <2>1, FS_Subset
<1> QED  BY <1>2, ReachClosed, ReachLeast DEF Closed

Known(i) == Succs(i) \cap DOMAIN pd

\* A sweep would not change the entry of block i.
Stable(i) ==
  i \notin Seeds /\ Known(i) # {} => i \in DOMAIN pd /\ pd[i] = PdMeet(i, Known(i))

PdType ==
  /\ DOMAIN pd \subseteq 1 .. N
  /\ Seeds \subseteq DOMAIN pd
  /\ \A i \in DOMAIN pd : i \in pd[i] /\ pd[i] \subseteq 1 .. N
  /\ \A i \in Seeds : pd[i] = {i}

\* What an entry leaves out can be avoided.
PdSound == \A i \in DOMAIN pd, x \in 1 .. N : x \notin pd[i] => i \in Avoids(x)

PdSwept == ~ changed => \A i \in at + 1 .. N : Stable(i)

PdInv == PdType /\ PdSound /\ at \in 0 .. N /\ PdSwept

PdRight == \A x \in 1 .. N : {i \in 1 .. N : x \in pd[i]} = {x} \cup (1 .. N \ Avoids(x))

\* The fixed point.
PdFinal ==
  /\ DOMAIN pd = 1 .. N
  /\ \A i \in 1 .. N : i \in pd[i] /\ pd[i] \subseteq 1 .. N
  /\ \A i \in Seeds : pd[i] = {i}
  /\ \A i \in (1 .. N) \ Seeds : pd[i] = PdMeet(i, Succs(i))
  /\ PdRight

\* Avoids(x) by its steps.
LEMMA AvoidsSteps ==
  ASSUME IsCfg(g), Ordered(g, order), NEW x
  PROVE  /\ \A i \in Seeds : i # x => i \in Avoids(x)
         /\ \A i, j : /\ j \in Succs(i) /\ i \notin Terminal /\ i # x /\ j # x /\ j \in Avoids(x)
                      => i \in Avoids(x)
         /\ \A C : /\ Seeds \ {x} \subseteq C
                   /\ \A i, j : j \in Succs(i) /\ i \notin Terminal /\ i # x /\ j # x /\ j \in C
                        => i \in C
                   => Avoids(x) \subseteq C
<1> DEFINE F == Avoiding(x)
<1>1. F \in SUBSET Edges  BY DEF Avoiding, Running
<1>2. Avoids(x) = ReachableFrom(Seeds \ {x}, Back(F))  BY DEF Avoids, Back
<1>3. \A i, j : <<i, j>> \in F <=> j \in Succs(i) /\ i \notin Terminal /\ i # x /\ j # x
  BY EdgesType DEF Avoiding, Running
<1>4. \A e \in F : e = <<e[1], e[2]>>  BY <1>1, EdgesType
<1> HIDE DEF F
<1>5. \A i \in Seeds : i # x => i \in Avoids(x)  BY <1>1, <1>2, BackReach
<1>6. \A i, j : <<i, j>> \in F /\ j \in Avoids(x) => i \in Avoids(x)
  <2>1. \A e \in F : e[2] \in Avoids(x) => e[1] \in Avoids(x)  BY <1>1, <1>2, BackReach
  <2> TAKE i, j
  <2>2. <<i, j>>[1] = i /\ <<i, j>>[2] = j  OBVIOUS
  <2> QED  BY <2>1, <2>2
<1>7. ASSUME NEW C, Seeds \ {x} \subseteq C, \A i, j : <<i, j>> \in F /\ j \in C => i \in C
      PROVE  Avoids(x) \subseteq C
  <2>1. \A e \in F : e[2] \in C => e[1] \in C  BY <1>4, <1>7
  <2> QED  BY <1>1, <1>2, <1>7, <2>1, BackReach
<1> QED  BY <1>3, <1>5, <1>6, <1>7

LEMMA SeedsType == Terminal \subseteq Seeds /\ Seeds \subseteq 1 .. N
BY DEF Seeds, Terminal

LEMMA SameBlocks ==
  ASSUME UNCHANGED <<g, order, ends>>
  PROVE  /\ N' = N /\ Terminal' = Terminal /\ Seeds' = Seeds
         /\ \A i : Succs(i)' = Succs(i) /\ Avoids(i)' = Avoids(i)
<1>1. N' = N /\ Edges' = Edges  BY DEF N, Edges
<1>2. \A i : Succs(i)' = Succs(i)  BY <1>1 DEF Succs
<1>3. Terminal' = Terminal  BY <1>1, <1>2 DEF Terminal
<1>4. Seeds' = Seeds  BY <1>1, <1>3 DEF Seeds, ReachesExit
<1>5. \A i : Avoids(i)' = Avoids(i)  BY <1>1, <1>3, <1>4 DEF Avoids, Avoiding, Running
<1> QED  BY <1>1, <1>2, <1>3, <1>4, <1>5

LEMMA PdStarts ==
  ASSUME IsCfg(g), Ordered(g, order), BeginMeets
  PROVE  PdInv'
<1>1. UNCHANGED <<g, order, ends>> /\ pd' = [i \in Seeds |-> {i}] /\ at' = N
  BY DEF BeginMeets
<1>2. /\ N' = N /\ Seeds' = Seeds /\ (\A i : Avoids(i)' = Avoids(i))
  BY <1>1, SameBlocks
<1>3. N \in Nat \ {0} /\ Seeds \subseteq 1 .. N  BY EdgesType, SeedsType
<1>4. DOMAIN pd' = Seeds /\ \A i \in Seeds : pd'[i] = {i}  BY <1>1
<1>5. \A i \in Seeds, x \in 1 .. N : x # i => i \in Avoids(x)  BY AvoidsSteps
<1>6. at' \in 0 .. N /\ at' + 1 .. N = {}  BY <1>1, <1>3
<1>7. PdType'
  <2>1. \A i \in Seeds : i \in pd'[i] /\ pd'[i] \subseteq 1 .. N  BY <1>3, <1>4
  <2>2. N' = N /\ Seeds' = Seeds  BY <1>2
  <2> QED  BY <1>3, <1>4, <2>1, <2>2 DEF PdType
<1>8. PdSound'
  <2> SUFFICES ASSUME NEW i \in DOMAIN pd', NEW x \in 1 .. N, x \notin pd'[i]
               PROVE  Avoids(x)' = Avoids(x) /\ i \in Avoids(x)
    BY <1>2 DEF PdSound
  <2> QED  BY <1>2, <1>4, <1>5
<1>9. PdSwept'  BY <1>2, <1>6 DEF PdSwept
<1> QED  BY <1>2, <1>6, <1>7, <1>8, <1>9 DEF PdInv

LEMMA PdSteps ==
  ASSUME IsCfg(g), Ordered(g, order), PdInv, MeetPd
  PROVE  PdInv'
<1> DEFINE meet == PdMeet(at, Known(at))
<1>1. UNCHANGED <<g, order, ends>> /\ at >= 1 /\ at' = at - 1
  BY DEF MeetPd
<1>2. /\ N' = N /\ Seeds' = Seeds
      /\ \A i : Succs(i)' = Succs(i) /\ Avoids(i)' = Avoids(i)
  BY <1>1, SameBlocks
<1>3. N \in Nat \ {0} /\ Seeds \subseteq 1 .. N /\ Terminal \subseteq Seeds
  BY EdgesType, SeedsType
<1>4. at \in 1 .. N /\ at' \in 0 .. N  BY <1>1, <1>3 DEF PdInv
<1>5. CASE at \notin Seeds /\ Known(at) # {} /\ (at \in DOMAIN pd => meet # pd[at])
  <2>1. /\ pd' = [i \in DOMAIN pd \cup {at} |-> IF i = at THEN meet ELSE pd[i]]
        /\ changed' = TRUE
    BY <1>5 DEF MeetPd, Known
  <2>2. at \in meet /\ meet \subseteq 1 .. N  BY <1>4 DEF PdMeet
  <2>3. ASSUME NEW x \in 1 .. N, x \notin meet PROVE at \in Avoids(x)
    <3>1. x # at  BY <2>2, <2>3
    <3>2. PICK s \in Known(at) : x \notin pd[s]  BY <2>3 DEF PdMeet
    <3>3. s \in Succs(at) /\ s \in DOMAIN pd  BY <3>2 DEF Known
    <3>4. s # x /\ s \in Avoids(x)  BY <3>2, <3>3 DEF PdInv, PdType, PdSound
    <3>5. at \notin Terminal  BY <1>3, <1>5
    <3> QED  BY <3>1, <3>3, <3>4, <3>5, AvoidsSteps
  <2> HIDE DEF meet
  <2>4. /\ DOMAIN pd' = DOMAIN pd \cup {at} /\ pd'[at] = meet
        /\ \A i \in DOMAIN pd : i # at => pd'[i] = pd[i]
    BY <2>1
  <2>5. \A i \in DOMAIN pd' : i = at \/ (i \in DOMAIN pd /\ i # at /\ pd'[i] = pd[i])
    BY <2>4
  <2>6. DOMAIN pd' \subseteq 1 .. N /\ Seeds \subseteq DOMAIN pd'  BY <1>4, <2>4 DEF PdInv, PdType
  <2>7. \A i \in DOMAIN pd' : i \in pd'[i] /\ pd'[i] \subseteq 1 .. N
    BY <2>2, <2>4, <2>5 DEF PdInv, PdType
  <2>8. \A i \in Seeds : pd'[i] = {i}  BY <1>5, <2>4 DEF PdInv, PdType
  <2>9. \A i \in DOMAIN pd', x \in 1 .. N : x \notin pd'[i] => i \in Avoids(x)
    BY <2>3, <2>4, <2>5 DEF PdInv, PdSound
  <2>10. PdType'  BY <1>2, <2>6, <2>7, <2>8 DEF PdType
  <2>11. PdSound'
    <3> SUFFICES ASSUME NEW i \in DOMAIN pd', NEW x \in 1 .. N, x \notin pd'[i]
                 PROVE  Avoids(x)' = Avoids(x) /\ i \in Avoids(x)
      BY <1>2 DEF PdSound
    <3> QED  BY <1>2, <2>9
  <2>12. PdSwept'  BY <2>1 DEF PdSwept
  <2> QED  BY <1>2, <1>4, <2>10, <2>11, <2>12 DEF PdInv
<1>6. CASE ~ (at \notin Seeds /\ Known(at) # {} /\ (at \in DOMAIN pd => meet # pd[at]))
  <2>1. pd' = pd /\ changed' = changed  BY <1>6 DEF MeetPd, Known
  <2>2. Stable(at)  BY <1>6 DEF Stable
  <2>3. \A i : Stable(i)' <=> Stable(i)  BY <1>2, <2>1 DEF Stable, Known, PdMeet
  <2>4. at' + 1 .. N = {at} \cup (at + 1 .. N)  BY <1>1, <1>3, <1>4
  <2>5. ~ changed' => \A i \in at' + 1 .. N : Stable(i)'
    BY <2>1, <2>2, <2>3, <2>4 DEF PdInv, PdSwept
  <2>6. PdType'  BY <1>2, <2>1 DEF PdInv, PdType
  <2>7. PdSound'  BY <1>2, <2>1 DEF PdInv, PdSound
  <2>8. PdSwept'  BY <1>2, <2>5 DEF PdSwept
  <2> QED  BY <1>2, <1>4, <2>6, <2>7, <2>8 DEF PdInv
<1> QED  BY <1>5, <1>6

(***************************************************************************)
(* When a sweep changes nothing every block has an entry, and the entries  *)
(* are the post-dominators by their definition.                            *)
(***************************************************************************)
LEMMA PdEnds ==
  ASSUME IsCfg(g), Ordered(g, order), PdInv, at = 0, ~ changed
  PROVE  PdFinal
<1>1. N \in Nat \ {0} /\ Seeds \subseteq 1 .. N /\ Terminal \subseteq Seeds
      /\ (\A i : Succs(i) \subseteq 1 .. N)
  BY EdgesType, SeedsType
<1>2. \A i \in 1 .. N : Stable(i)  BY <1>1 DEF PdInv, PdSwept
<1>3. /\ DOMAIN pd \subseteq 1 .. N /\ Seeds \subseteq DOMAIN pd
      /\ \A i \in DOMAIN pd : i \in pd[i] /\ pd[i] \subseteq 1 .. N
      /\ \A i \in Seeds : pd[i] = {i}
      /\ \A i \in DOMAIN pd, x \in 1 .. N : x \notin pd[i] => i \in Avoids(x)
  BY DEF PdInv, PdType, PdSound
<1>4. DOMAIN pd = 1 .. N
  <2>1. \A e \in Edges : e[2] \in DOMAIN pd => e[1] \in DOMAIN pd
    <3> SUFFICES ASSUME NEW e \in Edges, e[2] \in DOMAIN pd, e[1] \notin Seeds
                 PROVE  e[1] \in DOMAIN pd
      BY <1>3
    <3>1. e[2] \in Succs(e[1]) /\ e[1] \in 1 .. N  BY EdgesType
    <3>2. Known(e[1]) # {}  BY <3>1 DEF Known
    <3> QED  BY <1>2, <3>1, <3>2 DEF Stable
  <2>2. Terminal \subseteq DOMAIN pd  BY <1>1, <1>3
  <2>3. ReachesExit = ReachableFrom(Terminal, Back(Edges))  BY DEF ReachesExit, Back
  <2>4. ReachesExit \subseteq DOMAIN pd  BY <2>1, <2>2, <2>3, BackReach
  <2>5. \A i \in 1 .. N : i \in Seeds \/ i \in ReachesExit  BY DEF Seeds
  <2> QED  BY <1>3, <2>4, <2>5
<1>5. \A i \in (1 .. N) \ Seeds : Succs(i) # {}  BY <1>1 DEF Terminal
<1>6. \A i : Known(i) = Succs(i)  BY <1>1, <1>4 DEF Known
<1>7. \A i \in (1 .. N) \ Seeds : pd[i] = PdMeet(i, Succs(i))
  BY <1>2, <1>5, <1>6 DEF Stable
<1>8. ASSUME NEW x \in 1 .. N, NEW i \in Avoids(x)
      PROVE  i # x /\ i \in 1 .. N /\ x \notin pd[i]
  <2> DEFINE C == {j \in 1 .. N : j # x /\ x \notin pd[j]}
  <2>1. Seeds \ {x} \subseteq C  BY <1>1, <1>3
  <2>2. ASSUME NEW j, NEW k, k \in Succs(j), j \notin Terminal, j # x, k # x, k \in C
        PROVE  j \in C
    <3>1. j \in 1 .. N  BY <2>2, EdgesType
    <3>2. CASE j \in Seeds  BY <2>1, <2>2, <3>2
    <3>3. CASE j \notin Seeds
      <4>1. pd[j] = PdMeet(j, Succs(j))  BY <1>7, <3>1, <3>3
      <4>2. x \notin PdMeet(j, Succs(j))  BY <2>2 DEF PdMeet
      <4> QED  BY <2>2, <3>1, <4>1, <4>2
    <3> QED  BY <3>2, <3>3
  <2> HIDE DEF C
  <2>3. Avoids(x) \subseteq C  BY <2>1, <2>2, AvoidsSteps
  <2> QED  BY <2>3, <1>8 DEF C
<1>9. PdRight
  <2> SUFFICES ASSUME NEW x \in 1 .. N, NEW i \in 1 .. N
               PROVE  x \in pd[i] <=> i = x \/ i \notin Avoids(x)
    BY DEF PdRight
  <2>1. i = x => x \in pd[i]  BY <1>3, <1>4
  <2>2. i \notin Avoids(x) => x \in pd[i]  BY <1>3, <1>4
  <2>3. i \in Avoids(x) => i # x /\ x \notin pd[i]  BY <1>8
  <2> QED  BY <2>1, <2>2, <2>3
<1> QED  BY <1>3, <1>4, <1>7, <1>9 DEF PdFinal

------------------------------------------------------------------------------
(* nulldf: what a block does to the witnesses.                               *)

NullEvents == \A i \in 1 .. N : EventsOf(i) \in Seq(NullKinds)

LEMMA NullApplyType ==
  ASSUME NullEvents, NEW i \in 1 .. N, NEW k \in 1 .. Len(EventsOf(i)), NEW r \in SUBSET Movers
  PROVE  NullApplyEvent(i, r, EventsOf(i)[k]) \in SUBSET Movers
<1> DEFINE evs == EventsOf(i)
<1>1. evs \in Seq(NullKinds)  BY DEF NullEvents
<1> HIDE DEF evs
<1>2. k \in 1 .. Len(evs)  BY DEF evs
<1>3. evs[k] \in NullKinds  BY <1>1, <1>2
<1>4. evs[k] = "SetNull" => i \in Movers
  <2>1. k \in DOMAIN evs  BY <1>1, <1>2
  <2> QED  BY <2>1 DEF Movers, Range, evs
<1>5. NullApplyEvent(i, r, evs[k]) \in SUBSET Movers
  BY <1>3, <1>4 DEF NullApplyEvent, NullKinds
<1> QED  BY <1>5 DEF evs

LEMMA NullReplaySteps ==
  ASSUME NullEvents, NEW i \in 1 .. N, NEW w \in SUBSET Movers
  PROVE  /\ NullReplay(i, w, 0) = w
         /\ \A k \in 0 .. Len(EventsOf(i)) : NullReplay(i, w, k) \in SUBSET Movers
         /\ \A k \in 1 .. Len(EventsOf(i)) :
              NullReplay(i, w, k) = NullApplyEvent(i, NullReplay(i, w, k - 1), EventsOf(i)[k])
<1> DEFINE n == Len(EventsOf(i))
           X == SUBSET Movers
           Apply(r, k) == NullApplyEvent(i, r, EventsOf(i)[k])
           F == [k \in 1 .. n |-> [r \in X |-> Apply(r, k)]]
           Body(R) == [j \in 0 .. n |-> IF j = 0 THEN w ELSE Apply(R[j - 1], j)]
<1>1. n \in Nat  BY DEF NullEvents
<1>2. F \in [1 .. n -> [X -> X]]
  <2>1. \A k \in 1 .. n, r \in X : Apply(r, k) \in X  BY NullApplyType
  <2> HIDE DEF Apply, X, n
  <2> QED  BY <2>1
<1>3. PICK R \in [0 .. n -> X] : Solves(R, n, w, F)
  <2>1. w \in X  OBVIOUS
  <2> HIDE DEF X, F, n
  <2> QED  BY <1>1, <1>2, <2>1, Recursion
<1>10. \A j : Apply(R[j - 1], j) = NullApplyEvent(i, R[j - 1], EventsOf(i)[j])  OBVIOUS
<1>4. ASSUME NEW k \in 1 .. n PROVE R[k] = Apply(R[k - 1], k)
  <2>1. k - 1 \in 0 .. n  BY <1>1
  <2> HIDE DEF Apply, n
  <2>2. R[k - 1] \in X  BY <2>1, <1>3
  <2>3. F[k][R[k - 1]] = Apply(R[k - 1], k)  BY <2>2
  <2> QED  BY <2>3, <1>3 DEF Solves
<1>5. R = Body(R)
  <2>1. ASSUME NEW k \in 0 .. n PROVE R[k] = Body(R)[k]
    <3> HIDE DEF Apply, n
    <3> QED  BY <1>1, <1>3, <1>4, k = 0 \/ k \in 1 .. n DEF Solves
  <2> HIDE DEF X, Apply, n
  <2> QED  BY <2>1
<1> DEFINE Q == CHOOSE R_1 : R_1 = Body(R_1)
<1>6. Q = Body(Q)  BY <1>5
<1>7. \A k : NullReplay(i, w, k) = Q[k]  BY DEF NullReplay
<1> HIDE DEF Q
<1>8. Q[0] = w  BY <1>1, <1>6
<1>9. ASSUME NEW k \in 1 .. n PROVE Q[k] = NullApplyEvent(i, Q[k - 1], EventsOf(i)[k])
  <2>1. Q[k] = Body(Q)[k]  BY <1>6
  <2>2. k \in 0 .. n /\ k # 0  BY <1>1
  <2>3. Body(Q)[k] = Apply(Q[k - 1], k)  BY <2>2
  <2> QED  BY <2>1, <2>3
<1> HIDE DEF n, Body, F, Apply
<1>11. 0 .. n \subseteq {k \in 0 .. n : Q[k] \in SUBSET Movers}
  <2> DEFINE A == {k \in 0 .. n : Q[k] \in SUBSET Movers}
  <2>1. 0 \in A  BY <1>1, <1>8
  <2>2. ASSUME NEW k \in 0 .. n - 1, k \in A PROVE k + 1 \in A
    <3>1. k + 1 \in 1 .. n /\ (k + 1) - 1 = k  BY <1>1
    <3>2. Q[k + 1] = NullApplyEvent(i, Q[k], EventsOf(i)[k + 1])  BY <3>1, <1>9
    <3>3. NullApplyEvent(i, Q[k], EventsOf(i)[k + 1]) \in SUBSET Movers
      BY <2>2, <3>1, NullApplyType DEF n
    <3> QED  BY <3>1, <3>2, <3>3
  <2> HIDE DEF A
  <2>3. 0 .. n \subseteq A  BY <1>1, <2>1, <2>2, UpTo
  <2> QED  BY <2>3 DEF A
<1> QED  BY <1>7, <1>8, <1>9, <1>11 DEF n

\* Whatever reaches the first k events of block i, they make m a witness, or no
\* witness, or leave it as it is; only a move in block i makes one, of i itself.
NullFate(i, k, m) ==
  /\ \/ \A w \in SUBSET Movers : m \in NullReplay(i, w, k)
     \/ \A w \in SUBSET Movers : m \notin NullReplay(i, w, k)
     \/ \A w \in SUBSET Movers : m \in NullReplay(i, w, k) <=> m \in w
  /\ m # i \/ (\A j \in 1 .. k : EventsOf(i)[j] # "SetNull") =>
       \A w \in SUBSET Movers : m \in NullReplay(i, w, k) => m \in w

LEMMA NullFates ==
  ASSUME NullEvents, NEW i \in 1 .. N, NEW k \in 0 .. Len(EventsOf(i)), NEW m
  PROVE  NullFate(i, k, m)
<1> DEFINE n == Len(EventsOf(i))
           A == {j \in 0 .. n : NullFate(i, j, m)}
<1>1. n \in Nat /\ \A j \in 1 .. n : EventsOf(i)[j] \in NullKinds  BY DEF NullEvents
<1>2. 0 \in A
  <2>1. \A w \in SUBSET Movers : NullReplay(i, w, 0) = w  BY NullReplaySteps
  <2>2. NullFate(i, 0, m)  BY <2>1 DEF NullFate
  <2> QED  BY <1>1, <2>2
<1>3. ASSUME NEW j \in 0 .. n - 1, j \in A PROVE j + 1 \in A
  <2> DEFINE e == EventsOf(i)[j + 1]
  <2>1. j + 1 \in 1 .. n /\ (j + 1) - 1 = j /\ e \in NullKinds /\ j \in 0 .. n  BY <1>1
  <2>2. \A w \in SUBSET Movers : NullReplay(i, w, j + 1) = NullApplyEvent(i, NullReplay(i, w, j), e)
    <3> TAKE w \in SUBSET Movers
    <3>1. \A l \in 1 .. n : NullReplay(i, w, l) = NullApplyEvent(i, NullReplay(i, w, l - 1), EventsOf(i)[l])
      BY NullReplaySteps
    <3> QED  BY <2>1, <3>1
  <2> HIDE DEF e
  <2>3. NullFate(i, j, m)  BY <1>3
  <2>4. /\ m = i /\ e = "SetNull" => \A r : m \in NullApplyEvent(i, r, e)
        /\ m # i /\ e = "SetNull" => \A r : m \in NullApplyEvent(i, r, e) <=> m \in r
        /\ e \in {"ClearNull", "Read"} => \A r : m \notin NullApplyEvent(i, r, e)
        /\ e = "Deref" => \A r : m \in NullApplyEvent(i, r, e) <=> m \in r
    BY DEF NullApplyEvent
  <2>5. e \in {"SetNull", "ClearNull", "Read", "Deref"}  BY <2>1 DEF NullKinds
  <2>6. \/ \A w \in SUBSET Movers : m \in NullReplay(i, w, j + 1)
        \/ \A w \in SUBSET Movers : m \notin NullReplay(i, w, j + 1)
        \/ \A w \in SUBSET Movers : m \in NullReplay(i, w, j + 1) <=> m \in w
    <3>1. \/ \A w \in SUBSET Movers : m \in NullReplay(i, w, j + 1)
          \/ \A w \in SUBSET Movers : m \notin NullReplay(i, w, j + 1)
          \/ \A w \in SUBSET Movers : m \in NullReplay(i, w, j + 1) <=> m \in NullReplay(i, w, j)
      BY <2>2, <2>4, <2>5
    <3> QED  BY <3>1, <2>3 DEF NullFate
  <2>7. ASSUME m # i \/ (\A l \in 1 .. j + 1 : EventsOf(i)[l] # "SetNull"),
               NEW w \in SUBSET Movers, m \in NullReplay(i, w, j + 1)
        PROVE  m \in w
    <3>1. m # i \/ e # "SetNull"
      <4>1. j + 1 \in 1 .. j + 1  BY <2>1
      <4> QED  BY <4>1, <2>7 DEF e
    <3>2. m \in NullReplay(i, w, j)  BY <3>1, <2>2, <2>4, <2>5, <2>7
    <3>3. m # i \/ (\A l \in 1 .. j : EventsOf(i)[l] # "SetNull")
      <4>1. \A l \in 1 .. j : l \in 1 .. j + 1  BY <2>1
      <4> QED  BY <4>1, <2>7
    <3> QED  BY <2>3, <3>2, <3>3 DEF NullFate
  <2>8. NullFate(i, j + 1, m)  BY <2>6, <2>7 DEF NullFate
  <2>9. j + 1 \in 0 .. n  BY <2>1, <1>1
  <2> QED  BY <2>8, <2>9
<1> HIDE DEF A
<1>4. 0 .. n \subseteq A  BY <1>1, <1>2, <1>3, UpTo
<1> QED  BY <1>4 DEF A

LEMMA NullMonotone ==
  ASSUME NullEvents, NEW i \in 1 .. N, NEW k \in 0 .. Len(EventsOf(i)),
         NEW w \in SUBSET Movers, NEW v \in SUBSET w
  PROVE  NullReplay(i, v, k) \subseteq NullReplay(i, w, k)
<1> SUFFICES ASSUME NEW m \in NullReplay(i, v, k) PROVE m \in NullReplay(i, w, k)  OBVIOUS
<1>1. v \in SUBSET Movers  OBVIOUS
<1> QED  BY <1>1, NullFates DEF NullFate

LEMMA NullTransferType ==
  ASSUME NullEvents, NEW i \in 1 .. N, NEW w \in SUBSET Movers
  PROVE  /\ NullTransfer(i, w) \in SUBSET Movers
         /\ NullTransfer(i, w) \subseteq w \cup {i}
         /\ Len(EventsOf(i)) \in 0 .. Len(EventsOf(i))
<1>1. Len(EventsOf(i)) \in 0 .. Len(EventsOf(i))  BY DEF NullEvents
<1>2. NullTransfer(i, w) \in SUBSET Movers  BY <1>1, NullReplaySteps DEF NullTransfer
<1>3. ASSUME NEW m \in NullTransfer(i, w), m # i PROVE m \in w
  BY <1>1, <1>3, NullFates DEF NullTransfer, NullFate
<1> QED  BY <1>1, <1>2, <1>3

------------------------------------------------------------------------------
(* nulldf: solutions and walks.                                              *)

LEMMA MoversType == Movers \subseteq 1 .. N
BY DEF Movers

LEMMA NullWalkClosed ==
  ASSUME IsCfg(g), Ordered(g, order), NullEvents
  PROVE  /\ IsFiniteSet(NullWalkSteps)
         /\ <<1, {}>> \in NullWalks
         /\ NullWalks \subseteq (1 .. N) \X SUBSET Movers
         /\ \A i, j, w : <<i, w>> \in NullWalks /\ <<i, j>> \in Edges =>
              <<j, NullTransfer(i, w)>> \in NullWalks
<1> DEFINE C == (1 .. N) \X SUBSET Movers
<1>1. N \in Nat /\ 1 \in 1 .. N /\ (\A e \in Edges : e[1] \in 1 .. N /\ e[2] \in 1 .. N)
  BY EdgesType
<1>2. \A e \in Edges, w \in SUBSET Movers : NullTransfer(e[1], w) \in SUBSET Movers
  BY <1>1, NullTransferType
<1>3. NullWalkSteps \subseteq C \X C
  <2> SUFFICES ASSUME NEW e \in Edges, NEW w \in SUBSET Movers
               PROVE  <<<<e[1], w>>, <<e[2], NullTransfer(e[1], w)>>>> \in C \X C
    <3> HIDE DEF C
    <3> QED  BY DEF NullWalkSteps
  <2> DEFINE t == NullTransfer(e[1], w)
  <2>1. t \in SUBSET Movers  BY <1>2
  <2> HIDE DEF t
  <2>2. <<e[1], w>> \in C /\ <<e[2], t>> \in C  BY <1>1, <2>1
  <2> HIDE DEF C
  <2> QED  BY <2>2 DEF t
<1>4. IsFiniteSet(NullWalkSteps)
  <2>1. IsFiniteSet(1 .. N)  BY <1>1, FS_Interval
  <2>2. IsFiniteSet(Movers)  BY <2>1, MoversType, FS_Subset
  <2>3. IsFiniteSet(SUBSET Movers)  BY <2>2, FS_SUBSET
  <2>4. IsFiniteSet(C)  BY <2>1, <2>3, FS_Product
  <2> HIDE DEF C
  <2>5. IsFiniteSet(C \X C)  BY <2>4, FS_Product
  <2> QED  BY <1>3, <2>5, FS_Subset
<1>5. {<<1, {}>>} \subseteq NullWalks /\ Closed(NullWalks, NullWalkSteps)
  BY <1>4, ReachClosed DEF NullWalks
<1>6. NullWalks \subseteq C
  <2>1. {<<1, {}>>} \subseteq C  BY <1>1
  <2>2. Closed(C, NullWalkSteps)  BY <1>3 DEF Closed
  <2> HIDE DEF C
  <2> QED  BY <1>4, <2>1, <2>2, ReachLeast DEF NullWalks
<1>7. ASSUME NEW i, NEW j, NEW w, <<i, w>> \in NullWalks, <<i, j>> \in Edges
      PROVE  <<j, NullTransfer(i, w)>> \in NullWalks
  <2> DEFINE t == NullTransfer(i, w)
             e == <<i, j>>
             step == <<<<e[1], w>>, <<e[2], NullTransfer(e[1], w)>>>>
  <2>1. w \in SUBSET Movers  BY <1>6, <1>7
  <2>2. step \in NullWalkSteps  BY <1>7, <2>1 DEF NullWalkSteps
  <2>3. step[1] = <<i, w>> /\ step[2] = <<j, t>>  OBVIOUS
  <2> HIDE DEF step, t
  <2>4. step[1] \in NullWalks => step[2] \in NullWalks  BY <1>5, <2>2 DEF Closed
  <2>5. <<j, t>> \in NullWalks  BY <1>7, <2>3, <2>4
  <2> QED  BY <2>5 DEF t
<1> QED  BY <1>4, <1>5, <1>6, <1>7

LEMMA NullEveryPlaceWalked ==
  ASSUME IsCfg(g), Ordered(g, order), NullEvents, NEW i \in 1 .. N
  PROVE  \E c \in NullWalks : c[1] = i
<1> DEFINE Bad == {j \in 1 .. N : ~ \E c \in NullWalks : c[1] = j}
<1> SUFFICES ASSUME Bad # {} PROVE FALSE  OBVIOUS
<1>1. N \in Nat  BY EdgesType
<1>2. PICK m \in Bad : \A k \in Bad : m <= k
  <2>1. Bad \in SUBSET Nat  BY <1>1
  <2> HIDE DEF Bad
  <2> QED  BY <2>1, LeastNumber
<1>3. m # 1
  <2>1. <<1, {}>> \in NullWalks  BY NullWalkClosed
  <2>2. <<1, {}>>[1] = 1  OBVIOUS
  <2> QED  BY <2>1, <2>2
<1>4. m \in 2 .. N  BY <1>1, <1>3
<1>5. PICK p \in 1 .. m - 1 : order[m] \in Range(g[order[p]])  BY <1>4 DEF Ordered, N
<1>6. p \in 1 .. N /\ p < m  BY <1>1, <1>4
<1>7. <<p, m>> \in Edges  BY <1>4, <1>5, <1>6 DEF Edges, N
<1>8. PICK c \in NullWalks : c[1] = p
  <2>1. p \notin Bad  BY <1>1, <1>2, <1>6
  <2> QED  BY <2>1, <1>6
<1>9. c = <<p, c[2]>>  BY <1>8, NullWalkClosed
<1>10. <<m, NullTransfer(p, c[2])>> \in NullWalks  BY <1>7, <1>8, <1>9, NullWalkClosed
<1> QED  BY <1>2, <1>10

\* Every witness that leaves a block of S is the witness of some walk through it.
NullFromWalks(S) ==
  \A i \in S : \A m \in out[i] : \E c \in NullWalks : c[1] = i /\ m \in NullTransfer(i, c[2])

LEMMA NullIncomingType ==
  ASSUME IsCfg(g), Ordered(g, order), out \in [1 .. N -> SUBSET Movers], NEW i \in 1 .. N
  PROVE  /\ NullIncoming(i) \in SUBSET Movers
         /\ \A m : m \in NullIncoming(i) <=> \E p \in Preds(i) : m \in out[p]
<1>1. Preds(1) = {} /\ Preds(i) \subseteq 1 .. N  BY EdgesType
<1>2. NullIncoming(i) = UNION {out[p] : p \in Preds(i)}  BY <1>1 DEF NullIncoming
<1> QED  BY <1>1, <1>2

LEMMA NullReplayFromWalks ==
  ASSUME IsCfg(g), Ordered(g, order), NullEvents,
         out \in [1 .. N -> SUBSET Movers], NullFromWalks(1 .. N),
         NEW i \in 1 .. N, NEW k \in 0 .. Len(EventsOf(i)),
         NEW m \in NullReplay(i, NullIncoming(i), k)
  PROVE  \E c \in NullWalks : c[1] = i /\ m \in NullReplay(i, c[2], k)
<1>1. NullIncoming(i) \in SUBSET Movers  BY NullIncomingType
<1>2. NullFate(i, k, m)  BY NullFates
<1>3. \A c \in NullWalks : c = <<c[1], c[2]>> /\ c[2] \in SUBSET Movers  BY NullWalkClosed
<1>4. CASE \A w \in SUBSET Movers : m \in NullReplay(i, w, k)
  <2>1. PICK c \in NullWalks : c[1] = i  BY NullEveryPlaceWalked
  <2> QED  BY <1>3, <1>4, <2>1
<1>5. CASE \A w \in SUBSET Movers : m \in NullReplay(i, w, k) <=> m \in w
  <2>1. m \in NullIncoming(i)  BY <1>1, <1>5
  <2>2. PICK p \in Preds(i) : m \in out[p]  BY <2>1, NullIncomingType
  <2>3. p \in 1 .. N /\ <<p, i>> \in Edges  BY <2>2, EdgesType
  <2>4. PICK c \in NullWalks : c[1] = p /\ m \in NullTransfer(p, c[2])
    BY <2>2, <2>3 DEF NullFromWalks
  <2> DEFINE t == NullTransfer(p, c[2])
  <2>5. <<i, t>> \in NullWalks  BY <1>3, <2>3, <2>4, NullWalkClosed
  <2>6. m \in t  BY <2>4
  <2> HIDE DEF t
  <2>7. <<i, t>>[1] = i /\ <<i, t>>[2] = t  OBVIOUS
  <2>8. m \in NullReplay(i, t, k)  BY <1>3, <1>5, <2>5, <2>6, <2>7
  <2> QED  BY <2>5, <2>7, <2>8
<1> QED  BY <1>1, <1>2, <1>4, <1>5 DEF NullFate

NullResult(i) == NullTransfer(i, NullIncoming(i))

NullSolved ==
  /\ out \in [1 .. N -> SUBSET Movers]
  /\ NullFromWalks(1 .. N)
  /\ \A i \in 1 .. N : out[i] = NullResult(i)

\* In a solution, what the walks bring to a block comes in there.
LEMMA NullWalksInside ==
  ASSUME IsCfg(g), Ordered(g, order), NullEvents, NullSolved, NEW c \in NullWalks
  PROVE  c[2] \subseteq NullIncoming(c[1])
<1> DEFINE C == {x \in (1 .. N) \X SUBSET Movers : x[2] \subseteq NullIncoming(x[1])}
<1>1. out \in [1 .. N -> SUBSET Movers] /\ N \in Nat \ {0}  BY EdgesType DEF NullSolved
<1>2. <<1, {}>> \in C  BY <1>1
<1>3. ASSUME NEW e \in Edges, NEW w \in SUBSET Movers, <<e[1], w>> \in C
      PROVE  <<e[2], NullTransfer(e[1], w)>> \in C
  <2> DEFINE t == NullTransfer(e[1], w)
  <2>1. e[1] \in 1 .. N /\ e[2] \in 1 .. N /\ e[1] \in Preds(e[2])
    <3>1. e = <<e[1], e[2]>>  BY EdgesType
    <3> QED  BY <3>1, EdgesType
  <2>2. w \subseteq NullIncoming(e[1])  BY <1>3
  <2>3. NullIncoming(e[1]) \in SUBSET Movers  BY <1>1, <2>1, NullIncomingType
  <2>4. t \in SUBSET Movers /\ Len(EventsOf(e[1])) \in 0 .. Len(EventsOf(e[1]))
    BY <2>1, NullTransferType
  <2>5. t \subseteq NullResult(e[1])
    BY <2>1, <2>2, <2>3, <2>4, NullMonotone DEF NullTransfer, NullResult
  <2>6. out[e[1]] = NullResult(e[1])  BY <2>1 DEF NullSolved
  <2> HIDE DEF t
  <2>7. t \subseteq NullIncoming(e[2])  BY <1>1, <2>1, <2>5, <2>6, NullIncomingType
  <2>8. <<e[2], t>> \in C  BY <2>1, <2>4, <2>7
  <2> QED  BY <2>8 DEF t
<1> HIDE DEF C
<1>4. Closed(C, NullWalkSteps)
  <2> SUFFICES ASSUME NEW x \in NullWalkSteps, x[1] \in C PROVE x[2] \in C  BY DEF Closed
  <2>1. PICK e \in Edges, w \in SUBSET Movers :
          x = <<<<e[1], w>>, <<e[2], NullTransfer(e[1], w)>>>>
    BY DEF NullWalkSteps
  <2>2. x[1] = <<e[1], w>> /\ x[2] = <<e[2], NullTransfer(e[1], w)>>  BY <2>1
  <2> QED  BY <1>3, <2>2
<1>5. NullWalks \subseteq C  BY <1>2, <1>4, NullWalkClosed, ReachLeast DEF NullWalks
<1> QED  BY <1>5 DEF C

\* What the fixed point brings to event k of a block is what the walks bring.
LEMMA NullSolutionExact ==
  ASSUME IsCfg(g), Ordered(g, order), NullEvents, NullSolved,
         NEW i \in 1 .. N, NEW k \in 0 .. Len(EventsOf(i)), NEW m
  PROVE  m \in NullReplay(i, NullIncoming(i), k) <=>
           \E c \in NullWalks : c[1] = i /\ m \in NullReplay(i, c[2], k)
<1>1. out \in [1 .. N -> SUBSET Movers] /\ NullFromWalks(1 .. N)  BY DEF NullSolved
<1>2. NullIncoming(i) \in SUBSET Movers  BY <1>1, NullIncomingType
<1>3. ASSUME NEW c \in NullWalks, c[1] = i, m \in NullReplay(i, c[2], k)
      PROVE  m \in NullReplay(i, NullIncoming(i), k)
  <2>1. c[2] \subseteq NullIncoming(i)  BY <1>3, NullWalksInside
  <2> QED  BY <1>2, <1>3, <2>1, NullMonotone
<1> QED  BY <1>1, <1>3, NullReplayFromWalks

------------------------------------------------------------------------------
(* nulldf: the state.                                                        *)

NullGraph ==
  /\ g \in Graphs
  /\ phase \in {"search", "seed", "meet", "log", "sweep", "done"}
  /\ phase = "search" => SearchInv(g, search)
  /\ phase # "search" => Ordered(g, order)
  /\ phase \in {"log", "sweep", "done"} => events \in [Blocks(g) -> Seq(NullKinds)]

\* The post-dominators and the control dependence are final.
Guards == PdFinal /\ cd = [i \in 1 .. N |-> Closure(i)]

\* Unless the sweep is to be repeated, the blocks behind it agree with their
\* predecessors.
NullSweepInv ==
  /\ out \in [1 .. N -> SUBSET Movers]
  /\ NullFromWalks(1 .. N)
  /\ at \in 1 .. N + 1
  /\ ~ changed => \A i \in 1 .. at - 1 : out[i] = NullResult(i)

WalkWitnesses(d) == UNION {Witnesses(d, c[2]) : c \in {w \in NullWalks : w[1] = d[1]}}

RightReports == {r \in {<<d, WalkWitnesses(d)>> : d \in Dereferences} : r[2] # {}}

NullInv ==
  /\ NullGraph
  /\ phase = "meet" => PdInv
  /\ phase \in {"log", "sweep", "done"} => Guards
  /\ phase = "sweep" => NullSweepInv
  /\ phase # "done" => reports = {}
  /\ phase = "done" => reports = RightReports

LEMMA NullLogType ==
  ASSUME NullGraph, phase # "search"
  PROVE  /\ IsCfg(g) /\ Ordered(g, order) /\ N \in Nat \ {0}
         /\ phase \in {"log", "sweep", "done"} => NullEvents
<1>1. IsCfg(g)  BY GraphsAssumption DEF NullGraph
<1>2. Ordered(g, order)  BY DEF NullGraph
<1>3. N \in Nat \ {0} /\ \A i \in 1 .. N : order[i] \in Blocks(g)  BY <1>2 DEF Ordered, N
<1>4. ASSUME phase \in {"log", "sweep", "done"} PROVE NullEvents
  <2>1. events \in [Blocks(g) -> Seq(NullKinds)]  BY <1>4 DEF NullGraph
  <2> QED  BY <1>3, <2>1 DEF NullEvents, EventsOf
<1> QED  BY <1>1, <1>2, <1>3, <1>4

LEMMA SameGuards ==
  ASSUME UNCHANGED <<g, order, ends, pd>>
  PROVE  /\ PdFinal' <=> PdFinal
         /\ N' = N /\ \A i : Closure(i)' = Closure(i)
<1>1. /\ N' = N /\ Seeds' = Seeds
      /\ \A i : Succs(i)' = Succs(i) /\ Avoids(i)' = Avoids(i)
  BY SameBlocks
<1>2. PdRight' <=> PdRight  BY <1>1 DEF PdRight
<1>3. PdFinal' <=> PdFinal  BY <1>1, <1>2 DEF PdFinal, PdMeet
<1>4. Edges' = Edges  BY <1>1 DEF Edges
<1>5. \A i : Closure(i)' = Closure(i)  BY <1>1, <1>4 DEF Closure, Direct, Depends
<1> QED  BY <1>1, <1>3, <1>5

LEMMA SameGuardsState ==
  ASSUME UNCHANGED <<g, order, ends, pd, cd>>
  PROVE  Guards' <=> Guards
BY SameGuards DEF Guards

LEMMA SameLog ==
  ASSUME UNCHANGED <<g, order, events>>
  PROVE  /\ N' = N /\ Movers' = Movers /\ NullWalks' = NullWalks
         /\ \A i : EventsOf(i)' = EventsOf(i) /\ Preds(i)' = Preds(i)
         /\ \A i, w : NullTransfer(i, w)' = NullTransfer(i, w)
<1>1. N' = N /\ Edges' = Edges  BY DEF N, Edges
<1>2. \A i : EventsOf(i)' = EventsOf(i)  BY DEF EventsOf
<1>3. \A i : Preds(i)' = Preds(i)  BY <1>1 DEF Preds
<1>4. Movers' = Movers  BY <1>1, <1>2 DEF Movers
<1>5. \A i, w : NullTransfer(i, w)' = NullTransfer(i, w)
  BY <1>2 DEF NullTransfer, NullReplay
<1>6. NullWalks' = NullWalks  BY DEF NullWalks, NullWalkSteps, Movers, NullTransfer, NullReplay, EventsOf, Edges, N
<1> QED  BY <1>1, <1>2, <1>3, <1>4, <1>5, <1>6

LEMMA SameReports ==
  ASSUME UNCHANGED <<g, order, events, cd>>
  PROVE  RightReports' = RightReports
<1>1. N' = N /\ NullWalks' = NullWalks  BY SameLog
<1>2. Dereferences' = Dereferences  BY <1>1 DEF Dereferences, EventsOf
<1>3. \A d : WalkWitnesses(d)' = WalkWitnesses(d)
  BY <1>1 DEF WalkWitnesses, Witnesses, NullReplay, EventsOf, Unguarded
<1> QED  BY <1>2, <1>3 DEF RightReports

\* The results and their origin, when the sets that go out do not change.
LEMMA SameFlow ==
  ASSUME UNCHANGED <<g, order, events, out>>
  PROVE  /\ N' = N /\ Movers' = Movers
         /\ \A i : NullResult(i)' = NullResult(i)
         /\ NullFromWalks(1 .. N)' <=> NullFromWalks(1 .. N)
<1>1. /\ N' = N /\ Movers' = Movers /\ NullWalks' = NullWalks
      /\ \A i : EventsOf(i)' = EventsOf(i) /\ Preds(i)' = Preds(i)
      /\ \A i, w : NullTransfer(i, w)' = NullTransfer(i, w)
  BY SameLog
<1>2. \A i : NullIncoming(i)' = NullIncoming(i)  BY <1>1 DEF NullIncoming
<1>3. ASSUME NEW i PROVE NullResult(i)' = NullResult(i)
  <2>1. NullIncoming(i)' = NullIncoming(i)  BY <1>2
  <2>2. NullTransfer(i, NullIncoming(i))' = NullTransfer(i, NullIncoming(i))
    BY <2>1 DEF NullTransfer, NullReplay, EventsOf
  <2> QED  BY <2>2 DEF NullResult
<1>4. NullFromWalks(1 .. N)' <=> NullFromWalks(1 .. N)  BY <1>1 DEF NullFromWalks
<1> QED  BY <1>1, <1>3, <1>4

LEMMA NullVisitKeeps ==
  ASSUME NullInv, NullVisit
  PROVE  NullSweepInv'
<1> DEFINE result == NullResult(at)
<1>1. /\ NullGraph /\ NullSweepInv /\ phase = "sweep"
      /\ UNCHANGED <<g, order, events>>
  BY DEF NullInv, NullVisit
<1>2. IsCfg(g) /\ Ordered(g, order) /\ NullEvents /\ N \in Nat \ {0}  BY <1>1, NullLogType
<1>3. /\ N' = N /\ Movers' = Movers /\ NullWalks' = NullWalks
      /\ \A i : Preds(i)' = Preds(i)
      /\ \A i, w : NullTransfer(i, w)' = NullTransfer(i, w)
  BY <1>1, SameLog
<1>4. at \in 1 .. N /\ at' = at + 1 /\ at' \in 1 .. N + 1
  BY <1>1, <1>2 DEF NullVisit, NullSweepInv
<1>5. out \in [1 .. N -> SUBSET Movers] /\ NullFromWalks(1 .. N)  BY <1>1 DEF NullSweepInv
<1>6. NullIncoming(at) \in SUBSET Movers  BY <1>2, <1>4, <1>5, NullIncomingType
<1>7. result \in SUBSET Movers /\ Len(EventsOf(at)) \in 0 .. Len(EventsOf(at))
  BY <1>2, <1>4, <1>6, NullTransferType DEF NullResult
<1>8. \A m \in result : \E c \in NullWalks : c[1] = at /\ m \in NullTransfer(at, c[2])
  BY <1>2, <1>4, <1>5, <1>7, NullReplayFromWalks DEF NullResult, NullTransfer
<1>9. out' = [out EXCEPT ![at] = result] /\ changed' = (changed \/ result # out[at])
  BY DEF NullVisit, NullResult
<1> HIDE DEF result
<1>10. /\ out' \in [1 .. N -> SUBSET Movers] /\ out'[at] = result
       /\ \A i \in 1 .. N : i # at => out'[i] = out[i]
  BY <1>4, <1>5, <1>7, <1>9
<1>11. \A i \in 1 .. N : \A m \in out'[i] :
         \E c \in NullWalks : c[1] = i /\ m \in NullTransfer(i, c[2])
  BY <1>5, <1>8, <1>10 DEF NullFromWalks
<1>12. NullFromWalks(1 .. N)'  BY <1>3, <1>11 DEF NullFromWalks
<1>13. ASSUME ~ changed', NEW i \in 1 .. at' - 1 PROVE out'[i] = NullResult(i)'
  <2>1. ~ changed /\ result = out[at]  BY <1>9, <1>13
  <2>2. out' = out  BY <1>4, <1>5, <1>9, <2>1
  <2>3. NullResult(i)' = NullResult(i)  BY <1>1, <2>2, SameFlow
  <2>4. i \in 1 .. at - 1 \/ i = at  BY <1>4
  <2>5. out[i] = NullResult(i)  BY <1>1, <2>1, <2>4 DEF NullSweepInv, result
  <2> QED  BY <2>2, <2>3, <2>5
<1> QED  BY <1>3, <1>4, <1>10, <1>12, <1>13 DEF NullSweepInv

LEMMA NullDiagnoseRight ==
  ASSUME NullInv, NullDiagnose
  PROVE  reports' = RightReports
<1>1. NullGraph /\ NullSweepInv /\ phase = "sweep" /\ at > N /\ ~ changed
  BY DEF NullInv, NullDiagnose
<1>2. IsCfg(g) /\ Ordered(g, order) /\ NullEvents /\ N \in Nat \ {0}  BY <1>1, NullLogType
<1>3. at - 1 = N  BY <1>1, <1>2 DEF NullSweepInv
<1>4. NullSolved  BY <1>1, <1>3 DEF NullSweepInv, NullSolved
<1>5. ASSUME NEW d \in Dereferences
      PROVE  Witnesses(d, NullIncoming(d[1])) = WalkWitnesses(d)
  <2> DEFINE i == d[1]
             k == d[2] - 1
  <2>1. i \in 1 .. N /\ k \in 0 .. Len(EventsOf(i))
    <3>1. d[1] \in 1 .. N /\ d[2] \in 1 .. MaxEvents /\ d[2] <= Len(EventsOf(d[1]))
      BY DEF Dereferences
    <3>2. EventsOf(i) \in Seq(NullKinds)  BY <1>2, <3>1 DEF NullEvents
    <3> QED  BY <3>1, <3>2, GraphsAssumption
  <2> HIDE DEF k
  <2>2. \A m : m \in NullReplay(i, NullIncoming(i), k) <=>
                 \E c \in NullWalks : c[1] = i /\ m \in NullReplay(i, c[2], k)
    BY <1>2, <1>4, <2>1, NullSolutionExact
  <2>3. \A w : Witnesses(d, w) = {m \in NullReplay(i, w, k) : Unguarded(i, m)}
    BY DEF Witnesses, k
  <2>4. \A m : m \in WalkWitnesses(d) <=>
                 \E c \in NullWalks : c[1] = i /\ m \in Witnesses(d, c[2])
    BY DEF WalkWitnesses
  <2> DEFINE all == Witnesses(d, NullIncoming(d[1]))
  <2>5. ASSUME NEW m PROVE m \in all <=> m \in WalkWitnesses(d)
    <3>1. m \in all <=> m \in NullReplay(i, NullIncoming(i), k) /\ Unguarded(i, m)  BY <2>3
    <3>2. m \in WalkWitnesses(d) <=>
            \E c \in NullWalks : c[1] = i /\ m \in NullReplay(i, c[2], k) /\ Unguarded(i, m)
      BY <2>3, <2>4
    <3> QED  BY <2>2, <3>1, <3>2
  <2> HIDE DEF all
  <2>6. all = WalkWitnesses(d)  BY <2>5
  <2> QED  BY <2>6 DEF all
<1>6. reports' = {r \in {<<d, Witnesses(d, NullIncoming(d[1]))>> : d \in Dereferences} : r[2] # {}}
  BY DEF NullDiagnose
<1> QED  BY <1>5, <1>6 DEF RightReports

LEMMA NullStarts == NullInit => NullInv
<1> SUFFICES ASSUME NullInit PROVE NullInv  OBVIOUS
<1>1. IsCfg(g)  BY GraphsAssumption DEF NullInit
<1>2. SearchInv(g, search)  BY <1>1, SearchStarts DEF NullInit
<1> QED  BY <1>2 DEF NullInit, NullInv, NullGraph

LEMMA NullGraphKeeps ==
  ASSUME NullGraph, [NullNext]_nullVars
  PROVE  NullGraph'
<1>1. IsCfg(g)  BY GraphsAssumption DEF NullGraph
<1>2. CASE NullSearch
  <2>1. SearchInv(g, search')  BY <1>1, <1>2, SearchSteps DEF NullGraph, NullSearch
  <2> QED  BY <2>1, <1>2 DEF NullGraph, NullSearch
<1>3. CASE NullNumber
  <2>1. Ordered(g, order')  BY <1>1, <1>3, SearchOrders DEF NullGraph, NullNumber
  <2> QED  BY <2>1, <1>3 DEF NullGraph, NullNumber
<1>4. CASE NullRecord
  <2>1. events \in [Blocks(g) -> Seq(NullKinds)]  BY <1>4 DEF NullGraph, NullRecord
  <2>2. PICK b \in Blocks(g), kind \in NullKinds : events' = [events EXCEPT ![b] = Append(@, kind)]
    BY <2>1, <1>4 DEF NullRecord, MoreEvents
  <2>3. Append(events[b], kind) \in Seq(NullKinds)  BY <2>1
  <2>4. events' \in [Blocks(g) -> Seq(NullKinds)]  BY <2>1, <2>2, <2>3
  <2> QED  BY <2>4, <1>4 DEF NullGraph, NullRecord
<1>5. CASE BeginMeets  BY <1>5 DEF NullGraph, BeginMeets
<1>6. CASE MeetPd  BY <1>6 DEF NullGraph, MeetPd
<1>7. CASE NextMeets  BY <1>7 DEF NullGraph, NextMeets
<1>8. CASE EndMeets
  <2>1. events' \in [Blocks(g) -> Seq(NullKinds)]  BY <1>8 DEF EndMeets, NoEvents
  <2> QED  BY <2>1, <1>8 DEF NullGraph, EndMeets
<1>9. CASE NullBeginSweeps  BY <1>9 DEF NullGraph, NullBeginSweeps
<1>10. CASE NullVisit  BY <1>10 DEF NullGraph, NullVisit
<1>11. CASE NullNextSweep  BY <1>11 DEF NullGraph, NullNextSweep
<1>12. CASE NullDiagnose  BY <1>12 DEF NullGraph, NullDiagnose
<1>13. CASE UNCHANGED nullVars  BY <1>13 DEF NullGraph, nullVars
<1> QED
  BY <1>2, <1>3, <1>4, <1>5, <1>6, <1>7, <1>8, <1>9, <1>10, <1>11, <1>12, <1>13 DEF NullNext

LEMMA NullStep == NullInv /\ [NullNext]_nullVars => NullInv'
<1> SUFFICES ASSUME NullInv, [NullNext]_nullVars PROVE NullInv'  OBVIOUS
<1>1. NullGraph /\ NullGraph'  BY NullGraphKeeps DEF NullInv
<1>2. CASE NullSearch  BY <1>1, <1>2 DEF NullInv, NullSearch
<1>3. CASE NullNumber  BY <1>1, <1>3 DEF NullInv, NullNumber
<1>4. CASE BeginMeets
  <2>1. IsCfg(g) /\ Ordered(g, order)  BY <1>1, <1>4, NullLogType DEF BeginMeets
  <2>2. PdInv'  BY <1>4, <2>1, PdStarts
  <2> QED  BY <1>1, <1>4, <2>2 DEF NullInv, BeginMeets
<1>5. CASE MeetPd
  <2>1. IsCfg(g) /\ Ordered(g, order)  BY <1>1, <1>5, NullLogType DEF MeetPd
  <2>2. PdInv  BY <1>5 DEF NullInv, MeetPd
  <2>3. PdInv'  BY <1>5, <2>1, <2>2, PdSteps
  <2> QED  BY <1>1, <1>5, <2>3 DEF NullInv, MeetPd
<1>6. CASE NextMeets
  <2>1. N \in Nat \ {0}  BY <1>1, <1>6, NullLogType DEF NextMeets
  <2>2. PdInv /\ UNCHANGED <<g, order, ends, pd>> /\ at' = N
    BY <1>6 DEF NullInv, NextMeets
  <2>3. N' = N /\ Seeds' = Seeds /\ (\A i : Avoids(i)' = Avoids(i))  BY <2>2, SameBlocks
  <2>4. at' \in 0 .. N /\ at' + 1 .. N = {}  BY <2>1, <2>2
  <2>5. PdType'  BY <2>2, <2>3 DEF PdInv, PdType
  <2>6. PdSound'  BY <2>2, <2>3 DEF PdInv, PdSound
  <2>7. PdSwept'  BY <2>3, <2>4 DEF PdSwept
  <2>8. PdInv'  BY <2>3, <2>4, <2>5, <2>6, <2>7 DEF PdInv
  <2> QED  BY <1>1, <1>6, <2>8 DEF NullInv, NextMeets
<1>7. CASE EndMeets
  <2>1. IsCfg(g) /\ Ordered(g, order)  BY <1>1, <1>7, NullLogType DEF EndMeets
  <2>2. PdInv /\ at = 0 /\ ~ changed  BY <1>7 DEF NullInv, EndMeets
  <2>3. PdFinal  BY <2>1, <2>2, PdEnds
  <2>4. UNCHANGED <<g, order, ends, pd>> /\ cd' = [i \in 1 .. N |-> Closure(i)]
    BY <1>7 DEF EndMeets
  <2>5. PdFinal' /\ N' = N /\ \A i : Closure(i)' = Closure(i)  BY <2>3, <2>4, SameGuards
  <2>6. Guards'  BY <2>4, <2>5 DEF Guards
  <2> QED  BY <1>1, <1>7, <2>6 DEF NullInv, EndMeets
<1>8. CASE NullRecord
  <2>1. Guards /\ UNCHANGED <<g, order, ends, pd, cd>>  BY <1>8 DEF NullInv, NullRecord
  <2>2. Guards'  BY <2>1, SameGuardsState
  <2> QED  BY <1>1, <1>8, <2>2 DEF NullInv, NullRecord
<1>9. CASE NullBeginSweeps
  <2>1. Guards /\ UNCHANGED <<g, order, ends, pd, cd, events>>
    BY <1>9 DEF NullInv, NullBeginSweeps
  <2>2. Guards'  BY <2>1, SameGuardsState
  <2>3. N \in Nat \ {0} /\ N' = N  BY <1>1, <1>9, <2>1, NullLogType, SameLog DEF NullBeginSweeps
  <2>4. out' = [i \in 1 .. N |-> {}] /\ at' = 1  BY <1>9 DEF NullBeginSweeps
  <2>5. NullFromWalks(1 .. N)'  BY <2>3, <2>4 DEF NullFromWalks
  <2>6. out' \in [1 .. N -> SUBSET Movers'] /\ at' \in 1 .. N + 1 /\ 1 .. at' - 1 = {}
    BY <2>3, <2>4
  <2>7. NullSweepInv'  BY <2>3, <2>5, <2>6 DEF NullSweepInv
  <2> QED  BY <1>1, <1>9, <2>2, <2>7 DEF NullInv, NullBeginSweeps
<1>10. CASE NullVisit
  <2>1. Guards /\ UNCHANGED <<g, order, ends, pd, cd>>  BY <1>10 DEF NullInv, NullVisit
  <2>2. Guards'  BY <2>1, SameGuardsState
  <2>3. NullSweepInv'  BY <1>10, NullVisitKeeps
  <2> QED  BY <1>1, <1>10, <2>2, <2>3 DEF NullInv, NullVisit
<1>11. CASE NullNextSweep
  <2>1. Guards /\ NullSweepInv /\ UNCHANGED <<g, order, ends, pd, cd, events, out>> /\ at' = 1
    BY <1>11 DEF NullInv, NullNextSweep
  <2>2. Guards'  BY <2>1, SameGuardsState
  <2>3. N \in Nat \ {0}  BY <1>1, <1>11, NullLogType DEF NullNextSweep
  <2>4. N' = N /\ Movers' = Movers /\ (NullFromWalks(1 .. N)' <=> NullFromWalks(1 .. N))
    BY <2>1, SameFlow
  <2>5. at' \in 1 .. N + 1 /\ 1 .. at' - 1 = {}  BY <2>1, <2>3
  <2>6. NullSweepInv'  BY <2>1, <2>4, <2>5 DEF NullSweepInv
  <2> QED  BY <1>1, <1>11, <2>2, <2>6 DEF NullInv, NullNextSweep
<1>12. CASE NullDiagnose
  <2>1. Guards /\ UNCHANGED <<g, order, ends, pd, cd, events>>
    BY <1>12 DEF NullInv, NullDiagnose
  <2>2. Guards'  BY <2>1, SameGuardsState
  <2>3. reports' = RightReports'  BY <1>12, <2>1, NullDiagnoseRight, SameReports
  <2> QED  BY <1>1, <1>12, <2>2, <2>3 DEF NullInv, NullDiagnose
<1>13. CASE UNCHANGED nullVars
  <2>1. UNCHANGED <<g, ends, order, pd, cd, events, phase, out, at, changed, reports>>
    BY <1>13 DEF nullVars
  <2>2. Guards' <=> Guards  BY <2>1, SameGuardsState
  <2>3. /\ N' = N /\ Movers' = Movers /\ (\A i : NullResult(i)' = NullResult(i))
        /\ (NullFromWalks(1 .. N)' <=> NullFromWalks(1 .. N))
    BY <2>1, SameFlow
  <2>4. NullSweepInv' <=> NullSweepInv  BY <2>1, <2>3 DEF NullSweepInv
  <2>5. RightReports' = RightReports  BY <2>1, SameReports
  <2>6. PdInv => PdInv'
    <3>1. /\ N' = N /\ Seeds' = Seeds
          /\ \A i : Succs(i)' = Succs(i) /\ Avoids(i)' = Avoids(i)
      BY <2>1, SameBlocks
    <3>2. PdType => PdType'  BY <2>1, <3>1 DEF PdType
    <3>3. PdSound => PdSound'  BY <2>1, <3>1 DEF PdSound
    <3>4. \A i : Stable(i)' <=> Stable(i)  BY <2>1, <3>1 DEF Stable, Known, PdMeet
    <3>5. PdSwept => PdSwept'  BY <2>1, <3>1, <3>4 DEF PdSwept
    <3> QED  BY <2>1, <3>1, <3>2, <3>3, <3>5 DEF PdInv
  <2> QED  BY <1>1, <2>1, <2>2, <2>4, <2>5, <2>6 DEF NullInv
<1> QED
  BY <1>2, <1>3, <1>4, <1>5, <1>6, <1>7, <1>8, <1>9, <1>10, <1>11, <1>12, <1>13 DEF NullNext

(***************************************************************************)
(* Every state of the null analysis satisfies its invariant: what an entry *)
(* of the post-dominators leaves out can be avoided, a sweep that changes  *)
(* nothing ends with the post-dominators by their definition, and every    *)
(* witness comes from a walk.                                              *)
(***************************************************************************)
THEOREM NullInvHolds == NullSpec => []NullInv
<1> QED  BY NullStarts, NullStep, PTL DEF NullSpec

(***************************************************************************)
(* ComputePostDominators ends with exactly the post-dominators: x is one   *)
(* of i's if and only if no way from i to an end of the program avoids x,  *)
(* for every graph and every set of blocks that end the program.           *)
(***************************************************************************)
THEOREM PostDominatorsHold == NullSpec => []PostDominatorsRight
<1>1. NullInv => PostDominatorsRight
  <2> SUFFICES ASSUME NullInv, phase = "meet", at = 0, ~ changed
               PROVE  DOMAIN pd = 1 .. N /\ PdRight
    BY DEF PostDominatorsRight, PdRight
  <2>1. NullGraph /\ PdInv  BY DEF NullInv
  <2>2. IsCfg(g) /\ Ordered(g, order)  BY <2>1, NullLogType
  <2>3. PdFinal  BY <2>1, <2>2, PdEnds
  <2> QED  BY <2>3 DEF PdFinal
<1> QED  BY <1>1, NullInvHolds, PTL

(***************************************************************************)
(* nulldf::AnalyzeFunction reports exactly the dereferences that a walk    *)
(* reaches from a move that is not read or revived on the way and that no  *)
(* branch edge guards less, each with all those moves, for every graph and *)
(* every log of events.                                                    *)
(***************************************************************************)
THEOREM WitnessesRight == NullSpec => []WitnessesExact
<1>1. NullInv => WitnessesExact
  BY DEF NullInv, WitnessesExact, RightReports, WalkWitnesses
<1> QED  BY <1>1, NullInvHolds, PTL

------------------------------------------------------------------------------
(* nulldf: functions without loops.                                          *)

\* A nonempty set of places has a greatest one.
LEMMA GreatestPlace ==
  ASSUME NEW n \in Nat, NEW T \in SUBSET (1 .. n), T # {}
  PROVE  \E m \in T : \A k \in T : k <= m
<1> DEFINE U == {n - k : k \in T}
<1>1. U \in SUBSET Nat /\ U # {}
  <2>1. PICK k \in T : TRUE  OBVIOUS
  <2>2. n - k \in U  OBVIOUS
  <2>3. \A j \in T : n - j \in Nat  OBVIOUS
  <2> QED  BY <2>2, <2>3
<1>2. PICK u \in U : \A x \in U : u <= x
  <2> HIDE DEF U
  <2> QED  BY <1>1, LeastNumber
<1>3. PICK m \in T : u = n - m  OBVIOUS
<1>4. ASSUME NEW k \in T PROVE k <= m
  <2>1. n - k \in U  OBVIOUS
  <2> QED  BY <1>2, <1>3, <2>1
<1> QED  BY <1>4

LEMMA ForwardEdge ==
  ASSUME IsCfg(g), Ordered(g, order), LoopFree, NEW i, NEW j \in Succs(i)
  PROVE  i \in 1 .. N /\ j \in 1 .. N /\ i < j
<1>1. <<i, j>> \in Edges  BY EdgesType
<1>2. <<i, j>>[1] = i /\ <<i, j>>[2] = j  OBVIOUS
<1> QED  BY <1>1, <1>2, EdgesType DEF LoopFree

\* Without loops every block reaches an end of the program.
LEMMA LoopFreeSeeds ==
  ASSUME IsCfg(g), Ordered(g, order), LoopFree
  PROVE  Seeds = Terminal
<1> DEFINE Bad == (1 .. N) \ ReachesExit
<1>1. N \in Nat \ {0}  BY EdgesType
<1>2. ReachesExit = ReachableFrom(Terminal, Back(Edges))  BY DEF ReachesExit, Back
<1>3. Terminal \subseteq ReachesExit
      /\ \A e \in Edges : e[2] \in ReachesExit => e[1] \in ReachesExit
  BY <1>2, BackReach
<1>4. ASSUME Bad # {} PROVE FALSE
  <2>1. PICK b \in Bad : \A k \in Bad : k <= b
    <3>1. Bad \in SUBSET (1 .. N)  OBVIOUS
    <3> HIDE DEF Bad
    <3> QED  BY <1>1, <1>4, <3>1, GreatestPlace
  <2>2. b \in 1 .. N /\ b \notin Terminal  BY <1>3
  <2>3. PICK s : s \in Succs(b)  BY <2>2 DEF Terminal
  <2>4. s \in 1 .. N /\ b < s  BY <2>3, ForwardEdge
  <2>5. s \notin Bad  BY <1>1, <2>1, <2>2, <2>4
  <2>6. <<b, s>> \in Edges /\ <<b, s>>[1] = b /\ <<b, s>>[2] = s  BY <2>3, EdgesType
  <2> QED  BY <1>3, <2>4, <2>5, <2>6
<1> QED  BY <1>4 DEF Seeds

\* Without loops a block's post-dominators are not before it.
LEMMA LoopFreePd ==
  ASSUME IsCfg(g), Ordered(g, order), LoopFree, PdFinal, NEW i \in 1 .. N, NEW x \in pd[i]
  PROVE  x \in 1 .. N /\ i <= x
<1> DEFINE Bad == {j \in 1 .. N : \E y \in pd[j] : y < j}
<1>1. N \in Nat \ {0}  BY EdgesType
<1>2. x \in 1 .. N  BY DEF PdFinal
<1>3. ASSUME Bad # {} PROVE FALSE
  <2>1. PICK b \in Bad : \A k \in Bad : k <= b
    <3>1. Bad \in SUBSET (1 .. N)  OBVIOUS
    <3> HIDE DEF Bad
    <3> QED  BY <1>1, <1>3, <3>1, GreatestPlace
  <2>2. PICK y \in pd[b] : y < b  OBVIOUS
  <2>3. b \in 1 .. N /\ y \in 1 .. N  BY DEF PdFinal
  <2>4. b \notin Seeds  BY <2>2, <2>3 DEF PdFinal
  <2>5. pd[b] = PdMeet(b, Succs(b))  BY <2>3, <2>4 DEF PdFinal
  <2>6. PICK s : s \in Succs(b)  BY <2>3, <2>4, LoopFreeSeeds DEF Terminal
  <2>7. s \in 1 .. N /\ b < s  BY <2>6, ForwardEdge
  <2>8. y \in pd[s]  BY <2>2, <2>3, <2>5, <2>6 DEF PdMeet
  <2>9. s \in Bad  BY <2>2, <2>3, <2>7, <2>8
  <2> QED  BY <1>1, <2>1, <2>3, <2>7, <2>9
<1>4. i \notin Bad  BY <1>3
<1> QED  BY <1>1, <1>2, <1>4

\* Without loops the blocks whose edges guard m are not behind it.
LEMMA LoopFreeClosure ==
  ASSUME IsCfg(g), Ordered(g, order), LoopFree, PdFinal, NEW m \in 1 .. N, NEW e \in Closure(m)
  PROVE  \E y \in 1 .. m : e \in Direct(y)
<1> DEFINE C == 1 .. m
<1>1. N \in Nat \ {0} /\ Edges \subseteq (1 .. N) \X (1 .. N)  BY EdgesType
<1>2. IsFiniteSet(Depends)
  <2>0. IsFiniteSet(1 .. N)  BY <1>1, FS_Interval
  <2>1. IsFiniteSet((1 .. N) \X (1 .. N))  BY <2>0, FS_Product
  <2>2. Depends \subseteq (1 .. N) \X (1 .. N)  BY DEF Depends
  <2> QED  BY <2>1, <2>2, FS_Subset
<1>3. {m} \subseteq C  BY <1>1
<1>4. ASSUME NEW b \in Depends, b[1] \in C PROVE b[2] \in C
  <2>1. b[1] \in 1 .. N /\ b[2] \in 1 .. N  BY DEF Depends
  <2>2. PICK d \in Direct(b[1]) : d[1] = b[2]  BY DEF Depends
  <2>3. d \in Edges /\ b[1] \in pd[d[2]]  BY <2>2 DEF Direct
  <2>4. d[1] < d[2] /\ d[2] \in 1 .. N  BY <1>1, <2>3 DEF LoopFree
  <2>5. d[2] <= b[1]  BY <2>3, <2>4, LoopFreePd
  <2> QED  BY <1>1, <1>4, <2>1, <2>2, <2>4, <2>5
<1>5. Closed(C, Depends)  BY <1>4 DEF Closed
<1>6. ReachableFrom({m}, Depends) \subseteq C
  <2> HIDE DEF C
  <2> QED  BY <1>2, <1>3, <1>5, ReachLeast
<1>7. PICK y \in ReachableFrom({m}, Depends) : e \in Direct(y)  BY DEF Closure
<1> QED  BY <1>6, <1>7

\* Without loops a walk brings a block the moves of blocks before it only.
LEMMA LoopFreeWalks ==
  ASSUME IsCfg(g), Ordered(g, order), LoopFree, NullEvents, NEW c \in NullWalks
  PROVE  c[2] \subseteq 1 .. c[1] - 1
<1> DEFINE C == {x \in (1 .. N) \X SUBSET Movers : x[2] \subseteq 1 .. x[1] - 1}
<1>1. N \in Nat \ {0}  BY EdgesType
<1>2. <<1, {}>> \in C  BY <1>1
<1>3. ASSUME NEW e \in Edges, NEW w \in SUBSET Movers, <<e[1], w>> \in C
      PROVE  <<e[2], NullTransfer(e[1], w)>> \in C
  <2> DEFINE t == NullTransfer(e[1], w)
  <2>1. e[1] \in 1 .. N /\ e[2] \in 1 .. N /\ e[1] < e[2]  BY EdgesType DEF LoopFree
  <2>2. t \in SUBSET Movers /\ t \subseteq w \cup {e[1]}  BY <2>1, NullTransferType
  <2>3. w \subseteq 1 .. e[1] - 1  BY <1>3
  <2> HIDE DEF t
  <2>4. t \subseteq 1 .. e[2] - 1  BY <1>1, <2>1, <2>2, <2>3
  <2>5. <<e[2], t>> \in C  BY <2>1, <2>2, <2>4
  <2> QED  BY <2>5 DEF t
<1> HIDE DEF C
<1>4. Closed(C, NullWalkSteps)
  <2> SUFFICES ASSUME NEW x \in NullWalkSteps, x[1] \in C PROVE x[2] \in C  BY DEF Closed
  <2>1. PICK e \in Edges, w \in SUBSET Movers :
          x = <<<<e[1], w>>, <<e[2], NullTransfer(e[1], w)>>>>
    BY DEF NullWalkSteps
  <2>2. x[1] = <<e[1], w>> /\ x[2] = <<e[2], NullTransfer(e[1], w)>>  BY <2>1
  <2> QED  BY <1>3, <2>2
<1>5. NullWalks \subseteq C  BY <1>2, <1>4, NullWalkClosed, ReachLeast DEF NullWalks
<1> QED  BY <1>5 DEF C

\* If from the successor s of m an end of the program can be reached without i,
\* and i is not m, then i does not post-dominate m.
LEMMA SkipsAvoid ==
  ASSUME IsCfg(g), Ordered(g, order), PdFinal,
         NEW m \in 1 .. N, NEW i \in 1 .. N, NEW s \in Succs(m) \ {i}, m # i, m \notin Terminal,
         ReachableFrom({s}, Avoiding(i)) \cap Terminal # {}
  PROVE  i \notin pd[m]
<1>1. Avoiding(i) \in SUBSET Edges  BY DEF Avoiding, Running
<1>2. \A j, k : <<j, k>> \in Avoiding(i) <=> k \in Succs(j) /\ j \notin Terminal /\ j # i /\ k # i
  BY EdgesType DEF Avoiding, Running
<1>3. s \in Avoids(i)
  <2> SUFFICES ASSUME s \notin Avoids(i) PROVE FALSE  OBVIOUS
  <2> DEFINE C == {y : y \in {z \in 1 .. N : z # i /\ z \notin Avoids(i)}}
  <2>1. s \in 1 .. N  BY EdgesType
  <2>2. {s} \subseteq C  BY <2>1
  <2>3. ASSUME NEW e \in Avoiding(i), e[1] \in C PROVE e[2] \in C
    <3>1. e = <<e[1], e[2]>> /\ e[2] \in 1 .. N  BY <1>1, EdgesType
    <3>2. e[2] \in Succs(e[1]) /\ e[1] \notin Terminal /\ e[1] # i /\ e[2] # i  BY <1>2, <3>1
    <3>3. e[2] \notin Avoids(i)  BY <2>3, <3>2, AvoidsSteps
    <3> QED  BY <3>1, <3>2, <3>3
  <2> HIDE DEF C
  <2>4. ReachableFrom({s}, Avoiding(i)) \subseteq C  BY <1>1, <2>2, <2>3, ForwardReach
  <2>5. PICK t \in Terminal : t \in C  BY <2>4
  <2>6. t \in Seeds /\ t # i /\ t \notin Avoids(i)  BY <2>5, SeedsType DEF C
  <2> QED  BY <2>6, AvoidsSteps
<1>4. m \in Avoids(i)  BY <1>3, AvoidsSteps
<1>5. {j \in 1 .. N : i \in pd[j]} = {i} \cup (1 .. N \ Avoids(i))  BY DEF PdFinal, PdRight
<1> QED  BY <1>4, <1>5

\* On a way from m to i there is a branch that i depends on, if i does not
\* post-dominate m.
LEMMA BranchBetween ==
  ASSUME IsCfg(g), Ordered(g, order), LoopFree, PdFinal,
         NEW m \in 1 .. N, NEW i \in 1 .. N, i \in ReachableFrom({m}, Running), i \notin pd[m]
  PROVE  \E e \in Direct(i) : m < e[2]
<1>1. N \in Nat \ {0}  BY EdgesType
<1> DEFINE Q == {y \in 1 .. N : i \notin pd[y] /\ m <= y}
<1>2. i \in pd[i]  BY DEF PdFinal
<1>3. PICK e \in Running : e[1] \in Q /\ e[2] \notin Q
  <2> SUFFICES ASSUME \A e \in Running : e[1] \in Q => e[2] \in Q PROVE FALSE  OBVIOUS
  <2>1. {m} \subseteq Q  OBVIOUS
  <2>2. Running \in SUBSET Edges  BY DEF Running
  <2>3. i \notin Q  BY <1>2
  <2> HIDE DEF Q
  <2>4. ReachableFrom({m}, Running) \subseteq Q  BY <2>1, <2>2, ForwardReach
  <2> QED  BY <2>3, <2>4
<1> DEFINE v == e[1]
           w == e[2]
<1>4. e \in Edges /\ v \notin Terminal /\ e = <<v, w>> /\ v \in 1 .. N /\ w \in 1 .. N
  BY <1>3, EdgesType DEF Running
<1>5. v < w  BY <1>4 DEF LoopFree
<1>6. i \notin pd[v] /\ m <= v  BY <1>3
<1>7. m < w /\ i \in pd[w]  BY <1>1, <1>3, <1>4, <1>5, <1>6
<1>8. pd[v] = PdMeet(v, Succs(v))  BY <1>4, LoopFreeSeeds DEF PdFinal
<1>9. PICK s \in Succs(v) : i \notin pd[s]  BY <1>6, <1>8 DEF PdMeet
<1>10. s \in 1 .. N /\ s # w /\ <<v, s>> \in Edges  BY <1>7, <1>9, EdgesType
<1>11. Len(g[order[v]]) >= 2
  <2>1. order[w] \in Range(g[order[v]])  BY <1>4 DEF Edges
  <2>2. order[s] \in Range(g[order[v]])  BY <1>10 DEF Edges
  <2>3. order[w] # order[s] /\ order[v] \in Blocks(g)  BY <1>4, <1>10 DEF Ordered, N
  <2>4. g[order[v]] \in Seq(2 .. Len(g))  BY <2>3, CfgType DEF Blocks
  <2> DEFINE q == g[order[v]]
  <2>5. PICK a \in DOMAIN q : q[a] = order[w]  BY <2>1 DEF Range
  <2>6. PICK b \in DOMAIN q : q[b] = order[s]  BY <2>2 DEF Range
  <2>7. a # b  BY <2>3, <2>5, <2>6
  <2>8. DOMAIN q = 1 .. Len(q) /\ Len(q) \in Nat  BY <2>4
  <2> HIDE DEF q
  <2>9. Len(q) >= 2  BY <2>5, <2>6, <2>7, <2>8
  <2> QED  BY <2>9 DEF q
<1>12. e \in Direct(i)  BY <1>4, <1>6, <1>7, <1>11 DEF Direct
<1> QED  BY <1>7, <1>12

\* What the program goes on to from m can be reached from m.
LEMMA ReachOnward ==
  ASSUME IsCfg(g), Ordered(g, order), NEW m \in (1 .. N) \ Terminal
  PROVE  ReachableFrom(Succs(m), Running) \subseteq ReachableFrom({m}, Running)
<1> DEFINE C == ReachableFrom({m}, Running)
<1>1. Running \in SUBSET Edges  BY DEF Running
<1>2. IsFiniteSet(Running)
  <2>1. IsFiniteSet(1 .. N)  BY EdgesType, FS_Interval
  <2>2. IsFiniteSet((1 .. N) \X (1 .. N))  BY <2>1, FS_Product
  <2> QED  BY <1>1, <2>2, EdgesType, FS_Subset
<1>3. m \in C /\ \A e \in Running : e[1] \in C => e[2] \in C
  BY <1>2, ReachClosed DEF Closed
<1>4. Succs(m) \subseteq C
  <2> SUFFICES ASSUME NEW s \in Succs(m) PROVE s \in C  OBVIOUS
  <2>1. <<m, s>> \in Edges /\ <<m, s>>[1] = m /\ <<m, s>>[2] = s  BY EdgesType
  <2>2. <<m, s>> \in Running  BY <2>1 DEF Running
  <2> HIDE DEF C
  <2> QED  BY <1>3, <2>1, <2>2
<1> HIDE DEF C
<1>5. ReachableFrom(Succs(m), Running) \subseteq C  BY <1>1, <1>3, <1>4, ForwardReach
<1> QED  BY <1>5 DEF C

LEMMA WitnessUnskippable ==
  ASSUME NullGraph, Guards, phase = "done", LoopFree, NEW d \in Dereferences,
         NEW m \in WalkWitnesses(d)
  PROVE  ~ Skippable(m, d)
<1> SUFFICES ASSUME Skippable(m, d) PROVE FALSE  OBVIOUS
<1> DEFINE i == d[1]
           k == d[2] - 1
<1>1. IsCfg(g) /\ Ordered(g, order) /\ NullEvents /\ N \in Nat \ {0}  BY NullLogType
<1>2. PdFinal /\ cd = [j \in 1 .. N |-> Closure(j)]  BY DEF Guards
<1>3. i \in 1 .. N /\ k \in 0 .. Len(EventsOf(i))
  <2>1. d[1] \in 1 .. N /\ d[2] \in 1 .. MaxEvents /\ d[2] <= Len(EventsOf(d[1]))
    BY DEF Dereferences
  <2>2. EventsOf(i) \in Seq(NullKinds)  BY <1>1, <2>1 DEF NullEvents
  <2> QED  BY <2>1, <2>2, GraphsAssumption
<1>4. PICK c \in NullWalks : c[1] = i /\ m \in Witnesses(d, c[2])  BY DEF WalkWitnesses
<1>5. c[2] \in SUBSET Movers /\ c[2] \subseteq 1 .. i - 1
  BY <1>1, <1>4, NullWalkClosed, LoopFreeWalks
<1>6. m \in NullReplay(i, c[2], k) /\ cd[i] \subseteq cd[m]
  BY <1>4 DEF Witnesses, Unguarded
<1>7. m \in 1 .. N
  BY <1>1, <1>3, <1>5, <1>6, NullReplaySteps, MoversType
<1>8. PICK s \in Succs(m) \ {i} : ReachableFrom({s}, Avoiding(i)) \cap Terminal # {}
  BY DEF Skippable
<1>9. m \notin Terminal /\ i \in ReachableFrom({m}, Running)
  <2>1. m \notin Terminal /\ i \in ReachableFrom(Succs(m), Running)  BY DEF Skippable
  <2> QED  BY <1>1, <1>7, <2>1, ReachOnward
<1>10. CASE m = i
  <2>1. \A l \in 1 .. k : EventsOf(i)[l] # "SetNull"  BY <1>10 DEF Skippable
  <2>2. NullFate(i, k, m)  BY <1>1, <1>3, NullFates
  <2> HIDE DEF k
  <2>3. m \in c[2]  BY <1>5, <1>6, <2>1, <2>2 DEF NullFate
  <2> QED  BY <1>3, <1>5, <1>10, <2>3
<1>11. CASE m # i
  <2>1. i \notin pd[m]  BY <1>1, <1>2, <1>3, <1>7, <1>8, <1>9, <1>11, SkipsAvoid
  <2>2. PICK e \in Direct(i) : m < e[2]
    BY <1>1, <1>2, <1>3, <1>7, <1>9, <2>1, BranchBetween
  <2>3. Direct(i) \subseteq Closure(i)
    <3>1. Depends \subseteq (1 .. N) \X (1 .. N) /\ IsFiniteSet(1 .. N)
      BY <1>1, FS_Interval DEF Depends
    <3>2. IsFiniteSet(Depends)
      <4>1. IsFiniteSet((1 .. N) \X (1 .. N))  BY <3>1, FS_Product
      <4> QED  BY <3>1, <4>1, FS_Subset
    <3>3. {i} \subseteq ReachableFrom({i}, Depends)  BY <3>2, ReachClosed
    <3> QED  BY <3>3 DEF Closure
  <2>4. Closure(i) \subseteq Closure(m)  BY <1>2, <1>3, <1>6, <1>7
  <2>5. PICK y \in 1 .. m : e \in Direct(y)
    BY <1>1, <1>2, <1>7, <2>2, <2>3, <2>4, LoopFreeClosure
  <2>6. y \in pd[e[2]] /\ e[2] \in 1 .. N  BY <1>1, <2>5, EdgesType DEF Direct
  <2>7. e[2] <= y  BY <1>1, <1>2, <2>6, LoopFreePd
  <2> QED  BY <1>1, <1>7, <2>2, <2>5, <2>6, <2>7
<1> QED  BY <1>10, <1>11

(***************************************************************************)
(* In a function without loops nothing is reported that could be skipped   *)
(* after the move ("such a decision necessarily suppresses the report").   *)
(***************************************************************************)
THEOREM ReportsUnskippable == NullSpec => []LoopFreeNothingSkippable
<1>1. NullInv => LoopFreeNothingSkippable
  <2> SUFFICES ASSUME NullInv, LoopFree, NEW r \in reports, NEW m \in r[2]
               PROVE  ~ Skippable(m, r[1])
    BY DEF LoopFreeNothingSkippable, NothingSkippable
  <2>1. phase = "done" /\ NullGraph /\ Guards /\ reports = RightReports  BY DEF NullInv
  <2>2. PICK d \in Dereferences : r = <<d, WalkWitnesses(d)>>  BY <2>1 DEF RightReports
  <2>3. r[1] = d /\ m \in WalkWitnesses(d)  BY <2>2
  <2> QED  BY <2>1, <2>3, WitnessUnskippable
<1> QED  BY <1>1, NullInvHolds, PTL
==============================================================================
