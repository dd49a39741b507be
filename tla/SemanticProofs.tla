--------------------------- MODULE SemanticProofs ---------------------------
(***************************************************************************)
(* What the predicate evaluator and the compiler of conditions compute,    *)
(* for all predicate trees and conditions.  Both are recursive functions:  *)
(* the first part shows that a definition by recursion on a rank defines a *)
(* function, and gives induction on a rank.                                *)
(***************************************************************************)
EXTENDS Semantic, SequenceTheorems, WellFoundedInduction, TLAPS

\* A non-empty set of numbers has a least one.
LEMMA LeastNumber ==
    ASSUME NEW T \in SUBSET Nat, T # {}
    PROVE  \E m \in T : \A k \in T : m <= k
<1> DEFINE R == OpToRel(<, Nat)
<1>1. IsWellFoundedOn(R, Nat)
  BY NatLessThanWellFounded
<1>2. R = {ss \in Nat \X Nat : ss[1] < ss[2]}
  BY DEF OpToRel
<1> HIDE DEF R
<1>3. PICK x \in T : \A y \in T : ~ (<<y, x>> \in R)
  BY <1>1, WFMin
<1>4. \A y \in Nat : ~ (<<y, x>> \in R) => x <= y
  BY <1>2
<1> QED
  BY <1>3, <1>4

\* Every element of S has the property of those in T when an element does as soon as
\* the ones of smaller rank do.
LEMMA RankInduction ==
    ASSUME NEW S, NEW rank \in [S -> Nat], NEW T,
           \A x \in S : (\A y \in S : rank[y] < rank[x] => y \in T) => x \in T
    PROVE  S \subseteq T
<1> SUFFICES ASSUME NEW z \in S, z \notin T PROVE FALSE
  OBVIOUS
<1> DEFINE N == {rank[x] : x \in S \ T}
<1>0. \A x \in S : rank[x] \in Nat
  OBVIOUS
<1>1. N \in SUBSET Nat
  BY <1>0
<1>2. rank[z] \in N
  OBVIOUS
<1> HIDE DEF N
<1>3. PICK k \in N : \A j \in N : k <= j
  BY <1>1, <1>2, LeastNumber
<1>4. PICK x \in S \ T : rank[x] = k
  BY <1>3 DEF N
<1>5. \A y \in S : rank[y] < rank[x] => y \in T
  <2> TAKE y \in S
  <2> HAVE rank[y] < rank[x]
  <2>1. y \notin T => rank[y] \in N
    BY DEF N
  <2>2. rank[y] \in Nat /\ rank[x] \in Nat
    BY <1>0, <1>4
  <2> QED
    BY <1>3, <1>4, <2>1, <2>2
<1> QED
  BY <1>4, <1>5

\* F is a step of a definition by recursion on rank: a function on D with values in V
\* to the next, whose value at x depends on those at elements of smaller rank only.
Recursion(D, V, rank, F) ==
    /\ rank \in [D -> Nat]
    /\ F \in [[D -> V] -> [D -> V]]
    /\ \A f, g \in [D -> V], x \in D :
        (\A y \in D : rank[y] < rank[x] => f[y] = g[y]) => F[f][x] = F[g][x]

\* f satisfies the definition below n.
Solves(D, V, rank, F, n, f) ==
    f \in [D -> V] /\ \A x \in D : rank[x] < n => F[f][x] = f[x]

\* Below m, what satisfies the definition is determined by it.
LEMMA SolutionsAgree ==
    ASSUME NEW D, NEW V, NEW rank, NEW F, Recursion(D, V, rank, F),
           NEW m \in Nat, NEW f, NEW g,
           Solves(D, V, rank, F, m, f), Solves(D, V, rank, F, m, g)
    PROVE  \A x \in D : rank[x] < m => f[x] = g[x]
<1> DEFINE T == {x \in D : rank[x] < m => f[x] = g[x]}
<1>1. rank \in [D -> Nat] /\ \A x \in D : rank[x] \in Nat
  BY DEF Recursion
<1>2. ASSUME NEW x \in D, \A y \in D : rank[y] < rank[x] => y \in T, rank[x] < m
      PROVE  f[x] = g[x]
  <2>1. \A y \in D : rank[y] < rank[x] => f[y] = g[y]
    BY <1>1, <1>2
  <2>2. F[f][x] = F[g][x]
    BY <2>1 DEF Recursion, Solves
  <2> QED
    BY <1>2, <2>2 DEF Solves
<1>3. \A x \in D : (\A y \in D : rank[y] < rank[x] => y \in T) => x \in T
  BY <1>2
<1> HIDE DEF T
<1>4. D \subseteq T
  BY <1>1, <1>3, RankInduction
<1> QED
  BY <1>4 DEF T

\* Below any number the definition can be satisfied.
LEMMA SolvedBelow ==
    ASSUME NEW D, NEW V, NEW rank, NEW F, Recursion(D, V, rank, F), [D -> V] # {}
    PROVE  \A n \in Nat : \E f : Solves(D, V, rank, F, n, f)
<1> DEFINE T == {n \in Nat : ~\E f : Solves(D, V, rank, F, n, f)}
<1> SUFFICES ASSUME T # {} PROVE FALSE
  OBVIOUS
<1>0. \A x \in D : rank[x] \in Nat
  BY DEF Recursion
<1>1. PICK n \in T : \A k \in T : n <= k
  BY LeastNumber
<1>2. n # 0
  BY <1>0 DEF Solves
<1>3. n - 1 \in Nat /\ n - 1 \notin T
  BY <1>1, <1>2
<1>4. PICK f : Solves(D, V, rank, F, n - 1, f)
  BY <1>3
<1> DEFINE g == F[f]
<1>5. f \in [D -> V] /\ g \in [D -> V]
  BY <1>4 DEF Recursion, Solves
<1>6. ASSUME NEW x \in D, rank[x] < n PROVE F[g][x] = g[x]
  <2>1. \A y \in D : rank[y] < rank[x] => rank[y] < n - 1
    BY <1>0, <1>6
  <2>2. \A y \in D : rank[y] < rank[x] => f[y] = g[y]
    BY <1>4, <2>1 DEF Solves
  <2> HIDE DEF g
  <2>3. F[f][x] = F[g][x]
    BY <1>5, <2>2 DEF Recursion
  <2> QED
    BY <2>3 DEF g
<1>7. Solves(D, V, rank, F, n, g)
  BY <1>5, <1>6 DEF Solves
<1> QED
  BY <1>1, <1>7

\* A definition by recursion defines a function.
LEMMA FixedPoint ==
    ASSUME NEW D, NEW V, NEW rank, NEW F, Recursion(D, V, rank, F), [D -> V] # {}
    PROVE  \E f \in [D -> V] : F[f] = f
<1> DEFINE part(n) == CHOOSE f : Solves(D, V, rank, F, n, f)
<1>0. \A x \in D : rank[x] \in Nat
  BY DEF Recursion
<1>1. \A n \in Nat : Solves(D, V, rank, F, n, part(n))
  BY SolvedBelow
<1> HIDE DEF part
<1> DEFINE f == [x \in D |-> part(rank[x] + 1)[x]]
<1>2. f \in [D -> V]
  BY <1>0, <1>1 DEF Solves
<1>3. ASSUME NEW x \in D PROVE F[f][x] = f[x]
  <2> DEFINE p == part(rank[x] + 1)
  <2>1. Solves(D, V, rank, F, rank[x] + 1, p)
    BY <1>0, <1>1
  <2>2. ASSUME NEW y \in D, rank[y] < rank[x] PROVE p[y] = f[y]
    <3> DEFINE q == part(rank[y] + 1)
               m == rank[y] + 1
    <3>1. Solves(D, V, rank, F, m, q)
      BY <1>0, <1>1
    <3>2. m \in Nat /\ rank[y] < m /\ m < rank[x] + 1 /\ rank[x] \in Nat
      BY <1>0, <2>2
    <3>3. f[y] = q[y]
      OBVIOUS
    <3> HIDE DEF p, q, m, f
    <3>4. Solves(D, V, rank, F, m, p)
      BY <1>0, <2>1, <3>2 DEF Solves
    <3>5. \A u \in D : rank[u] < m => p[u] = q[u]
      BY <3>1, <3>2, <3>4, SolutionsAgree
    <3> QED
      BY <3>2, <3>3, <3>5
  <2>3. rank[x] < rank[x] + 1
    BY <1>0
  <2>4. f[x] = p[x]
    OBVIOUS
  <2> HIDE DEF p, f
  <2>5. F[p][x] = F[f][x]
    BY <1>2, <2>1, <2>2 DEF Recursion, Solves
  <2>6. F[p][x] = p[x]
    BY <2>1, <2>3 DEF Solves
  <2> QED
    BY <2>4, <2>5, <2>6
<1> HIDE DEF f
<1>4. F[f] \in [D -> V]
  BY <1>2 DEF Recursion
<1>5. F[f] = f
  BY <1>2, <1>3, <1>4
<1> QED
  BY <1>2, <1>5

-----------------------------------------------------------------------------
(* The evaluator.                                                          *)

\* A tree is a leaf, or its subtrees are trees of smaller height.
LEMMA TreeShape ==
    ASSUME NEW p \in Preds
    PROVE  /\ Height \in [Preds -> Nat]
           /\ p.node \in {"Comparison", "And", "Or", "Not"}
           /\ p.node # "Comparison" =>
                \A i \in DOMAIN p.kids : p.kids[i] \in Preds /\ Height[p.kids[i]] < Height[p]
           /\ p.node = "Not" => 1 \in DOMAIN p.kids
           /\ p # NoPred
  BY PredConstants DEF NoPred

\* eval_tree is what its arms say.
LEMMA EvalTree ==
    ASSUME NEW payload, NEW zones, NEW p \in Preds
    PROVE  LET eval(q) == eval_tree(q, payload, zones)
           IN  /\ eval(p) \in BOOLEAN
               /\ p.node = "Comparison" => (eval(p) <=> compares(p, payload, zones))
               /\ p.node = "And" => (eval(p) <=> \A i \in DOMAIN p.kids : eval(p.kids[i]))
               /\ p.node = "Or" => (eval(p) <=> \E i \in DOMAIN p.kids : eval(p.kids[i]))
               /\ p.node = "Not" => (eval(p) <=> ~eval(p.kids[1]))
<1> DEFINE F == [f \in [Preds -> BOOLEAN] |-> [q \in Preds |-> eval_node(f, q, payload, zones)]]
           e == CHOOSE f : f = [q \in Preds |-> eval_node(f, q, payload, zones)]
<1>1. ASSUME NEW q \in Preds, NEW f PROVE eval_node(f, q, payload, zones) \in BOOLEAN
  BY TreeShape DEF eval_node, compares
<1>2. ASSUME NEW f \in [Preds -> BOOLEAN], NEW g \in [Preds -> BOOLEAN], NEW q \in Preds,
             \A y \in Preds : Height[y] < Height[q] => f[y] = g[y]
      PROVE  eval_node(f, q, payload, zones) = eval_node(g, q, payload, zones)
  <2>1. q.node # "Comparison" => \A i \in DOMAIN q.kids : f[q.kids[i]] = g[q.kids[i]]
    BY <1>2, TreeShape
  <2> QED
    BY <2>1, TreeShape DEF eval_node
<1>3. Recursion(Preds, BOOLEAN, Height, F)
  <2>1. F \in [[Preds -> BOOLEAN] -> [Preds -> BOOLEAN]]
    BY <1>1
  <2>2. ASSUME NEW f \in [Preds -> BOOLEAN], NEW g \in [Preds -> BOOLEAN], NEW q \in Preds,
               \A y \in Preds : Height[y] < Height[q] => f[y] = g[y]
        PROVE  F[f][q] = F[g][q]
    BY <1>2, <2>2
  <2> QED
    BY <2>1, <2>2, PredConstants DEF Recursion
<1>4. PICK f \in [Preds -> BOOLEAN] : F[f] = f
  <2>1. [q \in Preds |-> TRUE] \in [Preds -> BOOLEAN]
    OBVIOUS
  <2>2. [Preds -> BOOLEAN] # {}
    BY <2>1
  <2> HIDE DEF F
  <2> QED
    BY <1>3, <2>2, FixedPoint
<1>5. f = [q \in Preds |-> eval_node(f, q, payload, zones)]
  BY <1>4
<1>6. e = [q \in Preds |-> eval_node(e, q, payload, zones)]
  BY <1>5
<1>7. \A q : eval_tree(q, payload, zones) = e[q]
  BY DEF eval_tree
<1> HIDE DEF e
<1>8. \A q \in Preds : eval_tree(q, payload, zones) = eval_node(e, q, payload, zones)
  BY <1>6, <1>7
<1> QED
  BY <1>1, <1>7, <1>8, TreeShape DEF eval_node

Verdicts == {"holds", "fails", "unknown"}

\* Where the reference holds, and that it has a verdict on every tree.
LEMMA MeaningTree ==
    ASSUME NEW payload, NEW zones, NEW p \in Preds
    PROVE  LET mean(q) == Meaning(q, payload, zones)
           IN  /\ mean(p) \in Verdicts
               /\ p.node = "Comparison" => mean(p) = MeaningOfComparison(p, payload, zones)
               /\ p.node = "And" =>
                    (mean(p) = "holds" <=> \A i \in DOMAIN p.kids : mean(p.kids[i]) = "holds")
               /\ p.node = "Or" =>
                    (mean(p) = "holds" <=> \E i \in DOMAIN p.kids : mean(p.kids[i]) = "holds")
<1> DEFINE Step(f, q) == MeaningOfNode(f, q, payload, zones)
           F == [f \in [Preds -> Verdicts] |-> [q \in Preds |-> Step(f, q)]]
           m == CHOOSE f : f = [q \in Preds |-> Step(f, q)]
<1>1. ASSUME NEW q \in Preds, NEW f PROVE Step(f, q) \in Verdicts
  BY TreeShape DEF MeaningOfNode, MeaningOfComparison, Verdict, EveryOf, SomeOf, Opposite, Verdicts
<1>2. ASSUME NEW f \in [Preds -> Verdicts], NEW g \in [Preds -> Verdicts], NEW q \in Preds,
             \A y \in Preds : Height[y] < Height[q] => f[y] = g[y]
      PROVE  Step(f, q) = Step(g, q)
  <2>1. q.node # "Comparison" => \A i \in DOMAIN q.kids : f[q.kids[i]] = g[q.kids[i]]
    BY <1>2, TreeShape
  <2>2. q.node # "Comparison" =>
            {f[q.kids[i]] : i \in DOMAIN q.kids} = {g[q.kids[i]] : i \in DOMAIN q.kids}
    BY <2>1
  <2> QED
    BY <2>1, <2>2, TreeShape DEF MeaningOfNode
<1>3. Recursion(Preds, Verdicts, Height, F)
  <2> HIDE DEF Step
  <2>1. F \in [[Preds -> Verdicts] -> [Preds -> Verdicts]]
    BY <1>1
  <2>2. ASSUME NEW f \in [Preds -> Verdicts], NEW g \in [Preds -> Verdicts], NEW q \in Preds,
               \A y \in Preds : Height[y] < Height[q] => f[y] = g[y]
        PROVE  F[f][q] = F[g][q]
    BY <1>2, <2>2
  <2> QED
    BY <2>1, <2>2, PredConstants DEF Recursion
<1>4. PICK f \in [Preds -> Verdicts] : F[f] = f
  <2>1. [q \in Preds |-> "holds"] \in [Preds -> Verdicts]
    BY DEF Verdicts
  <2>2. [Preds -> Verdicts] # {}
    BY <2>1
  <2> HIDE DEF F
  <2> QED
    BY <1>3, <2>2, FixedPoint
<1>5. f = [q \in Preds |-> Step(f, q)]
  BY <1>4
<1>6. m = [q \in Preds |-> Step(m, q)]
  BY <1>5
<1>7. \A q \in Preds : Meaning(q, payload, zones) = m[q]
  BY TreeShape DEF Meaning
<1> HIDE DEF m
<1>8. \A q \in Preds : Meaning(q, payload, zones) = Step(m, q)
  BY <1>6, <1>7
<1>9. p.node # "Comparison" => \A i \in DOMAIN p.kids : Meaning(p.kids[i], payload, zones) = m[p.kids[i]]
  BY <1>7, TreeShape
<1>10. p.node # "Comparison" => \A i \in DOMAIN p.kids : m[p.kids[i]] \in Verdicts
  BY <1>1, <1>8, <1>9, TreeShape
<1>11. Meaning(p, payload, zones) = Step(m, p) /\ Step(m, p) \in Verdicts
  BY <1>1, <1>8
<1>12. CASE p.node = "Comparison"
  BY <1>11, <1>12 DEF MeaningOfNode
<1>13. CASE p.node = "And"
  <2>1. Step(m, p) = EveryOf({m[p.kids[i]] : i \in DOMAIN p.kids})
    BY <1>13 DEF MeaningOfNode
  <2>2. EveryOf({m[p.kids[i]] : i \in DOMAIN p.kids}) = "holds" <=>
            \A i \in DOMAIN p.kids : m[p.kids[i]] = "holds"
    BY <1>10, <1>13 DEF EveryOf, Verdicts
  <2> QED
    BY <1>9, <1>11, <1>13, <2>1, <2>2
<1>14. CASE p.node = "Or"
  <2>1. Step(m, p) = SomeOf({m[p.kids[i]] : i \in DOMAIN p.kids})
    BY <1>14 DEF MeaningOfNode
  <2>2. SomeOf({m[p.kids[i]] : i \in DOMAIN p.kids}) = "holds" <=>
            \E i \in DOMAIN p.kids : m[p.kids[i]] = "holds"
    BY <1>14 DEF SomeOf
  <2> QED
    BY <1>9, <1>11, <1>14, <2>1, <2>2
<1>15. CASE p.node = "Not"
  BY <1>11, <1>15
<1> QED
  BY <1>12, <1>13, <1>14, <1>15, TreeShape

\* NotFree is what it says.
LEMMA NotFreeTree ==
    ASSUME NEW p \in Preds
    PROVE  /\ NotFree(p) \in BOOLEAN
           /\ NotFree(p) <=>
                /\ p.node # "Not"
                /\ p.node \in {"And", "Or"} => \A i \in DOMAIN p.kids : NotFree(p.kids[i])
<1> DEFINE Step(f, q) ==
                /\ q.node # "Not"
                /\ q.node \in {"And", "Or"} => \A i \in DOMAIN q.kids : f[q.kids[i]]
           F == [f \in [Preds -> BOOLEAN] |-> [q \in Preds |-> Step(f, q)]]
           n == CHOOSE f : f = [q \in Preds |-> Step(f, q)]
<1>1. ASSUME NEW f \in [Preds -> BOOLEAN], NEW g \in [Preds -> BOOLEAN], NEW q \in Preds,
             \A y \in Preds : Height[y] < Height[q] => f[y] = g[y]
      PROVE  Step(f, q) = Step(g, q)
  <2>1. q.node # "Comparison" => \A i \in DOMAIN q.kids : f[q.kids[i]] = g[q.kids[i]]
    BY <1>1, TreeShape
  <2> QED
    BY <2>1, TreeShape
<1>2. Recursion(Preds, BOOLEAN, Height, F)
  <2>1. \A f, q : Step(f, q) \in BOOLEAN
    OBVIOUS
  <2> HIDE DEF Step
  <2>2. F \in [[Preds -> BOOLEAN] -> [Preds -> BOOLEAN]]
    BY <2>1
  <2>3. ASSUME NEW f \in [Preds -> BOOLEAN], NEW g \in [Preds -> BOOLEAN], NEW q \in Preds,
               \A y \in Preds : Height[y] < Height[q] => f[y] = g[y]
        PROVE  F[f][q] = F[g][q]
    BY <1>1, <2>3
  <2> QED
    BY <2>2, <2>3, PredConstants DEF Recursion
<1>3. PICK f \in [Preds -> BOOLEAN] : F[f] = f
  <2>1. [q \in Preds |-> TRUE] \in [Preds -> BOOLEAN]
    OBVIOUS
  <2>2. [Preds -> BOOLEAN] # {}
    BY <2>1
  <2> HIDE DEF F
  <2> QED
    BY <1>2, <2>2, FixedPoint
<1>4. f = [q \in Preds |-> Step(f, q)]
  BY <1>3
<1>5. n = [q \in Preds |-> Step(n, q)]
  BY <1>4
<1>6. \A q \in Preds : NotFree(q) = (q = NoPred \/ n[q])
  BY DEF NotFree
<1> HIDE DEF n
<1>7. \A q \in Preds : NotFree(q) <=> n[q]
  BY <1>6, TreeShape
<1>8. \A q \in Preds : n[q] = Step(n, q)
  BY <1>5
<1>9. p.node # "Comparison" => \A i \in DOMAIN p.kids : NotFree(p.kids[i]) <=> n[p.kids[i]]
  BY <1>7, TreeShape
<1> QED
  BY <1>6, <1>7, <1>8, <1>9, TreeShape

\* Without Not, evaluation is true exactly where the reference holds.
LEMMA EvalAgrees ==
    ASSUME NEW payload, NEW zones, NEW pred \in Preds \cup {NoPred}, NotFree(pred)
    PROVE  eval_predicate(pred, payload, zones) <=> Meaning(pred, payload, zones) = "holds"
<1> DEFINE eval(q) == eval_tree(q, payload, zones)
           mean(q) == Meaning(q, payload, zones)
           T == {q \in Preds : NotFree(q) => (eval(q) <=> mean(q) = "holds")}
<1>1. ASSUME NEW q \in Preds, \A y \in Preds : Height[y] < Height[q] => y \in T, NotFree(q)
      PROVE  eval(q) <=> mean(q) = "holds"
  <2>1. q.node # "Comparison" => \A i \in DOMAIN q.kids :
            NotFree(q.kids[i]) => (eval(q.kids[i]) <=> mean(q.kids[i]) = "holds")
    BY <1>1, TreeShape
  <2>2. q.node # "Not" /\ (q.node \in {"And", "Or"} => \A i \in DOMAIN q.kids : NotFree(q.kids[i]))
    BY <1>1, NotFreeTree
  <2>3. CASE q.node = "Comparison"
    <3>1. (eval(q) <=> compares(q, payload, zones)) /\ mean(q) = MeaningOfComparison(q, payload, zones)
      BY <2>3, EvalTree, MeaningTree
    <3>2. compares(q, payload, zones) <=> MeaningOfComparison(q, payload, zones) = "holds"
      <4> DEFINE l == resolve_operand(q.lhs, payload)
                 r == resolve_operand(q.rhs, payload)
                 c == eval_comparison(q.op, l, r, zones)
      <4>1. compares(q, payload, zones) <=> (l # NoValue /\ r # NoValue /\ c)
        BY DEF compares
      <4>2. MeaningOfComparison(q, payload, zones) = Verdict(NoValue \notin {l, r}, c)
        BY DEF MeaningOfComparison
      <4> HIDE DEF l, r, c
      <4> QED
        BY <4>1, <4>2 DEF Verdict
    <3> QED
      BY <3>1, <3>2
  <2>4. CASE q.node = "And"
    <3>1. eval(q) <=> \A i \in DOMAIN q.kids : eval(q.kids[i])
      BY <2>4, EvalTree
    <3>2. mean(q) = "holds" <=> \A i \in DOMAIN q.kids : mean(q.kids[i]) = "holds"
      BY <2>4, MeaningTree
    <3> QED
      BY <2>1, <2>2, <2>4, <3>1, <3>2
  <2>5. CASE q.node = "Or"
    <3>1. eval(q) <=> \E i \in DOMAIN q.kids : eval(q.kids[i])
      BY <2>5, EvalTree
    <3>2. mean(q) = "holds" <=> \E i \in DOMAIN q.kids : mean(q.kids[i]) = "holds"
      BY <2>5, MeaningTree
    <3> QED
      BY <2>1, <2>2, <2>5, <3>1, <3>2
  <2> QED
    BY <2>2, <2>3, <2>4, <2>5, TreeShape
<1>2. \A q \in Preds : (\A y \in Preds : Height[y] < Height[q] => y \in T) => q \in T
  BY <1>1
<1> HIDE DEF T
<1>3. Preds \subseteq T
  BY <1>2, PredConstants, RankInduction
<1>4. CASE pred \in Preds
  <2>1. eval(pred) <=> mean(pred) = "holds"
    BY <1>3, <1>4 DEF T
  <2> QED
    BY <1>4, <2>1, TreeShape DEF eval_predicate
<1>5. CASE pred = NoPred
  BY <1>5 DEF eval_predicate, Meaning, NoPred
<1> QED
  BY <1>4, <1>5

\* A payload that has lost fields: what it still has is unchanged.
Lesser(small, payload) ==
    /\ DOMAIN small \subseteq DOMAIN payload
    /\ \A f \in DOMAIN small : small[f] = payload[f]

\* An operand of a lesser payload resolves to the same value or to none.
LEMMA LesserOperand ==
    ASSUME NEW payload, NEW small, Lesser(small, payload), NEW o, IsOperand(o),
           resolve_operand(o, small) # NoValue
    PROVE  resolve_operand(o, small) = resolve_operand(o, payload)
<1>1. \A f : Get(small, f) # NoValue => Get(small, f) = Get(payload, f)
  BY DEF Lesser, Get
<1>2. CASE o.kind = "Lit"
  BY <1>2 DEF resolve_operand
<1>3. CASE o.kind = "Field"
  BY <1>1, <1>3 DEF resolve_operand
<1>4. CASE o.kind = "Prim"
  <2>1. \A pl : resolve_operand(o, pl) =
            IF o.name = "Proximity" /\ Get(pl, "peer_id") # o.entity
            THEN NoValue ELSE Get(pl, prim_field(o.name))
    BY <1>4 DEF resolve_operand
  <2>2. o.name = "Proximity" => o.entity # NoValue
    BY <1>4 DEF IsOperand, NoValue, Value
  <2> QED
    BY <1>1, <2>1, <2>2
<1> QED
  BY <1>2, <1>3, <1>4 DEF IsOperand

\* Without Not, a lesser payload makes nothing true that was not.
LEMMA EvalMonotone ==
    ASSUME NEW payload, NEW small, Lesser(small, payload), NEW zones,
           NEW pred \in Preds \cup {NoPred}, NotFree(pred), eval_predicate(pred, small, zones)
    PROVE  eval_predicate(pred, payload, zones)
<1> DEFINE more(q) == eval_tree(q, payload, zones)
           less(q) == eval_tree(q, small, zones)
           T == {q \in Preds : NotFree(q) /\ less(q) => more(q)}
<1>1. ASSUME NEW q \in Preds, \A y \in Preds : Height[y] < Height[q] => y \in T,
             NotFree(q), less(q)
      PROVE  more(q)
  <2>1. q.node # "Comparison" => \A i \in DOMAIN q.kids :
            NotFree(q.kids[i]) /\ less(q.kids[i]) => more(q.kids[i])
    BY <1>1, TreeShape
  <2>2. q.node # "Not" /\ (q.node \in {"And", "Or"} => \A i \in DOMAIN q.kids : NotFree(q.kids[i]))
    BY <1>1, NotFreeTree
  <2>3. CASE q.node = "Comparison"
    <3>1. (more(q) <=> compares(q, payload, zones)) /\ compares(q, small, zones)
      BY <1>1, <2>3, EvalTree
    <3>2. IsOperand(q.lhs) /\ IsOperand(q.rhs)
      BY <2>3, PredConstants
    <3>3. /\ resolve_operand(q.lhs, small) = resolve_operand(q.lhs, payload)
          /\ resolve_operand(q.rhs, small) = resolve_operand(q.rhs, payload)
      BY <3>1, <3>2, LesserOperand DEF compares
    <3> QED
      BY <3>1, <3>3 DEF compares
  <2>4. CASE q.node = "And"
    <3>1. (more(q) <=> \A i \in DOMAIN q.kids : more(q.kids[i])) /\ \A i \in DOMAIN q.kids : less(q.kids[i])
      BY <1>1, <2>4, EvalTree
    <3> QED
      BY <2>1, <2>2, <2>4, <3>1
  <2>5. CASE q.node = "Or"
    <3>1. (more(q) <=> \E i \in DOMAIN q.kids : more(q.kids[i])) /\ \E i \in DOMAIN q.kids : less(q.kids[i])
      BY <1>1, <2>5, EvalTree
    <3> QED
      BY <2>1, <2>2, <2>5, <3>1
  <2> QED
    BY <2>2, <2>3, <2>4, <2>5, TreeShape
<1>2. \A q \in Preds : (\A y \in Preds : Height[y] < Height[q] => y \in T) => q \in T
  BY <1>1
<1> HIDE DEF T
<1>3. Preds \subseteq T
  BY <1>2, PredConstants, RankInduction
<1>4. CASE pred \in Preds
  <2>1. eval_predicate(pred, small, zones) = less(pred) /\ eval_predicate(pred, payload, zones) = more(pred)
    BY <1>4, TreeShape, EvalTree DEF eval_predicate
  <2> QED
    BY <1>3, <1>4, <2>1 DEF T
<1>5. CASE pred = NoPred
  BY <1>5 DEF eval_predicate, NoPred
<1> QED
  BY <1>4, <1>5

-----------------------------------------------------------------------------
(* Sequences.                                                              *)

LEMMA ToSetConcat ==
    ASSUME NEW S, NEW s \in Seq(S), NEW t \in Seq(S)
    PROVE  s \o t \in Seq(S) /\ ToSet(s \o t) = ToSet(s) \cup ToSet(t)
<1>1. \A x : ToSet(x) = Range(x)
  BY DEF Range, ToSet
<1> QED
  BY <1>1, RangeConcatenation, ConcatProperties

\* A sequence without elements is the empty one.
LEMMA ToSetEmpty ==
    ASSUME NEW S, NEW s \in Seq(S)
    PROVE  ToSet(s) \subseteq S /\ (s = <<>> <=> ToSet(s) = {})
<1>1. DOMAIN s = 1..Len(s) /\ Len(s) \in Nat /\ \A i \in DOMAIN s : s[i] \in S
  OBVIOUS
<1>2. s = <<>> <=> Len(s) = 0
  BY EmptySeq
<1>3. CASE Len(s) = 0
  BY <1>2, <1>3 DEF ToSet
<1>4. CASE Len(s) # 0
  <2>1. 1 \in DOMAIN s
    BY <1>1, <1>4
  <2>2. s[1] \in ToSet(s)
    BY <2>1 DEF ToSet
  <2> QED
    BY <1>1, <1>2, <1>4, <2>2 DEF ToSet
<1> QED
  BY <1>3, <1>4

\* Flattening keeps the elements and adds none.
LEMMA Flatten ==
    ASSUME NEW S, NEW ss \in Seq(Seq(S))
    PROVE  FlattenSeq(ss) \in Seq(S) /\ ToSet(FlattenSeq(ss)) = UNION {ToSet(ss[i]) : i \in DOMAIN ss}
<1> DEFINE n == Len(ss)
           D == 1..n
           Step(f, i) == IF i = 1 THEN ss[i] ELSE f[i-1] \o ss[i]
           F == [f \in [D -> Seq(S)] |-> [i \in D |-> Step(f, i)]]
           rank == [i \in D |-> i]
           e == CHOOSE f : f = [i \in D |-> Step(f, i)]
<1>0. n \in Nat /\ DOMAIN ss = D /\ \A i \in D : ss[i] \in Seq(S)
  OBVIOUS
<1>1. CASE n = 0
  <2>1. FlattenSeq(ss) = ss /\ ss = <<>>
    BY <1>1 DEF FlattenSeq
  <2> QED
    BY <2>1 DEF ToSet
<1>2. CASE n # 0
  <2>1. ASSUME NEW f \in [D -> Seq(S)], NEW i \in D PROVE Step(f, i) \in Seq(S)
    <3>1. i # 1 => i - 1 \in D
      BY <1>0
    <3>2. i # 1 => f[i-1] \in Seq(S)
      BY <3>1
    <3> QED
      BY <1>0, <3>2, ConcatProperties
  <2>2. \A f, g \in [D -> Seq(S)], i \in D :
            (\A j \in D : rank[j] < rank[i] => f[j] = g[j]) => Step(f, i) = Step(g, i)
    <3> SUFFICES ASSUME NEW f \in [D -> Seq(S)], NEW g \in [D -> Seq(S)], NEW i \in D,
                        \A j \in D : rank[j] < rank[i] => f[j] = g[j], i # 1
                 PROVE  f[i-1] = g[i-1]
      OBVIOUS
    <3>1. i - 1 \in D /\ i - 1 < i
      BY <1>0
    <3> QED
      BY <3>1
  <2>3. Recursion(D, Seq(S), rank, F)
    <3>1. rank \in [D -> Nat]
      BY <1>0
    <3> HIDE DEF Step, rank, D
    <3>2. F \in [[D -> Seq(S)] -> [D -> Seq(S)]]
      BY <2>1
    <3>3. ASSUME NEW f \in [D -> Seq(S)], NEW g \in [D -> Seq(S)], NEW i \in D,
                 \A j \in D : rank[j] < rank[i] => f[j] = g[j]
          PROVE  F[f][i] = F[g][i]
      BY <2>2, <3>3
    <3> QED
      BY <3>1, <3>2, <3>3 DEF Recursion
  <2>4. PICK f \in [D -> Seq(S)] : F[f] = f
    <3>1. [i \in D |-> <<>>] \in [D -> Seq(S)]
      OBVIOUS
    <3>2. [D -> Seq(S)] # {}
      BY <3>1
    <3> HIDE DEF F, D, rank
    <3> QED
      BY <2>3, <3>2, FixedPoint
  <2>5. f = [i \in D |-> Step(f, i)]
    BY <2>4
  <2>6. e = [i \in D |-> Step(e, i)]
    BY <2>5
  <2>7. FlattenSeq(ss) = e[n]
    BY <1>2 DEF FlattenSeq
  <2> HIDE DEF e
  <2> DEFINE Adds(i) == \A x : x \in ToSet(e[i]) <=> \E j \in 1..i : x \in ToSet(ss[j])
             T == {i \in D : e[i] \in Seq(S) /\ Adds(i)}
  <2>8. ASSUME NEW i \in D, \A j \in D : rank[j] < rank[i] => j \in T PROVE i \in T
    <3>1. CASE i = 1
      <4>1. e[i] = ss[i]
        BY <2>6, <3>1
      <4>2. 1..i = {i}
        BY <3>1
      <4>3. Adds(i)
        BY <4>1, <4>2
      <4>4. e[i] \in Seq(S)
        BY <1>0, <4>1
      <4> QED
        BY <4>3, <4>4
    <3>2. CASE i # 1
      <4>0. i - 1 \in D /\ i - 1 < i
        BY <1>0, <3>2
      <4>1. e[i] = e[i-1] \o ss[i]
        BY <2>6, <3>2
      <4>2. i - 1 \in T
        BY <2>8, <4>0
      <4>3. 1..i = (1..(i-1)) \cup {i}
        BY <1>0
      <4>4. e[i-1] \in Seq(S) /\ ss[i] \in Seq(S)
        BY <1>0, <4>2
      <4>5. e[i] \in Seq(S) /\ ToSet(e[i]) = ToSet(e[i-1]) \cup ToSet(ss[i])
        BY <4>1, <4>4, ToSetConcat
      <4>6. Adds(i - 1)
        BY <4>2
      <4>7. Adds(i)
        BY <4>3, <4>5, <4>6
      <4> QED
        BY <4>5, <4>7
    <3> QED
      BY <3>1, <3>2
  <2>9. rank \in [D -> Nat]
    BY <1>0
  <2>10. n \in D
    BY <1>0, <1>2
  <2>11. D \subseteq T
    <3> HIDE DEF T, rank, D
    <3> QED
      BY <2>8, <2>9, RankInduction
  <2>12. e[n] \in Seq(S) /\ Adds(n)
    BY <2>10, <2>11
  <2>13. ToSet(e[n]) = UNION {ToSet(ss[i]) : i \in DOMAIN ss}
    BY <1>0, <2>12
  <2> QED
    BY <2>7, <2>12, <2>13
<1> QED
  BY <1>1, <1>2

-----------------------------------------------------------------------------
(* Building the expression of a condition.  There is no set at hand that   *)
(* has the expressions as elements, as FixedPoint asks for, so its steps   *)
(* are repeated for this definition.                                       *)

BuildStep(f, w) ==
    block_expr(w, [i \in DOMAIN w.all |-> f[w.all[i]]], [i \in DOMAIN w.any |-> f[w.any[i]]])
Builds(n, f) == \A w \in Whens : Depth[w] < n => f[w] = BuildStep(f, w)

\* The blocks nested in a condition are conditions of smaller depth.
LEMMA WhenShape ==
    ASSUME NEW w \in Whens
    PROVE  /\ Depth \in [Whens -> Nat] /\ Depth[w] \in Nat
           /\ w.all \in Seq(Whens) /\ w.any \in Seq(Whens)
           /\ \A i \in DOMAIN w.all : w.all[i] \in Whens /\ Depth[w.all[i]] < Depth[w]
           /\ \A i \in DOMAIN w.any : w.any[i] \in Whens /\ Depth[w.any[i]] < Depth[w]
<1>1. /\ Depth \in [Whens -> Nat] /\ w.all \in Seq(Whens) /\ w.any \in Seq(Whens)
      /\ \A nested \in ToSet(w.all) \cup ToSet(w.any) : Depth[nested] < Depth[w]
  BY WhenConstants
<1>2. \A i \in DOMAIN w.all : w.all[i] \in ToSet(w.all) /\ w.all[i] \in Whens
  BY <1>1 DEF ToSet
<1>3. \A i \in DOMAIN w.any : w.any[i] \in ToSet(w.any) /\ w.any[i] \in Whens
  BY <1>1 DEF ToSet
<1> QED
  BY <1>1, <1>2, <1>3

LEMMA BuildIsLocal ==
    ASSUME NEW f, NEW g, NEW w \in Whens, \A y \in Whens : Depth[y] < Depth[w] => f[y] = g[y]
    PROVE  BuildStep(f, w) = BuildStep(g, w)
<1>1. [i \in DOMAIN w.all |-> f[w.all[i]]] = [i \in DOMAIN w.all |-> g[w.all[i]]]
  BY WhenShape
<1>2. [i \in DOMAIN w.any |-> f[w.any[i]]] = [i \in DOMAIN w.any |-> g[w.any[i]]]
  BY WhenShape
<1> QED
  BY <1>1, <1>2 DEF BuildStep

LEMMA BuildsAgree ==
    ASSUME NEW m \in Nat, NEW f, NEW g, Builds(m, f), Builds(m, g)
    PROVE  \A w \in Whens : Depth[w] < m => f[w] = g[w]
<1> DEFINE T == {w \in Whens : Depth[w] < m => f[w] = g[w]}
<1>1. ASSUME NEW w \in Whens, \A y \in Whens : Depth[y] < Depth[w] => y \in T, Depth[w] < m
      PROVE  f[w] = g[w]
  <2>1. \A y \in Whens : Depth[y] \in Nat
    BY WhenShape
  <2>2. \A y \in Whens : Depth[y] < Depth[w] => f[y] = g[y]
    BY <1>1, <2>1
  <2>3. BuildStep(f, w) = BuildStep(g, w)
    BY <2>2, BuildIsLocal
  <2> QED
    BY <1>1, <2>3 DEF Builds
<1>2. \A w \in Whens : (\A y \in Whens : Depth[y] < Depth[w] => y \in T) => w \in T
  BY <1>1
<1> HIDE DEF T
<1>3. Whens \subseteq T
  BY <1>2, WhenConstants, RankInduction
<1> QED
  BY <1>3 DEF T

LEMMA BuildsBelow == \A n \in Nat : \E f : Builds(n, f)
<1> DEFINE T == {n \in Nat : ~\E f : Builds(n, f)}
<1> SUFFICES ASSUME T # {} PROVE FALSE
  OBVIOUS
<1>0. \A w \in Whens : Depth[w] \in Nat
  BY WhenShape
<1>1. PICK n \in T : \A k \in T : n <= k
  BY LeastNumber
<1>2. n # 0
  BY <1>0 DEF Builds
<1>3. n - 1 \in Nat /\ n - 1 \notin T
  BY <1>1, <1>2
<1>4. PICK f : Builds(n - 1, f)
  BY <1>3
<1> DEFINE g == [w \in Whens |-> BuildStep(f, w)]
<1>5. ASSUME NEW w \in Whens, Depth[w] < n PROVE g[w] = BuildStep(g, w)
  <2>1. \A y \in Whens : Depth[y] < Depth[w] => Depth[y] < n - 1
    BY <1>0, <1>5
  <2>2. \A y \in Whens : Depth[y] < Depth[w] => f[y] = g[y]
    BY <1>4, <2>1 DEF Builds
  <2>3. g[w] = BuildStep(f, w)
    OBVIOUS
  <2> HIDE DEF g
  <2>4. BuildStep(f, w) = BuildStep(g, w)
    BY <2>2, BuildIsLocal
  <2> QED
    BY <2>3, <2>4
<1> HIDE DEF g
<1>6. Builds(n, g)
  BY <1>5 DEF Builds
<1> QED
  BY <1>1, <1>6

LEMMA BuildExists == \E f : f = [w \in Whens |-> BuildStep(f, w)]
<1> DEFINE part(n) == CHOOSE f : Builds(n, f)
<1>0. \A w \in Whens : Depth[w] \in Nat
  BY WhenShape
<1>1. \A n \in Nat : Builds(n, part(n))
  BY BuildsBelow
<1> HIDE DEF part
<1> DEFINE f == [w \in Whens |-> part(Depth[w] + 1)[w]]
<1>2. ASSUME NEW w \in Whens PROVE f[w] = BuildStep(f, w)
  <2> DEFINE p == part(Depth[w] + 1)
  <2>1. Builds(Depth[w] + 1, p)
    BY <1>0, <1>1
  <2>2. ASSUME NEW y \in Whens, Depth[y] < Depth[w] PROVE p[y] = f[y]
    <3> DEFINE q == part(Depth[y] + 1)
               m == Depth[y] + 1
    <3>1. Builds(m, q) /\ f[y] = q[y]
      BY <1>0, <1>1
    <3>2. m \in Nat /\ Depth[y] < m /\ m < Depth[w] + 1 /\ Depth[w] \in Nat
      BY <1>0, <2>2
    <3> HIDE DEF p, q, m, f
    <3>3. Builds(m, p)
      BY <1>0, <2>1, <3>2 DEF Builds
    <3>4. \A u \in Whens : Depth[u] < m => p[u] = q[u]
      BY <3>1, <3>2, <3>3, BuildsAgree
    <3> QED
      BY <3>1, <3>2, <3>4
  <2>3. Depth[w] < Depth[w] + 1
    BY <1>0
  <2>4. f[w] = p[w]
    OBVIOUS
  <2> HIDE DEF p, f
  <2>5. BuildStep(p, w) = BuildStep(f, w)
    BY <2>2, BuildIsLocal
  <2>6. p[w] = BuildStep(p, w)
    BY <2>1, <2>3 DEF Builds
  <2> QED
    BY <2>4, <2>5, <2>6
<1>3. f = [w \in Whens |-> f[w]]
  OBVIOUS
<1> HIDE DEF f
<1>4. f = [w \in Whens |-> BuildStep(f, w)]
  BY <1>2, <1>3
<1> QED
  BY <1>4

\* build_when_expr is its body on what it makes of the nested blocks.
LEMMA BuildWhen ==
    ASSUME NEW w \in Whens
    PROVE  build_when_expr(w) =
                block_expr(w, [i \in DOMAIN w.all |-> build_when_expr(w.all[i])],
                              [i \in DOMAIN w.any |-> build_when_expr(w.any[i])])
<1> DEFINE e == CHOOSE f : f = [v \in Whens |-> BuildStep(f, v)]
<1>1. e = [v \in Whens |-> BuildStep(e, v)]
  BY BuildExists
<1>2. WhenExprs = [v \in Whens |-> e[v]]
  BY DEF WhenExprs, BuildStep
<1> HIDE DEF e
<1>3. \A v \in Whens : build_when_expr(v) = e[v]
  BY <1>2 DEF build_when_expr
<1>4. build_when_expr(w) = BuildStep(e, w)
  BY <1>1, <1>3
<1>5. [i \in DOMAIN w.all |-> build_when_expr(w.all[i])] = [i \in DOMAIN w.all |-> e[w.all[i]]]
  BY <1>3, WhenShape
<1>6. [i \in DOMAIN w.any |-> build_when_expr(w.any[i])] = [i \in DOMAIN w.any |-> e[w.any[i]]]
  BY <1>3, WhenShape
<1> QED
  BY <1>4, <1>5, <1>6 DEF BuildStep

-----------------------------------------------------------------------------
(* What the expression of a condition is made of.                          *)

LEMMA ErrIsErr == \A code : IsErr(Err(code)) /\ Err(code).err = code
  BY DEF IsErr, Err

\* The first error is one of the errors.
LEMMA FirstErrIsOne ==
    ASSUME NEW results, DOMAIN results \subseteq Nat
    PROVE  /\ Failed(results) = {} => ~IsErr(FirstErr(results))
           /\ Failed(results) # {} =>
                \E i \in Failed(results) : FirstErr(results) = results[i] /\ IsErr(results[i])
<1>1. CASE Failed(results) = {}
  BY <1>1 DEF FirstErr, IsErr
<1>2. CASE Failed(results) # {}
  <2>1. Failed(results) \in SUBSET Nat
    BY DEF Failed
  <2>2. \E i \in Failed(results) : \A j \in Failed(results) : i <= j
    BY <1>2, <2>1, LeastNumber
  <2>3. Min(Failed(results)) \in Failed(results)
    BY <2>2 DEF Min
  <2>4. FirstErr(results) = results[Min(Failed(results))]
    BY <1>2 DEF FirstErr
  <2>5. IsErr(results[Min(Failed(results))])
    BY <2>3 DEF Failed
  <2> QED
    BY <1>2, <2>3, <2>4, <2>5
<1> QED
  BY <1>1, <1>2

LeavesOf(w) == {WhenLeaf(trigger_of(key, w.flat[key])) : key \in DOMAIN w.flat}
Kids(w) == {build_when_expr(w.all[i]) : i \in DOMAIN w.all}
Alternatives(w) == {build_when_expr(w.any[i]) : i \in DOMAIN w.any}
\* What has to hold for w to hold.
Conjuncts(w) == LeavesOf(w) \cup Kids(w) \cup (IF w.any = <<>> THEN {} ELSE {OrGroup(w)})
Valid == {w \in Whens : ~IsErr(build_when_expr(w))}

LEMMA FunctionIsSeq ==
    ASSUME NEW S, NEW n \in Nat, NEW s, s \in [1..n -> S]
    PROVE  s \in Seq(S) /\ Len(s) = n /\ DOMAIN s = 1..n
  OBVIOUS

LEMMA LeafTriggersOf ==
    ASSUME NEW w \in Whens
    PROVE  leaf_triggers(w) \in Seq(LeavesOf(w)) /\ ToSet(leaf_triggers(w)) = LeavesOf(w)
<1> DEFINE S == LeavesOf(w)
           one(i) == IF Keys[i] \in DOMAIN w.flat
                     THEN <<WhenLeaf(trigger_of(Keys[i], w.flat[Keys[i]]))>> ELSE <<>>
           ss == [i \in DOMAIN Keys |-> one(i)]
<1>1. leaf_triggers(w) = FlattenSeq(ss)
  BY DEF leaf_triggers
<1>2. DOMAIN Keys = 1..6
  BY DEF Keys
<1>3. \A i \in DOMAIN Keys : one(i) \in Seq(S)
  <2>1. \A x \in S : <<x>> \in Seq(S)
    OBVIOUS
  <2>2. \A key \in DOMAIN w.flat : WhenLeaf(trigger_of(key, w.flat[key])) \in S
    BY DEF LeavesOf
  <2> QED
    BY <2>1, <2>2
<1>4. ss \in Seq(Seq(S))
  <2>1. ss \in [1..6 -> Seq(S)]
    BY <1>2, <1>3
  <2> HIDE DEF ss
  <2> QED
    BY <2>1, FunctionIsSeq
<1>5. \A i \in DOMAIN Keys : ToSet(one(i)) =
        IF Keys[i] \in DOMAIN w.flat THEN {WhenLeaf(trigger_of(Keys[i], w.flat[Keys[i]]))} ELSE {}
  BY DEF ToSet
<1>6. DOMAIN ss = DOMAIN Keys /\ \A i \in DOMAIN Keys : ss[i] = one(i)
  OBVIOUS
<1>7. \A key \in DOMAIN w.flat : \E i \in DOMAIN Keys : Keys[i] = key
  BY WhenConstants DEF ToSet
<1> HIDE DEF ss, one
<1>8. FlattenSeq(ss) \in Seq(S) /\ ToSet(FlattenSeq(ss)) = UNION {ToSet(ss[i]) : i \in DOMAIN ss}
  BY <1>4, Flatten
<1>9. UNION {ToSet(ss[i]) : i \in DOMAIN ss} = S
  <2>1. ASSUME NEW x \in S PROVE \E i \in DOMAIN ss : x \in ToSet(ss[i])
    BY <1>5, <1>6, <1>7 DEF LeavesOf
  <2>2. ASSUME NEW i \in DOMAIN ss PROVE ToSet(ss[i]) \subseteq S
    BY <1>5, <1>6 DEF LeavesOf
  <2> QED
    BY <2>1, <2>2
<1> QED
  BY <1>1, <1>8, <1>9

\* A condition that passes has nested blocks that pass, is not empty, and its
\* expression is its only conjunct or the All of its conjuncts.
LEMMA BuildShape ==
    ASSUME NEW w \in Valid
    PROVE  /\ \A i \in DOMAIN w.all : w.all[i] \in Valid
           /\ \A i \in DOMAIN w.any : w.any[i] \in Valid
           /\ Conjuncts(w) # {}
           /\ \/ Conjuncts(w) = {build_when_expr(w)}
              \/ \E kids \in Seq(Conjuncts(w)) :
                    build_when_expr(w) = WhenAll(kids) /\ ToSet(kids) = Conjuncts(w)
<1> DEFINE all == [i \in DOMAIN w.all |-> build_when_expr(w.all[i])]
           any == [i \in DOMAIN w.any |-> build_when_expr(w.any[i])]
           leaves == leaf_triggers(w)
           parts == leaves \o all
           b == build_when_expr(w)
           C == Conjuncts(w)
<1>0. w \in Whens /\ ~IsErr(b)
  BY DEF Valid
<1>1. w.all \in Seq(Whens) /\ w.any \in Seq(Whens)
  BY <1>0, WhenShape
<1>2. /\ DOMAIN w.all = 1..Len(w.all) /\ Len(w.all) \in Nat
      /\ DOMAIN w.any = 1..Len(w.any) /\ Len(w.any) \in Nat
  BY <1>1
<1>3. DOMAIN all = DOMAIN w.all /\ DOMAIN any = DOMAIN w.any
  OBVIOUS
<1>4. b = block_expr(w, all, any)
  BY <1>0, BuildWhen
<1>5. all \in Seq(Kids(w)) /\ ToSet(all) = Kids(w) /\ Len(all) = Len(w.all)
  <2>1. all \in [1..Len(w.all) -> Kids(w)]
    BY <1>2 DEF Kids
  <2>2. ToSet(all) = Kids(w)
    BY DEF Kids, ToSet
  <2> HIDE DEF all
  <2> QED
    BY <1>2, <2>1, <2>2, FunctionIsSeq
<1>6. any \in Seq(Alternatives(w)) /\ Len(any) = Len(w.any)
  <2>1. any \in [1..Len(w.any) -> Alternatives(w)]
    BY <1>2 DEF Alternatives
  <2> HIDE DEF any
  <2> QED
    BY <1>2, <2>1, FunctionIsSeq
<1>7. OrGroup(w) = WhenAny(any)
  BY DEF OrGroup
<1>8. /\ \A i \in DOMAIN w.all : all[i] = build_when_expr(w.all[i]) /\ w.all[i] \in Whens
      /\ \A i \in DOMAIN w.any : any[i] = build_when_expr(w.any[i]) /\ w.any[i] \in Whens
  BY <1>0, WhenShape
<1> HIDE DEF all, any, b, C
<1>9. ~when_is_empty(w) /\ ~BadDistance(w) /\ ~UnknownZone(w)
  <2>1. ASSUME when_is_empty(w) \/ BadDistance(w) \/ UnknownZone(w)
        PROVE  b \in {Err("EmptyWhen"), Err("InvalidDistance"), Err("UnknownZone")}
    BY <1>4, <2>1 DEF block_expr
  <2> QED
    BY <1>0, <2>1, ErrIsErr
<1>10. b = IF Failed(all) # {} THEN FirstErr(all)
           ELSE IF Failed(any) # {} THEN FirstErr(any)
           ELSE IF any # <<>> /\ parts # <<>> THEN WhenAll(Append(parts, WhenAny(any)))
           ELSE IF any # <<>> THEN WhenAny(any)
           ELSE IF Len(parts) = 1 THEN parts[1]
           ELSE WhenAll(parts)
  BY <1>4, <1>9 DEF block_expr
<1>11. Failed(all) = {}
  BY <1>0, <1>2, <1>3, <1>10, FirstErrIsOne
<1>12. Failed(any) = {}
  BY <1>0, <1>2, <1>3, <1>10, <1>11, FirstErrIsOne
<1>13. /\ \A i \in DOMAIN w.all : w.all[i] \in Valid
       /\ \A i \in DOMAIN w.any : w.any[i] \in Valid
  BY <1>3, <1>8, <1>11, <1>12 DEF Failed, Valid
<1>14. leaves \in Seq(LeavesOf(w)) /\ ToSet(leaves) = LeavesOf(w)
  BY <1>0, LeafTriggersOf
<1> HIDE DEF leaves
<1>15. LeavesOf(w) \subseteq C /\ Kids(w) \subseteq C
  BY DEF C, Conjuncts
<1>16. leaves \in Seq(C) /\ all \in Seq(C)
  BY <1>5, <1>14, <1>15, SeqMonotonic
<1>17. parts \in Seq(C) /\ ToSet(parts) = LeavesOf(w) \cup Kids(w)
  BY <1>5, <1>14, <1>16, ToSetConcat
<1> HIDE DEF parts
<1>18. any = <<>> <=> w.any = <<>>
  BY <1>1, <1>6, EmptySeq
<1>19. C # {}
  <2>1. CASE DOMAIN w.flat # {}
    BY <2>1 DEF C, Conjuncts, LeavesOf
  <2>2. CASE w.any # <<>>
    BY <2>2 DEF C, Conjuncts
  <2>3. CASE w.all # <<>>
    <3>1. 1 \in DOMAIN w.all
      BY <1>1, <1>2, <2>3
    <3> QED
      BY <3>1 DEF C, Conjuncts, Kids
  <2> QED
    BY <1>9, <2>1, <2>2, <2>3 DEF when_is_empty
<1>20. C = {b} \/ \E kids \in Seq(C) : b = WhenAll(kids) /\ ToSet(kids) = C
  <2>1. CASE w.any = <<>>
    <3>1. ToSet(parts) = C
      BY <1>17, <2>1 DEF C, Conjuncts
    <3>2. CASE Len(parts) = 1
      <4>1. b = parts[1] /\ DOMAIN parts = 1..1
        BY <1>10, <1>11, <1>12, <1>17, <1>18, <2>1, <3>2
      <4>2. ToSet(parts) = {parts[1]}
        BY <4>1 DEF ToSet
      <4> QED
        BY <3>1, <4>1, <4>2
    <3>3. CASE Len(parts) # 1
      BY <1>10, <1>11, <1>12, <1>17, <1>18, <2>1, <3>1, <3>3
    <3> QED
      BY <3>2, <3>3
  <2>2. CASE w.any # <<>> /\ parts # <<>>
    <3> DEFINE kids == Append(parts, WhenAny(any))
    <3>1. b = WhenAll(kids)
      BY <1>10, <1>11, <1>12, <1>18, <2>2
    <3>2. WhenAny(any) \in C
      BY <1>7, <2>2 DEF C, Conjuncts
    <3> DEFINE last == <<WhenAny(any)>>
    <3>3. kids = parts \o last /\ last \in Seq(C)
      BY <1>17, <3>2, AppendIsConcat
    <3>4. ToSet(last) = {WhenAny(any)}
      BY DEF ToSet
    <3> HIDE DEF kids, last
    <3>5. kids \in Seq(C) /\ ToSet(kids) = ToSet(parts) \cup {WhenAny(any)}
      BY <1>17, <3>3, <3>4, ToSetConcat
    <3>6. ToSet(kids) = C
      BY <1>7, <1>17, <2>2, <3>5 DEF C, Conjuncts
    <3> QED
      BY <3>1, <3>5, <3>6
  <2>3. CASE w.any # <<>> /\ parts = <<>>
    <3>1. b = WhenAny(any)
      BY <1>10, <1>11, <1>12, <1>18, <2>3
    <3>2. LeavesOf(w) \cup Kids(w) = {}
      BY <1>17, <2>3, ToSetEmpty
    <3> QED
      BY <1>7, <2>3, <3>1, <3>2 DEF C, Conjuncts
  <2> QED
    BY <2>1, <2>2, <2>3
<1> QED
  BY <1>13, <1>19, <1>20 DEF C, b

-----------------------------------------------------------------------------
(* Lowering.  It is a recursion on the expressions; an expression may be   *)
(* that of several conditions, and has the least of their ranks.           *)

Ranked(e, n) ==
    \/ n = 0 /\ \E w \in Valid : e \in LeavesOf(w)
    \/ \E w \in Valid : n = 2 * Depth[w] + 1 /\ e = build_when_expr(w)
    \/ \E w \in Valid : w.any # <<>> /\ n = 2 * Depth[w] /\ e = OrGroup(w)

Size == [e \in Exprs |-> CHOOSE n \in Nat : Ranked(e, n) /\ \A k \in Nat : Ranked(e, k) => n <= k]

LEMMA ExprsAreRanked ==
    ASSUME NEW e
    PROVE  e \in Exprs <=> \E n \in Nat : Ranked(e, n)
<1>1. \A w \in Valid : w \in Whens /\ Depth[w] \in Nat
  BY WhenShape DEF Valid
<1>2. \A w \in Valid : Parts(w) = {build_when_expr(w)} \cup LeavesOf(w)
                                    \cup (IF w.any = <<>> THEN {} ELSE {OrGroup(w)})
  BY <1>1, LeafTriggersOf DEF Parts
<1>3. e \in Exprs <=> \E w \in Valid : e \in Parts(w)
  BY DEF Exprs, Valid
<1>4. ASSUME NEW w \in Valid, e \in Parts(w) PROVE \E n \in Nat : Ranked(e, n)
  <2>1. 0 \in Nat /\ 2 * Depth[w] + 1 \in Nat /\ 2 * Depth[w] \in Nat
    BY <1>1
  <2>2. CASE e = build_when_expr(w)
    BY <2>1, <2>2 DEF Ranked
  <2>3. CASE e \in LeavesOf(w)
    BY <2>1, <2>3 DEF Ranked
  <2>4. CASE w.any # <<>> /\ e = OrGroup(w)
    BY <2>1, <2>4 DEF Ranked
  <2> QED
    BY <1>2, <1>4, <2>2, <2>3, <2>4
<1>5. ASSUME NEW n \in Nat, Ranked(e, n) PROVE \E w \in Valid : e \in Parts(w)
  <2>1. ASSUME NEW w \in Valid, e \in LeavesOf(w) PROVE e \in Parts(w)
    BY <1>2, <2>1
  <2>2. ASSUME NEW w \in Valid, e = build_when_expr(w) PROVE e \in Parts(w)
    BY <1>2, <2>2
  <2>3. ASSUME NEW w \in Valid, w.any # <<>>, e = OrGroup(w) PROVE e \in Parts(w)
    BY <1>2, <2>3
  <2> QED
    BY <1>5, <2>1, <2>2, <2>3 DEF Ranked
<1> QED
  BY <1>3, <1>4, <1>5

LEMMA SizeIsLeast ==
    ASSUME NEW e \in Exprs
    PROVE  Size[e] \in Nat /\ Ranked(e, Size[e]) /\ \A k \in Nat : Ranked(e, k) => Size[e] <= k
<1> DEFINE N == {n \in Nat : Ranked(e, n)}
<1>1. N \in SUBSET Nat /\ N # {}
  BY ExprsAreRanked
<1>2. \E n \in N : \A k \in N : n <= k
  <2> HIDE DEF N
  <2> QED
    BY <1>1, LeastNumber
<1>3. \E n \in Nat : Ranked(e, n) /\ \A k \in Nat : Ranked(e, k) => n <= k
  BY <1>2
<1>4. Size[e] = CHOOSE n \in Nat : Ranked(e, n) /\ \A k \in Nat : Ranked(e, k) => n <= k
  BY DEF Size
<1> QED
  BY <1>3, <1>4

\* A conjunct of a condition is an expression of a rank below the condition's.
LEMMA ConjunctIsSmaller ==
    ASSUME NEW w \in Valid, NEW c \in Conjuncts(w)
    PROVE  c \in Exprs /\ Size[c] < 2 * Depth[w] + 1
<1>1. w \in Whens /\ Depth[w] \in Nat
  BY WhenShape DEF Valid
<1>2. \E k \in Nat : Ranked(c, k) /\ k < 2 * Depth[w] + 1
  <2>1. CASE c \in LeavesOf(w)
    <3>1. Ranked(c, 0)
      BY <2>1 DEF Ranked
    <3> QED
      BY <1>1, <3>1
  <2>2. CASE c \in Kids(w)
    <3>1. PICK i \in DOMAIN w.all : c = build_when_expr(w.all[i])
      BY <2>2 DEF Kids
    <3>2. w.all[i] \in Valid /\ w.all[i] \in Whens /\ Depth[w.all[i]] < Depth[w]
      BY <1>1, BuildShape, WhenShape
    <3>3. Depth[w.all[i]] \in Nat
      BY <3>2, WhenShape
    <3>4. Ranked(c, 2 * Depth[w.all[i]] + 1)
      BY <3>1, <3>2 DEF Ranked
    <3> QED
      BY <1>1, <3>2, <3>3, <3>4
  <2>3. CASE w.any # <<>> /\ c = OrGroup(w)
    <3>1. Ranked(c, 2 * Depth[w])
      BY <2>3 DEF Ranked
    <3> QED
      BY <1>1, <3>1
  <2> QED
    BY <2>1, <2>2, <2>3 DEF Conjuncts
<1>3. c \in Exprs
  BY <1>2, ExprsAreRanked
<1>4. Size[c] \in Nat /\ \A k \in Nat : Ranked(c, k) => Size[c] <= k
  BY <1>3, SizeIsLeast
<1> QED
  BY <1>1, <1>2, <1>3, <1>4

LeafExprs == UNION {LeavesOf(w) : w \in Valid}

\* A part of an OR group is an expression of smaller rank.
LEMMA AlternativeIsSmaller ==
    ASSUME NEW w \in Valid, NEW i \in DOMAIN w.any
    PROVE  build_when_expr(w.any[i]) \in Exprs /\ Size[build_when_expr(w.any[i])] < 2 * Depth[w]
<1> DEFINE c == build_when_expr(w.any[i])
<1>1. w \in Whens /\ Depth[w] \in Nat
  BY WhenShape DEF Valid
<1>2. w.any[i] \in Valid /\ w.any[i] \in Whens /\ Depth[w.any[i]] < Depth[w]
  BY <1>1, BuildShape, WhenShape
<1>3. Depth[w.any[i]] \in Nat
  BY <1>2, WhenShape
<1> DEFINE k == 2 * Depth[w.any[i]] + 1
<1>4. Ranked(c, k) /\ k \in Nat /\ k < 2 * Depth[w]
  BY <1>1, <1>2, <1>3 DEF Ranked
<1> HIDE DEF c, k
<1>5. c \in Exprs
  BY <1>4, ExprsAreRanked
<1>6. Size[c] \in Nat /\ Size[c] <= k
  BY <1>4, <1>5, SizeIsLeast
<1> QED
  BY <1>1, <1>4, <1>5, <1>6 DEF c

\* An expression is a leaf, or a non-empty All or Any of smaller expressions.
LEMMA ExprShape ==
    ASSUME NEW e \in Exprs
    PROVE  \/ e \in LeafExprs /\ e.node = "Leaf"
           \/ /\ e.node \in {"All", "Any"}
              /\ e.kids \in Seq(Exprs) /\ e.kids # <<>>
              /\ \A i \in DOMAIN e.kids : e.kids[i] \in Exprs /\ Size[e.kids[i]] < Size[e]
<1>1. Size[e] \in Nat /\ Ranked(e, Size[e])
  BY SizeIsLeast
<1>2. CASE e \in LeafExprs
  BY <1>2 DEF LeafExprs, LeavesOf, WhenLeaf
<1>3. ASSUME NEW w \in Valid, Size[e] = 2 * Depth[w] + 1, e = build_when_expr(w), e \notin LeafExprs
      PROVE  /\ e.node \in {"All", "Any"}
             /\ e.kids \in Seq(Exprs) /\ e.kids # <<>>
             /\ \A i \in DOMAIN e.kids : e.kids[i] \in Exprs /\ Size[e.kids[i]] < Size[e]
  <2>1. Conjuncts(w) # {e}
    <3>1. e \in Conjuncts(w) => Size[e] < 2 * Depth[w] + 1
      BY ConjunctIsSmaller
    <3> QED
      BY <1>1, <1>3, <3>1
  <2>2. PICK kids \in Seq(Conjuncts(w)) : e = WhenAll(kids) /\ ToSet(kids) = Conjuncts(w)
    BY <1>3, <2>1, BuildShape
  <2>3. e.node = "All" /\ e.kids = kids
    BY <2>2 DEF WhenAll
  <2>4. kids # <<>>
    BY <2>2, BuildShape, ToSetEmpty
  <2>5. \A c \in Conjuncts(w) : c \in Exprs /\ Size[c] < Size[e]
    BY <1>3, ConjunctIsSmaller
  <2>6. kids \in Seq(Exprs)
    BY <2>5, SeqMonotonic
  <2>7. \A i \in DOMAIN kids : kids[i] \in Conjuncts(w)
    BY <2>2
  <2> QED
    BY <2>3, <2>4, <2>5, <2>6, <2>7
<1>4. ASSUME NEW w \in Valid, w.any # <<>>, Size[e] = 2 * Depth[w], e = OrGroup(w)
      PROVE  /\ e.node \in {"All", "Any"}
             /\ e.kids \in Seq(Exprs) /\ e.kids # <<>>
             /\ \A i \in DOMAIN e.kids : e.kids[i] \in Exprs /\ Size[e.kids[i]] < Size[e]
  <2> DEFINE kids == [i \in DOMAIN w.any |-> build_when_expr(w.any[i])]
  <2>1. e.node = "Any" /\ e.kids = kids
    BY <1>4 DEF OrGroup, WhenAny
  <2>2. w.any \in Seq(Whens)
    BY WhenShape DEF Valid
  <2>3. DOMAIN w.any = 1..Len(w.any) /\ Len(w.any) \in Nat /\ Len(w.any) # 0
    BY <1>4, <2>2, EmptySeq
  <2>4. \A i \in DOMAIN w.any : build_when_expr(w.any[i]) \in Exprs /\ Size[build_when_expr(w.any[i])] < Size[e]
    BY <1>4, AlternativeIsSmaller
  <2>5. kids \in [1..Len(w.any) -> Exprs]
    BY <2>3, <2>4
  <2>6. DOMAIN kids = DOMAIN w.any /\ \A i \in DOMAIN w.any : kids[i] = build_when_expr(w.any[i])
    OBVIOUS
  <2> HIDE DEF kids
  <2>7. kids \in Seq(Exprs) /\ Len(kids) = Len(w.any)
    BY <2>3, <2>5, FunctionIsSeq
  <2>8. kids # <<>>
    BY <2>3, <2>7
  <2> QED
    BY <2>1, <2>4, <2>6, <2>7, <2>8
<1>5. e \notin LeafExprs => ~\E w \in Valid : e \in LeavesOf(w)
  BY DEF LeafExprs
<1> QED
  BY <1>1, <1>2, <1>3, <1>4, <1>5 DEF Ranked

\* Guards, and the one error of lowering.
LeafTriggers == {e.trigger : e \in LeafExprs}
LoweredGuards == {When(a, b) : a \in Seq(LeafTriggers), b \in Seq(LeafTriggers)}
Lowered == LoweredGuards \cup {Err("UnrepresentableNesting")}

LEMMA LoweredShape ==
    ASSUME NEW g \in Lowered
    PROVE  /\ IsErr(g) => g = Err("UnrepresentableNesting")
           /\ ~IsErr(g) => g.all \in Seq(LeafTriggers) /\ g.any \in Seq(LeafTriggers)
  BY DEF Lowered, LoweredGuards, When, IsErr, Err

\* Both of lower's constructors flatten a list of triggers of each part.
LEMMA FlattenOf ==
    ASSUME NEW S, NEW n \in Nat, NEW ss \in [1..n -> Seq(S)]
    PROVE  /\ FlattenSeq(ss) \in Seq(S)
           /\ \A t : t \in ToSet(FlattenSeq(ss)) <=> \E i \in 1..n : t \in ToSet(ss[i])
<1>1. ss \in Seq(Seq(S)) /\ DOMAIN ss = 1..n
  BY FunctionIsSeq
<1>2. FlattenSeq(ss) \in Seq(S) /\ ToSet(FlattenSeq(ss)) = UNION {ToSet(ss[i]) : i \in DOMAIN ss}
  BY <1>1, Flatten
<1> QED
  BY <1>1, <1>2

\* The guard of an All has the triggers of its parts, in their groups.
LEMMA LowerAll ==
    ASSUME NEW kids \in Seq(Lowered)
    PROVE  /\ lower_all(kids) \in Lowered
           /\ ~IsErr(lower_all(kids)) =>
                LET g == lower_all(kids)
                IN  /\ \A i \in DOMAIN kids : ~IsErr(kids[i])
                    /\ \A i, j \in DOMAIN kids : i = j \/ kids[i].any = <<>> \/ kids[j].any = <<>>
                    /\ \A t : t \in ToSet(g.all) <=> \E i \in DOMAIN kids : t \in ToSet(kids[i].all)
                    /\ \A t : t \in ToSet(g.any) <=> \E i \in DOMAIN kids : t \in ToSet(kids[i].any)
<1> DEFINE n == Len(kids)
           refused == \/ Failed(kids) # {}
                      \/ \E i, j \in DOMAIN kids : i # j /\ kids[i].any # <<>> /\ kids[j].any # <<>>
           alls == [i \in DOMAIN kids |-> kids[i].all]
           anys == [i \in DOMAIN kids |-> kids[i].any]
           g == When(FlattenSeq(alls), FlattenSeq(anys))
<1>1. n \in Nat /\ DOMAIN kids = 1..n /\ \A i \in 1..n : kids[i] \in Lowered
  OBVIOUS
<1>2. lower_all(kids) = IF refused THEN Err("UnrepresentableNesting") ELSE g
  BY DEF lower_all
<1>3. CASE refused
  <2>1. lower_all(kids) = Err("UnrepresentableNesting")
    BY <1>2, <1>3
  <2> QED
    BY <2>1, ErrIsErr DEF Lowered
<1>4. CASE ~refused
  <2>1. \A i \in DOMAIN kids : ~IsErr(kids[i])
    BY <1>4 DEF Failed
  <2>2. \A i \in 1..n : kids[i].all \in Seq(LeafTriggers) /\ kids[i].any \in Seq(LeafTriggers)
    BY <1>1, <2>1, LoweredShape
  <2>3. alls \in [1..n -> Seq(LeafTriggers)] /\ anys \in [1..n -> Seq(LeafTriggers)]
    BY <1>1, <2>2
  <2>4. \A i \in 1..n : alls[i] = kids[i].all /\ anys[i] = kids[i].any
    BY <1>1
  <2>5. g.all = FlattenSeq(alls) /\ g.any = FlattenSeq(anys)
    BY DEF When
  <2>6. lower_all(kids) = g
    BY <1>2, <1>4
  <2> HIDE DEF alls, anys
  <2>7. /\ g.all \in Seq(LeafTriggers)
        /\ \A t : t \in ToSet(g.all) <=> \E i \in 1..n : t \in ToSet(alls[i])
    BY <1>1, <2>3, <2>5, FlattenOf
  <2>8. /\ g.any \in Seq(LeafTriggers)
        /\ \A t : t \in ToSet(g.any) <=> \E i \in 1..n : t \in ToSet(anys[i])
    BY <1>1, <2>3, <2>5, FlattenOf
  <2>9. g \in Lowered
    BY <2>5, <2>7, <2>8 DEF Lowered, LoweredGuards
  <2>10. \A i, j \in DOMAIN kids : i = j \/ kids[i].any = <<>> \/ kids[j].any = <<>>
    BY <1>4
  <2> HIDE DEF g
  <2> QED
    BY <1>1, <2>1, <2>4, <2>6, <2>7, <2>8, <2>9, <2>10
<1> QED
  BY <1>3, <1>4

\* The guard of an Any is one OR group, of all the triggers of its parts.
LEMMA LowerAny ==
    ASSUME NEW kids \in Seq(Lowered)
    PROVE  /\ lower_any(kids) \in Lowered
           /\ ~IsErr(lower_any(kids)) =>
                LET g == lower_any(kids)
                IN  /\ \A i \in DOMAIN kids : ~IsErr(kids[i]) /\ OrElement(kids[i])
                    /\ g.all = <<>>
                    /\ \A t : t \in ToSet(g.any) <=> \E i \in DOMAIN kids : t \in Triggers(kids[i])
<1> DEFINE n == Len(kids)
           refused == Failed(kids) # {} \/ \E i \in DOMAIN kids : ~OrElement(kids[i])
           anys == [i \in DOMAIN kids |-> kids[i].all \o kids[i].any]
           g == When(<<>>, FlattenSeq(anys))
<1>1. n \in Nat /\ DOMAIN kids = 1..n /\ \A i \in 1..n : kids[i] \in Lowered
  OBVIOUS
<1>2. lower_any(kids) = IF refused THEN Err("UnrepresentableNesting") ELSE g
  BY DEF lower_any
<1>3. CASE refused
  <2>1. lower_any(kids) = Err("UnrepresentableNesting")
    BY <1>2, <1>3
  <2> QED
    BY <2>1, ErrIsErr DEF Lowered
<1>4. CASE ~refused
  <2>1. \A i \in DOMAIN kids : ~IsErr(kids[i]) /\ OrElement(kids[i])
    BY <1>4 DEF Failed
  <2>2. \A i \in 1..n : kids[i].all \in Seq(LeafTriggers) /\ kids[i].any \in Seq(LeafTriggers)
    BY <1>1, <2>1, LoweredShape
  <2>3. \A i \in 1..n : /\ kids[i].all \o kids[i].any \in Seq(LeafTriggers)
                        /\ ToSet(kids[i].all \o kids[i].any) = Triggers(kids[i])
    BY <2>2, ToSetConcat DEF Triggers
  <2>4. anys \in [1..n -> Seq(LeafTriggers)]
    BY <1>1, <2>3
  <2>5. \A i \in 1..n : ToSet(anys[i]) = Triggers(kids[i])
    BY <1>1, <2>3
  <2>6. g.all = <<>> /\ g.any = FlattenSeq(anys)
    BY DEF When
  <2>7. lower_any(kids) = g
    BY <1>2, <1>4
  <2> HIDE DEF anys
  <2>8. /\ g.any \in Seq(LeafTriggers)
        /\ \A t : t \in ToSet(g.any) <=> \E i \in 1..n : t \in ToSet(anys[i])
    BY <1>1, <2>4, <2>6, FlattenOf
  <2>9. <<>> \in Seq(LeafTriggers)
    OBVIOUS
  <2>10. g \in Lowered
    <3>1. \A a, b \in Seq(LeafTriggers) : When(a, b) \in Lowered
      BY DEF Lowered, LoweredGuards
    <3> QED
      BY <2>6, <2>8, <2>9, <3>1
  <2> HIDE DEF g
  <2> QED
    BY <1>1, <2>1, <2>5, <2>6, <2>7, <2>8, <2>10
<1> QED
  BY <1>3, <1>4

KidsOf(f, e) == [i \in DOMAIN e.kids |-> f[e.kids[i]]]

LEMMA KidsAreLowered ==
    ASSUME NEW e \in Exprs, e.node # "Leaf", NEW f \in [Exprs -> Lowered]
    PROVE  KidsOf(f, e) \in Seq(Lowered) /\ Len(KidsOf(f, e)) = Len(e.kids)
<1> DEFINE n == Len(e.kids)
<1>1. n \in Nat /\ DOMAIN e.kids = 1..n /\ \A i \in 1..n : e.kids[i] \in Exprs
  BY ExprShape
<1>2. KidsOf(f, e) \in [1..n -> Lowered]
  BY <1>1 DEF KidsOf
<1> QED
  BY <1>1, <1>2, FunctionIsSeq

LEMMA LowerNode ==
    ASSUME NEW e \in Exprs, NEW f
    PROVE  /\ e.node = "Leaf" => lower_node(f, e) = When(<<e.trigger>>, <<>>)
           /\ e.node = "All" => lower_node(f, e) = lower_all(KidsOf(f, e))
           /\ e.node = "Any" => lower_node(f, e) = lower_any(KidsOf(f, e))
  BY DEF lower_node, KidsOf

\* lower is what its arms say.
LEMMA LowerExpr ==
    /\ Guards \in [Exprs -> Lowered]
    /\ \A e \in Exprs : lower(e) = lower_node(Guards, e)
<1> DEFINE F == [f \in [Exprs -> Lowered] |-> [e \in Exprs |-> lower_node(f, e)]]
           low == CHOOSE f : f = [e \in Exprs |-> lower_node(f, e)]
<1>0. Size \in [Exprs -> Nat]
  <2>1. \A e \in Exprs : Size[e] \in Nat
    BY SizeIsLeast
  <2>2. Size = [e \in Exprs |-> Size[e]]
    BY DEF Size
  <2> QED
    BY <2>1, <2>2
<1>1. ASSUME NEW f \in [Exprs -> Lowered], NEW e \in Exprs PROVE lower_node(f, e) \in Lowered
  <2>1. CASE e.node = "Leaf"
    <3>1. e.trigger \in LeafTriggers
      BY <2>1, ExprShape DEF LeafTriggers
    <3>2. <<e.trigger>> \in Seq(LeafTriggers) /\ <<>> \in Seq(LeafTriggers)
      BY <3>1
    <3>3. \A a, b \in Seq(LeafTriggers) : When(a, b) \in Lowered
      BY DEF Lowered, LoweredGuards
    <3> QED
      BY <2>1, <3>2, <3>3, LowerNode
  <2>2. CASE e.node # "Leaf"
    <3>1. KidsOf(f, e) \in Seq(Lowered)
      BY <2>2, KidsAreLowered
    <3>2. lower_all(KidsOf(f, e)) \in Lowered /\ lower_any(KidsOf(f, e)) \in Lowered
      BY <3>1, LowerAll, LowerAny
    <3> QED
      BY <2>2, <3>2, LowerNode, ExprShape
  <2> QED
    BY <2>1, <2>2
<1>2. ASSUME NEW f, NEW g, NEW e \in Exprs, \A y \in Exprs : Size[y] < Size[e] => f[y] = g[y]
      PROVE  lower_node(f, e) = lower_node(g, e)
  <2>1. CASE e.node = "Leaf"
    BY <2>1, LowerNode
  <2>2. CASE e.node # "Leaf"
    <3>1. KidsOf(f, e) = KidsOf(g, e)
      BY <1>2, <2>2, ExprShape DEF KidsOf
    <3> QED
      BY <2>2, <3>1, LowerNode, ExprShape
  <2> QED
    BY <2>1, <2>2
<1>3. Recursion(Exprs, Lowered, Size, F)
  <2>1. F \in [[Exprs -> Lowered] -> [Exprs -> Lowered]]
    BY <1>1
  <2>2. ASSUME NEW f \in [Exprs -> Lowered], NEW g \in [Exprs -> Lowered], NEW e \in Exprs,
               \A y \in Exprs : Size[y] < Size[e] => f[y] = g[y]
        PROVE  F[f][e] = F[g][e]
    BY <1>2, <2>2
  <2> QED
    BY <1>0, <2>1, <2>2 DEF Recursion
<1>4. PICK f \in [Exprs -> Lowered] : F[f] = f
  <2>1. [e \in Exprs |-> Err("UnrepresentableNesting")] \in [Exprs -> Lowered]
    BY DEF Lowered
  <2>2. [Exprs -> Lowered] # {}
    BY <2>1
  <2> HIDE DEF F
  <2> QED
    BY <1>3, <2>2, FixedPoint
<1>5. f = [e \in Exprs |-> lower_node(f, e)]
  BY <1>4
<1>6. low = [e \in Exprs |-> lower_node(low, e)]
  BY <1>5
<1>7. Guards = [e \in Exprs |-> low[e]]
  BY DEF Guards
<1> HIDE DEF low
<1>8. Guards = low
  BY <1>6, <1>7
\* The definition has one solution: the one that was picked has values in Lowered.
<1> DEFINE T == {e \in Exprs : low[e] = f[e]}
<1>9. ASSUME NEW e \in Exprs, \A y \in Exprs : Size[y] < Size[e] => y \in T PROVE e \in T
  <2>1. \A y \in Exprs : Size[y] < Size[e] => low[y] = f[y]
    BY <1>9
  <2>2. lower_node(low, e) = lower_node(f, e)
    BY <1>2, <2>1
  <2> QED
    BY <1>5, <1>6, <2>2
<1>10. Exprs \subseteq T
  <2> HIDE DEF T
  <2> QED
    BY <1>0, <1>9, RankInduction
<1>11. low \in [Exprs -> Lowered]
  BY <1>6, <1>10
<1>12. \A e \in Exprs : lower(e) = lower_node(low, e)
  BY <1>6, <1>8 DEF lower
<1> QED
  BY <1>8, <1>11, <1>12

\* GuardHolds in terms of the sets of triggers.
LEMMA HoldsBySets ==
    ASSUME NEW S, NEW g, g.all \in Seq(S), g.any \in Seq(S), NEW latest, NEW zones
    PROVE  GuardHolds(g, latest, zones) <=>
                /\ Triggers(g) # {}
                /\ \A t \in ToSet(g.all) : trigger_matches(t, latest, zones)
                /\ \/ ToSet(g.any) = {}
                   \/ \E t \in ToSet(g.any) : trigger_matches(t, latest, zones)
<1>1. (g.all = <<>> <=> ToSet(g.all) = {}) /\ (g.any = <<>> <=> ToSet(g.any) = {})
  BY ToSetEmpty
<1>2. (\A i \in DOMAIN g.all : trigger_matches(g.all[i], latest, zones)) <=>
      \A t \in ToSet(g.all) : trigger_matches(t, latest, zones)
  BY DEF ToSet
<1>3. (\E i \in DOMAIN g.any : trigger_matches(g.any[i], latest, zones)) <=>
      \E t \in ToSet(g.any) : trigger_matches(t, latest, zones)
  BY DEF ToSet
<1> QED
  BY <1>1, <1>2, <1>3 DEF GuardHolds, Triggers

\* The guard of an expression in terms of the guards of its parts.
LEMMA LowerParts ==
    ASSUME NEW e \in Exprs, ~IsErr(lower(e))
    PROVE  /\ lower(e).all \in Seq(LeafTriggers) /\ lower(e).any \in Seq(LeafTriggers)
           /\ e.node = "Leaf" => lower(e) = When(<<e.trigger>>, <<>>)
           /\ e.node \in {"All", "Any"} =>
                \A i \in DOMAIN e.kids : e.kids[i] \in Exprs /\ ~IsErr(lower(e.kids[i]))
           /\ e.node = "All" =>
                /\ \A i, j \in DOMAIN e.kids :
                    i = j \/ lower(e.kids[i]).any = <<>> \/ lower(e.kids[j]).any = <<>>
                /\ \A t : t \in ToSet(lower(e).all) <=>
                            \E i \in DOMAIN e.kids : t \in ToSet(lower(e.kids[i]).all)
                /\ \A t : t \in ToSet(lower(e).any) <=>
                            \E i \in DOMAIN e.kids : t \in ToSet(lower(e.kids[i]).any)
           /\ e.node = "Any" =>
                /\ \A i \in DOMAIN e.kids : OrElement(lower(e.kids[i]))
                /\ lower(e).all = <<>>
                /\ \A t : t \in ToSet(lower(e).any) <=>
                            \E i \in DOMAIN e.kids : t \in Triggers(lower(e.kids[i]))
<1> DEFINE kids == KidsOf(Guards, e)
<1>1. Guards \in [Exprs -> Lowered] /\ lower(e) = lower_node(Guards, e)
  BY LowerExpr
<1>2. lower(e) \in Lowered
  BY <1>1 DEF lower
<1>3. lower(e).all \in Seq(LeafTriggers) /\ lower(e).any \in Seq(LeafTriggers)
  BY <1>2, LoweredShape
<1>4. CASE e.node = "Leaf"
  BY <1>1, <1>3, <1>4, LowerNode
<1>5. CASE e.node # "Leaf"
  <2>1. kids \in Seq(Lowered)
    BY <1>1, <1>5, KidsAreLowered
  <2>2. DOMAIN kids = DOMAIN e.kids /\ \A i \in DOMAIN e.kids : kids[i] = lower(e.kids[i])
    BY DEF KidsOf, lower
  <2>3. e.node \in {"All", "Any"} /\ \A i \in DOMAIN e.kids : e.kids[i] \in Exprs
    BY <1>5, ExprShape
  <2>4. CASE e.node = "All"
    <3>1. lower(e) = lower_all(kids)
      BY <1>1, <2>4, LowerNode
    <3> HIDE DEF kids
    <3>2. /\ \A i \in DOMAIN kids : ~IsErr(kids[i])
          /\ \A i, j \in DOMAIN kids : i = j \/ kids[i].any = <<>> \/ kids[j].any = <<>>
          /\ \A t : t \in ToSet(lower(e).all) <=> \E i \in DOMAIN kids : t \in ToSet(kids[i].all)
          /\ \A t : t \in ToSet(lower(e).any) <=> \E i \in DOMAIN kids : t \in ToSet(kids[i].any)
      BY <2>1, <3>1, LowerAll
    <3>3. \A i, j \in DOMAIN e.kids :
              i = j \/ lower(e.kids[i]).any = <<>> \/ lower(e.kids[j]).any = <<>>
      BY <2>2, <3>2
    <3>4. /\ \A t : t \in ToSet(lower(e).all) <=>
                      \E i \in DOMAIN e.kids : t \in ToSet(lower(e.kids[i]).all)
          /\ \A t : t \in ToSet(lower(e).any) <=>
                      \E i \in DOMAIN e.kids : t \in ToSet(lower(e.kids[i]).any)
      BY <2>2, <3>2
    <3> QED
      BY <1>3, <2>2, <2>3, <2>4, <3>2, <3>3, <3>4
  <2>5. CASE e.node = "Any"
    <3>1. lower(e) = lower_any(kids)
      BY <1>1, <2>5, LowerNode
    <3> HIDE DEF kids
    <3> QED
      BY <1>3, <2>1, <2>2, <2>3, <2>5, <3>1, LowerAny
  <2> QED
    BY <2>3, <2>4, <2>5
<1> QED
  BY <1>4, <1>5

\* A guard that lowering makes has a trigger.
LEMMA LowerHasTriggers ==
    ASSUME NEW e \in Exprs, ~IsErr(lower(e))
    PROVE  Triggers(lower(e)) # {}
<1> DEFINE T == {x \in Exprs : IsErr(lower(x)) \/ Triggers(lower(x)) # {}}
<1>1. ASSUME NEW x \in Exprs, \A y \in Exprs : Size[y] < Size[x] => y \in T, ~IsErr(lower(x))
      PROVE  Triggers(lower(x)) # {}
  <2>1. CASE x.node = "Leaf"
    <3>1. lower(x) = When(<<x.trigger>>, <<>>)
      BY <1>1, <2>1, LowerParts
    <3>2. lower(x).all = <<x.trigger>>
      BY <3>1 DEF When
    <3>3. x.trigger \in ToSet(<<x.trigger>>)
      BY DEF ToSet
    <3> QED
      BY <3>2, <3>3 DEF Triggers
  <2>2. CASE x.node # "Leaf"
    <3>1. x.node \in {"All", "Any"} /\ x.kids \in Seq(Exprs) /\ x.kids # <<>>
      BY <2>2, ExprShape
    <3>2. 1 \in DOMAIN x.kids
      BY <3>1, EmptySeq
    <3>3. x.kids[1] \in Exprs /\ Size[x.kids[1]] < Size[x]
      BY <2>2, <3>2, ExprShape
    <3>4. ~IsErr(lower(x.kids[1]))
      BY <1>1, <3>1, <3>2, LowerParts
    <3>5. Triggers(lower(x.kids[1])) # {}
      BY <1>1, <3>3, <3>4
    <3>6. PICK t : t \in Triggers(lower(x.kids[1]))
      BY <3>5
    <3>7. t \in Triggers(lower(x))
      BY <1>1, <3>1, <3>2, <3>6, LowerParts DEF Triggers
    <3> QED
      BY <3>7
  <2> QED
    BY <2>1, <2>2
<1>2. \A x \in Exprs : (\A y \in Exprs : Size[y] < Size[x] => y \in T) => x \in T
  BY <1>1
<1>3. Size \in [Exprs -> Nat]
  <2>1. \A x \in Exprs : Size[x] \in Nat
    BY SizeIsLeast
  <2>2. Size = [x \in Exprs |-> Size[x]]
    BY DEF Size
  <2> QED
    BY <2>1, <2>2
<1> HIDE DEF T
<1>4. Exprs \subseteq T
  BY <1>2, <1>3, RankInduction
<1> QED
  BY <1>4 DEF T

\* The guard of an All holds exactly when those of its parts all do, the guard of an
\* Any exactly when one of those of its parts does.
LEMMA LowerHolds ==
    ASSUME NEW e \in Exprs, ~IsErr(lower(e)), NEW latest, NEW zones
    PROVE  LET holds(x) == GuardHolds(lower(x), latest, zones)
           IN  /\ e.node = "Leaf" => (holds(e) <=> trigger_matches(e.trigger, latest, zones))
               /\ e.node = "All" => (holds(e) <=> \A i \in DOMAIN e.kids : holds(e.kids[i]))
               /\ e.node = "Any" => (holds(e) <=> \E i \in DOMAIN e.kids : holds(e.kids[i]))
<1> DEFINE holds(x) == GuardHolds(lower(x), latest, zones)
           m(t) == trigger_matches(t, latest, zones)
           BySets(g) == /\ Triggers(g) # {}
                        /\ \A t \in ToSet(g.all) : m(t)
                        /\ ToSet(g.any) = {} \/ \E t \in ToSet(g.any) : m(t)
<1>0. ASSUME NEW x \in Exprs, ~IsErr(lower(x))
      PROVE  /\ holds(x) <=> BySets(lower(x))
             /\ Triggers(lower(x)) # {}
             /\ lower(x).any = <<>> <=> ToSet(lower(x).any) = {}
  <2>1. lower(x).all \in Seq(LeafTriggers) /\ lower(x).any \in Seq(LeafTriggers)
    BY <1>0, LowerParts
  <2>2. holds(x) <=> BySets(lower(x))
    BY <2>1, HoldsBySets
  <2> QED
    BY <1>0, <2>1, <2>2, LowerHasTriggers, ToSetEmpty
<1> HIDE DEF holds, m
<1>1. CASE e.node = "Leaf"
  <2>1. lower(e) = When(<<e.trigger>>, <<>>)
    BY <1>1, LowerParts
  <2>2. ToSet(<<e.trigger>>) = {e.trigger} /\ ToSet(<<>>) = {}
    BY DEF ToSet
  <2>3. ToSet(lower(e).all) = {e.trigger} /\ ToSet(lower(e).any) = {}
    BY <2>1, <2>2 DEF When
  <2>4. holds(e) <=> m(e.trigger)
    BY <1>0, <2>3
  <2> QED
    BY <1>1, <2>4 DEF holds, m
<1>2. CASE e.node # "Leaf"
  <2> DEFINE K == DOMAIN e.kids
             g(i) == lower(e.kids[i])
             all == ToSet(lower(e).all)
             any == ToSet(lower(e).any)
  <2>1. e.node \in {"All", "Any"} /\ \A i \in K : e.kids[i] \in Exprs /\ ~IsErr(g(i))
    BY <1>2, ExprShape, LowerParts
  <2>2. \A i \in K : /\ holds(e.kids[i]) <=> BySets(g(i))
                     /\ Triggers(g(i)) # {}
                     /\ g(i).any = <<>> <=> ToSet(g(i).any) = {}
    BY <1>0, <2>1
  <2>3. 1 \in K
    BY <1>2, ExprShape, EmptySeq
  <2>4. holds(e) <=> BySets(lower(e))
    BY <1>0
  <2>5. Triggers(lower(e)) # {}
    BY LowerHasTriggers
  <2>6. CASE e.node = "All"
    <3>0. \A i, j \in K : i = j \/ g(i).any = <<>> \/ g(j).any = <<>>
      BY <2>6, LowerParts
    <3>1. /\ \A i, j \in K : i = j \/ ToSet(g(i).any) = {} \/ ToSet(g(j).any) = {}
          /\ \A t : t \in all <=> \E i \in K : t \in ToSet(g(i).all)
          /\ \A t : t \in any <=> \E i \in K : t \in ToSet(g(i).any)
      <4>1. /\ \A t : t \in all <=> \E i \in K : t \in ToSet(g(i).all)
            /\ \A t : t \in any <=> \E i \in K : t \in ToSet(g(i).any)
        BY <2>6, LowerParts
      <4> HIDE DEF K, g, all, any
      <4> QED
        BY <2>2, <3>0, <4>1
    <3> HIDE DEF K, g, all, any
    <3>2. ASSUME holds(e), NEW i \in K PROVE holds(e.kids[i])
      <4>1. \A t \in ToSet(g(i).all) : m(t)
        BY <2>4, <3>1, <3>2 DEF all
      <4>2. ASSUME ToSet(g(i).any) # {} PROVE \E t \in ToSet(g(i).any) : m(t)
        <5>1. any # {}
          BY <3>1, <4>2
        <5>2. PICK t \in any : m(t)
          BY <2>4, <3>2, <5>1 DEF any
        <5>3. PICK j \in K : t \in ToSet(g(j).any)
          BY <3>1, <5>2
        <5>4. i = j
          BY <3>1, <4>2, <5>3
        <5> QED
          BY <5>2, <5>3, <5>4
      <4> QED
        BY <2>2, <4>1, <4>2
    <3>3. ASSUME \A i \in K : holds(e.kids[i]) PROVE holds(e)
      <4>1. \A t \in all : m(t)
        BY <2>2, <3>1, <3>3
      <4>2. ASSUME any # {} PROVE \E t \in any : m(t)
        <5>1. PICK i \in K : ToSet(g(i).any) # {}
          BY <3>1, <4>2
        <5>2. PICK t \in ToSet(g(i).any) : m(t)
          BY <2>2, <3>3, <5>1
        <5> QED
          BY <3>1, <5>2
      <4> QED
        BY <2>4, <2>5, <4>1, <4>2 DEF all, any
    <3>4. holds(e) <=> \A i \in K : holds(e.kids[i])
      BY <3>2, <3>3
    <3> QED
      BY <2>6, <3>4 DEF holds, K
  <2>7. CASE e.node = "Any"
    <3>1. /\ \A i \in K : OrElement(g(i))
          /\ lower(e).all = <<>>
          /\ \A t : t \in any <=> \E i \in K : t \in Triggers(g(i))
      BY <2>7, LowerParts
    <3>2. all = {}
      BY <3>1 DEF ToSet
    <3>3. ASSUME NEW i \in K PROVE holds(e.kids[i]) <=> \E t \in Triggers(g(i)) : m(t)
      <4>1. CASE g(i).any = <<>>
        <5>1. Len(g(i).all) = 1 /\ g(i).all \in Seq(LeafTriggers)
          BY <2>1, <3>1, <4>1, LowerParts DEF OrElement
        <5>2. ToSet(g(i).all) = {g(i).all[1]}
          BY <5>1 DEF ToSet
        <5> QED
          BY <2>2, <4>1, <5>2 DEF Triggers
      <4>2. CASE g(i).any # <<>>
        <5>1. ToSet(g(i).all) = {}
          BY <3>1, <4>2 DEF OrElement, ToSet
        <5> QED
          BY <2>2, <4>2, <5>1 DEF Triggers
      <4> QED
        BY <4>1, <4>2
    <3>4. holds(e) <=> \E t \in any : m(t)
      BY <2>4, <2>5, <3>2 DEF Triggers
    <3> HIDE DEF K, g, all, any
    <3>5. holds(e) <=> \E i \in K : holds(e.kids[i])
      BY <3>1, <3>3, <3>4
    <3> QED
      BY <2>7, <3>5 DEF holds, K
  <2> QED
    BY <2>1, <2>6, <2>7
<1> QED
  BY <1>1, <1>2

\* A condition is lowered when its conjuncts are, and its guard holds exactly when
\* theirs do.
LEMMA ConjunctsHold ==
    ASSUME NEW w \in Valid, ~IsErr(lower(build_when_expr(w))), NEW latest, NEW zones
    PROVE  /\ \A c \in Conjuncts(w) : c \in Exprs /\ ~IsErr(lower(c))
           /\ GuardHolds(lower(build_when_expr(w)), latest, zones) <=>
                \A c \in Conjuncts(w) : GuardHolds(lower(c), latest, zones)
<1> DEFINE b == build_when_expr(w)
           holds(x) == GuardHolds(lower(x), latest, zones)
<1>1. \A c \in Conjuncts(w) : c \in Exprs
  BY ConjunctIsSmaller
<1>2. b \in Exprs
  BY DEF Exprs, Parts, Valid
<1> HIDE DEF b, holds
<1>3. CASE Conjuncts(w) = {b}
  BY <1>1, <1>3 DEF b, holds
<1>4. ASSUME NEW kids \in Seq(Conjuncts(w)), b = WhenAll(kids), ToSet(kids) = Conjuncts(w)
      PROVE  /\ \A c \in Conjuncts(w) : ~IsErr(lower(c))
             /\ holds(b) <=> \A c \in Conjuncts(w) : holds(c)
  <2>1. b.node = "All" /\ b.kids = kids
    BY <1>4 DEF WhenAll
  <2>2. \A i \in DOMAIN kids : ~IsErr(lower(kids[i]))
    BY <1>2, <2>1, LowerParts DEF b
  <2>3. holds(b) <=> \A i \in DOMAIN kids : holds(kids[i])
    BY <1>2, <2>1, LowerHolds DEF b, holds
  <2>4. \A c \in Conjuncts(w) : \E i \in DOMAIN kids : c = kids[i]
    BY <1>4 DEF ToSet
  <2>5. \A i \in DOMAIN kids : kids[i] \in Conjuncts(w)
    OBVIOUS
  <2> QED
    BY <2>2, <2>3, <2>4, <2>5
<1> QED
  BY <1>1, <1>3, <1>4, BuildShape DEF b, holds
=============================================================================
