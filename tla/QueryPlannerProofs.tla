------------------------- MODULE QueryPlannerProofs -------------------------
(***************************************************************************)
(* Theorems about the plan of DefaultGrpcQueryDataProvider, for any ledger *)
(* and any set of queries whose predicates and includes are finite trees   *)
(* over the schema: the rows the plan chooses answer as all rows would.    *)
(***************************************************************************)
EXTENDS QueryPlanner, WellFoundedInduction, TLAPS

(***************************************************************************)
(* Induction and recursion over trees, by depth.  A recursive definition   *)
(* is only known to meet its equation once some function does.             *)
(***************************************************************************)

\* A set of numbers that is not empty has a least one.
LEMMA FirstOf ==
  ASSUME NEW T, T \subseteq Nat, T # {}
  PROVE \E x \in T : \A y \in T : x <= y
  <1>. DEFINE R == OpToRel(<, Nat)
  <1>1. IsWellFoundedOn(R, Nat)
    BY NatLessThanWellFounded
  <1>2. \A x, y \in Nat : x < y => <<x, y>> \in R
    BY DEF OpToRel
  <1>. HIDE DEF R
  <1>3. PICK x \in T : \A y \in T : ~(<<y, x>> \in R)
    BY <1>1, WFMin
  <1>4. ASSUME NEW y \in T PROVE x <= y
    <2>1. x \in Nat /\ y \in Nat /\ ~(y < x)
      BY <1>2, <1>3
    <2>. QED
      BY <2>1
  <1>. QED
    BY <1>4

\* What passes from each number to the next holds of all.
LEMMA UpTo ==
  ASSUME NEW T, 0 \in T, \A k \in Nat : k \in T => k + 1 \in T
  PROVE \A k \in Nat : k \in T
  <1>. SUFFICES ASSUME NEW z \in Nat, z \notin T PROVE FALSE
    OBVIOUS
  <1>. DEFINE Bad == {k \in Nat : k \notin T}
  <1>1. PICK k \in Bad : \A y \in Bad : k <= y
    <2>1. Bad \subseteq Nat /\ Bad # {}
      OBVIOUS
    <2>. HIDE DEF Bad
    <2>. QED
      BY <2>1, FirstOf
  <1>2. k \in Nat /\ k # 0 /\ k - 1 \in Nat /\ ~(k <= k - 1) /\ (k - 1) + 1 = k
    BY <1>1
  <1>3. k - 1 \in T
    BY <1>1, <1>2
  <1>. QED
    BY <1>1, <1>2, <1>3

\* Trees, the parts of each less deep than itself.
Trees(S, parts, depth) ==
  /\ parts \in [S -> SUBSET S]
  /\ depth \in [S -> Nat]
  /\ \A x \in S : \A y \in parts[x] : depth[y] < depth[x]

\* What passes from the parts of a tree to the tree.
Inherited(S, parts, T) == \A x \in S : (\A y \in parts[x] : y \in T) => x \in T

\* H computes a value of V from the values at the parts.
Recursion(S, parts, V, H) ==
  /\ V # {}
  /\ H \in [S -> [[S -> V] -> V]]
  /\ \A x \in S : \A f, g \in [S -> V] : (\A y \in parts[x] : f[y] = g[y]) => H[x][f] = H[x][g]

\* What the trees inherit holds of every tree.
LEMMA TreeInduction ==
  ASSUME NEW S, NEW parts, NEW depth, NEW T, Trees(S, parts, depth), Inherited(S, parts, T)
  PROVE \A x \in S : x \in T
  <1>. USE DEF Trees, Inherited
  <1>. SUFFICES ASSUME NEW z \in S, z \notin T PROVE FALSE
    OBVIOUS
  <1>. DEFINE Bad == {x \in S : x \notin T}
              Depths == {depth[x] : x \in Bad}
  <1>1. PICK d \in Depths : \A e \in Depths : d <= e
    <2>1. Depths \subseteq Nat /\ Depths # {}
      OBVIOUS
    <2>. HIDE DEF Depths
    <2>. QED
      BY <2>1, FirstOf
  <1>2. PICK x \in Bad : d = depth[x]
    BY <1>1
  <1>3. ASSUME NEW y \in parts[x] PROVE y \in T
    <2>1. y \in S /\ depth[y] < depth[x] /\ depth[y] \in Nat /\ depth[x] \in Nat
      BY <1>2
    <2>2. ~(depth[x] <= depth[y])
      BY <2>1
    <2>. QED
      BY <1>1, <1>2, <2>1, <2>2
  <1>. QED
    BY <1>2, <1>3

\* A function that recurs over the parts of trees exists.
LEMMA TreeRecursion ==
  ASSUME NEW S, NEW parts, NEW depth, NEW V, NEW H, Trees(S, parts, depth), Recursion(S, parts, V, H)
  PROVE \E f \in [S -> V] : \A x \in S : f[x] = H[x][f]
  <1>. USE DEF Trees, Recursion
  <1>. DEFINE Good(k) == {f \in [S -> V] : \A x \in S : depth[x] < k => f[x] = H[x][f]}
              T == {k \in Nat : Good(k) # {}}
  <1>1. 0 \in T
    <2>1. PICK v : v \in V
      OBVIOUS
    <2>2. [x \in S |-> v] \in Good(0)
      BY <2>1
    <2>. QED
      BY <2>2
  <1>2. ASSUME NEW k \in Nat, k \in T PROVE k + 1 \in T
    <2>1. PICK f \in [S -> V] : \A x \in S : depth[x] < k => f[x] = H[x][f]
      BY <1>2
    <2>. DEFINE g == [x \in S |-> H[x][f]]
    <2>2. g \in [S -> V]
      OBVIOUS
    <2>3. ASSUME NEW x \in S, depth[x] < k + 1 PROVE g[x] = H[x][g]
      <3>1. ASSUME NEW y \in parts[x] PROVE f[y] = g[y]
        <4>1. y \in S /\ depth[y] < depth[x] /\ depth[y] \in Nat /\ depth[x] \in Nat
          OBVIOUS
        <4>2. depth[y] < k
          BY <2>3, <4>1
        <4>. QED
          BY <2>1, <4>1, <4>2
      <3>. QED
        BY <2>2, <3>1
    <2>4. g \in Good(k + 1)
      BY <2>2, <2>3
    <2>. HIDE DEF Good
    <2>5. k + 1 \in Nat /\ Good(k + 1) # {}
      BY <2>4
    <2>. QED
      BY <2>5
  <1>3. \A k \in Nat : Good(k) # {}
    <2>. HIDE DEF T, Good
    <2>1. \A k \in Nat : k \in T
      BY <1>1, <1>2, UpTo
    <2>. QED
      BY <2>1 DEF T
  <1>. DEFINE F == [k \in Nat |-> CHOOSE f \in [S -> V] : f \in Good(k)]
  <1>4. ASSUME NEW k \in Nat
        PROVE /\ F[k] \in [S -> V]
              /\ \A x \in S : depth[x] < k => F[k][x] = H[x][F[k]]
    <2>1. \E f \in [S -> V] : f \in Good(k)
      BY <1>3
    <2>2. F[k] \in [S -> V] /\ F[k] \in Good(k)
      <3>. HIDE DEF Good
      <3>. QED
        BY <2>1
    <2>. QED
      BY <2>2
  <1>. HIDE DEF F, Good
  <1>. DEFINE U == {x \in S : \A j, k \in Nat : depth[x] < j /\ depth[x] < k => F[j][x] = F[k][x]}
  <1>5. ASSUME NEW x \in S, \A y \in parts[x] : y \in U PROVE x \in U
    <2>1. ASSUME NEW j \in Nat, NEW k \in Nat, depth[x] < j, depth[x] < k PROVE F[j][x] = F[k][x]
      <3>1. ASSUME NEW y \in parts[x] PROVE F[j][y] = F[k][y]
        <4>1. y \in S /\ depth[y] < depth[x] /\ depth[y] \in Nat /\ depth[x] \in Nat
          OBVIOUS
        <4>2. depth[y] < j /\ depth[y] < k
          BY <2>1, <4>1
        <4>. QED
          BY <1>5, <4>2
      <3>2. F[j] \in [S -> V] /\ F[k] \in [S -> V]
        BY <1>4
      <3>3. H[x][F[j]] = H[x][F[k]]
        BY <3>1, <3>2
      <3>. QED
        BY <1>4, <2>1, <3>3
    <2>. QED
      BY <2>1
  <1>6. \A x \in S : x \in U
    <2>. HIDE DEF U
    <2>1. Inherited(S, parts, U)
      BY <1>5 DEF Inherited
    <2>. HIDE DEF Trees, Recursion
    <2>. QED
      BY <2>1, TreeInduction
  <1>. DEFINE f == [x \in S |-> F[depth[x] + 1][x]]
  <1>7. f \in [S -> V]
    <2>1. ASSUME NEW x \in S PROVE F[depth[x] + 1][x] \in V
      <3>1. depth[x] + 1 \in Nat
        OBVIOUS
      <3>. QED
        BY <1>4, <3>1
    <2>. QED
      BY <2>1
  <1>8. ASSUME NEW x \in S PROVE f[x] = H[x][f]
    <2>. DEFINE k == depth[x] + 1
    <2>1. k \in Nat /\ depth[x] < k
      OBVIOUS
    <2>2. F[k] \in [S -> V] /\ F[k][x] = H[x][F[k]]
      BY <1>4, <2>1
    <2>3. ASSUME NEW y \in parts[x] PROVE F[k][y] = f[y]
      <3>1. y \in S /\ depth[y] < depth[x] /\ depth[y] \in Nat /\ depth[x] \in Nat
        OBVIOUS
      <3>2. depth[y] + 1 \in Nat /\ depth[y] < depth[y] + 1 /\ depth[y] < k
        BY <3>1
      <3>. QED
        BY <1>6, <2>1, <3>1, <3>2
    <2>4. H[x][F[k]] = H[x][f]
      <3>. HIDE DEF f, k
      <3>. QED
        BY <1>7, <2>2, <2>3
    <2>. QED
      BY <2>2, <2>4
  <1>. QED
    BY <1>7, <1>8

-----------------------------------------------------------------------------
(***************************************************************************)
(* What the recursive definitions compute on predicates and includes.      *)
(***************************************************************************)

\* What the assumptions say of a predicate and its parts.
LEMMA PredicateShape ==
  ASSUME NEW p \in Predicates
  PROVE /\ p.kind \in {"scalar", "and", "or", "not", "relation"}
        /\ p.relation \in Relations
        /\ Parts(p) \subseteq Predicates
        /\ p.kind = "scalar" => Parts(p) = {}
        /\ p.kind \in {"and", "or"} => /\ Parts(p) = Children(p)
                                       /\ \A child \in Children(p) : child \in Predicates /\ child.relation = p.relation
        /\ p.kind = "not" => Parts(p) = {p.child} /\ p.child \in Predicates /\ p.child.relation = p.relation
        /\ p.kind = "relation" => /\ Parts(p) = {p.predicate} /\ p.predicate \in Predicates
                                  /\ <<p.relation, p.edge, p.predicate.relation>> \in Edges
                                  /\ p.quantifier \in {"one", "some", "none", "every"}
  <1>1. /\ p.kind \in {"scalar", "and", "or", "not", "relation"}
        /\ p.relation \in Relations
        /\ \A part \in Parts(p) : part \in Predicates
        /\ p.kind \in {"and", "or", "not"} => \A part \in Parts(p) : part.relation = p.relation
        /\ p.kind = "relation" => /\ <<p.relation, p.edge, p.predicate.relation>> \in Edges
                                  /\ p.quantifier \in {"one", "some", "none", "every"}
    BY PlannerAssumption DEF PredicateAssumption
  <1>2. p.kind = "scalar" => Parts(p) = {}
    BY DEF Parts
  <1>3. p.kind \in {"and", "or"} => Parts(p) = Children(p)
    BY DEF Parts
  <1>4. p.kind = "not" => Parts(p) = {p.child}
    BY DEF Parts
  <1>5. p.kind = "relation" => Parts(p) = {p.predicate}
    BY DEF Parts
  <1>. QED
    BY <1>1, <1>2, <1>3, <1>4, <1>5

\* The part of a negation and that of a relation predicate.
LEMMA OnlyPart ==
  ASSUME NEW p \in Predicates, NEW part \in Parts(p)
  PROVE /\ part \in Predicates
        /\ p.kind \in {"and", "or"} => part \in Children(p) /\ part.relation = p.relation
        /\ p.kind = "not" => part = p.child /\ part.relation = p.relation
        /\ p.kind = "relation" => part = p.predicate
  <1>1. part \in Predicates /\ (p.kind \in {"and", "or"} => Parts(p) = Children(p))
    BY PredicateShape
  <1>2. p.kind \in {"and", "or", "not"} => part.relation = p.relation
    BY PlannerAssumption DEF PredicateAssumption
  <1>3. p.kind = "not" => Parts(p) = {p.child}
    BY PredicateShape
  <1>4. p.kind = "relation" => Parts(p) = {p.predicate}
    BY PredicateShape
  <1>. QED
    BY <1>1, <1>2, <1>3, <1>4

\* What passes from its parts to a predicate holds of every predicate.
LEMMA PredicateInduction ==
  ASSUME NEW T, \A p \in Predicates : (\A part \in Parts(p) : part \in T) => p \in T
  PROVE \A p \in Predicates : p \in T
  <1>. DEFINE parts == [p \in Predicates |-> Parts(p)]
              depth == [p \in Predicates |-> PredicateDepth(p)]
  <1>1. /\ \A p \in Predicates : PredicateDepth(p) \in Nat
        /\ \A p \in Predicates : \A part \in Parts(p) : part \in Predicates /\ PredicateDepth(part) < PredicateDepth(p)
    BY PlannerAssumption DEF PredicateAssumption
  <1>2. parts \in [Predicates -> SUBSET Predicates] /\ depth \in [Predicates -> Nat]
    BY <1>1
  <1>3. \A p \in Predicates : \A part \in parts[p] : depth[part] < depth[p]
    BY <1>1
  <1>4. \A p \in Predicates : (\A part \in parts[p] : part \in T) => p \in T
    OBVIOUS
  <1>. HIDE DEF parts, depth
  <1>5. Trees(Predicates, parts, depth) /\ Inherited(Predicates, parts, T)
    BY <1>2, <1>3, <1>4 DEF Trees, Inherited
  <1>. QED
    BY <1>5, TreeInduction

\* H computes a value of V from the values at the parts of a predicate.
PredicateStep(V, H) ==
  /\ V # {}
  /\ H \in [Predicates -> [[Predicates -> V] -> V]]
  /\ \A p \in Predicates : \A f, g \in [Predicates -> V] :
       (\A part \in Parts(p) : f[part] = g[part]) => H[p][f] = H[p][g]

\* A function that recurs over the parts of predicates exists.
LEMMA PredicateRecursion ==
  ASSUME NEW V, NEW H, PredicateStep(V, H)
  PROVE \E f \in [Predicates -> V] : \A p \in Predicates : f[p] = H[p][f]
  <1>. DEFINE parts == [p \in Predicates |-> Parts(p)]
              depth == [p \in Predicates |-> PredicateDepth(p)]
  <1>1. /\ \A p \in Predicates : PredicateDepth(p) \in Nat
        /\ \A p \in Predicates : \A part \in Parts(p) : part \in Predicates /\ PredicateDepth(part) < PredicateDepth(p)
    BY PlannerAssumption DEF PredicateAssumption
  <1>2. parts \in [Predicates -> SUBSET Predicates] /\ depth \in [Predicates -> Nat]
    BY <1>1
  <1>3. \A p \in Predicates : \A part \in parts[p] : depth[part] < depth[p]
    BY <1>1
  <1>4. \A p \in Predicates : \A f, g \in [Predicates -> V] :
          (\A part \in parts[p] : f[part] = g[part]) => H[p][f] = H[p][g]
    BY DEF PredicateStep
  <1>. HIDE DEF parts, depth
  <1>5. Trees(Predicates, parts, depth) /\ Recursion(Predicates, parts, V, H)
    BY <1>2, <1>3, <1>4 DEF Trees, Recursion, PredicateStep
  <1>. QED
    BY <1>5, TreeRecursion

\* What predicateProvesActive computes.
LEMMA ProvesActiveIs ==
  /\ ProvesActive \in [Predicates -> BOOLEAN]
  /\ \A p \in Predicates : ProvesActive[p] <=>
       \/ p.kind = "scalar" /\ p.field = "active"
       \/ p.kind = "and" /\ \E child \in Children(p) : ProvesActive[child]
       \/ p.kind = "or" /\ p.children # <<>> /\ \A child \in Children(p) : ProvesActive[child]
  <1>. DEFINE Body(p, f) ==
         \/ p.kind = "scalar" /\ p.field = "active"
         \/ p.kind = "and" /\ \E child \in Children(p) : f[child]
         \/ p.kind = "or" /\ p.children # <<>> /\ \A child \in Children(p) : f[child]
       Functions == [Predicates -> BOOLEAN]
       H == [p \in Predicates |-> [f \in Functions |-> Body(p, f)]]
  <1>1. H \in [Predicates -> [Functions -> BOOLEAN]]
    OBVIOUS
  <1>2. \A p \in Predicates : \A f \in Functions : H[p][f] = Body(p, f)
    OBVIOUS
  <1>3. ASSUME NEW p \in Predicates, NEW f \in Functions, NEW g \in Functions,
               \A part \in Parts(p) : f[part] = g[part]
        PROVE Body(p, f) = Body(p, g)
    <2>1. p.kind \in {"and", "or"} => \A child \in Children(p) : f[child] = g[child]
      BY <1>3, PredicateShape
    <2>. QED
      BY <2>1
  <1>4. PICK f \in Functions : \A p \in Predicates : f[p] = Body(p, f)
    <2>. HIDE DEF H, Body
    <2>1. \A p \in Predicates : \A f, g \in Functions :
            (\A part \in Parts(p) : f[part] = g[part]) => H[p][f] = H[p][g]
      BY <1>2, <1>3
    <2>2. PredicateStep(BOOLEAN, H)
      BY <1>1, <2>1 DEF PredicateStep
    <2>3. \E f \in Functions : \A p \in Predicates : f[p] = H[p][f]
      BY <2>2, PredicateRecursion
    <2>. QED
      BY <1>2, <2>3
  <1>5. f = [p \in Predicates |-> Body(p, f)]
    <2>. HIDE DEF Body
    <2>. QED
      BY <1>4
  <1>6. ProvesActive = [p \in Predicates |-> Body(p, ProvesActive)]
    BY <1>5 DEF ProvesActive
  <1>. QED
    BY <1>6

\* What predicateRequiresHistory computes.
LEMMA RequiresHistoryIs ==
  /\ PredicateRequiresHistory \in [Predicates -> BOOLEAN]
  /\ \A p \in Predicates : PredicateRequiresHistory[p] <=>
       \/ p.kind = "not" /\ PredicateRequiresHistory[p.child]
       \/ p.kind \in {"and", "or"} /\ \E child \in Children(p) : PredicateRequiresHistory[child]
       \/ /\ p.kind = "relation"
          /\ IF p.predicate.relation = "contracts" THEN ~ActiveStep(p)
             ELSE p.predicate.relation \in HistoryRelations \/ PredicateRequiresHistory[p.predicate]
  <1>. DEFINE Body(p, f) ==
         \/ p.kind = "not" /\ f[p.child]
         \/ p.kind \in {"and", "or"} /\ \E child \in Children(p) : f[child]
         \/ /\ p.kind = "relation"
            /\ IF p.predicate.relation = "contracts" THEN ~ActiveStep(p)
               ELSE p.predicate.relation \in HistoryRelations \/ f[p.predicate]
       Functions == [Predicates -> BOOLEAN]
       H == [p \in Predicates |-> [f \in Functions |-> Body(p, f)]]
  <1>1. H \in [Predicates -> [Functions -> BOOLEAN]]
    OBVIOUS
  <1>2. \A p \in Predicates : \A f \in Functions : H[p][f] = Body(p, f)
    OBVIOUS
  <1>3. ASSUME NEW p \in Predicates, NEW f \in Functions, NEW g \in Functions,
               \A part \in Parts(p) : f[part] = g[part]
        PROVE H[p][f] = H[p][g]
    <2>1. p.kind \in {"and", "or"} => \A child \in Children(p) : f[child] = g[child]
      BY <1>3, PredicateShape
    <2>2. p.kind = "not" => f[p.child] = g[p.child]
      BY <1>3, PredicateShape
    <2>3. p.kind = "relation" => f[p.predicate] = g[p.predicate]
      BY <1>3, PredicateShape
    <2>4. Body(p, f) = Body(p, g)
      BY <2>1, <2>2, <2>3
    <2>. HIDE DEF H, Body
    <2>. QED
      BY <1>2, <2>4
  <1>4. PICK f \in Functions : \A p \in Predicates : f[p] = Body(p, f)
    <2>. HIDE DEF H, Body
    <2>1. PredicateStep(BOOLEAN, H)
      BY <1>1, <1>3 DEF PredicateStep
    <2>2. \E f \in Functions : \A p \in Predicates : f[p] = H[p][f]
      BY <2>1, PredicateRecursion
    <2>. QED
      BY <1>2, <2>2
  <1>5. f = [p \in Predicates |-> Body(p, f)]
    <2>. HIDE DEF Body
    <2>. QED
      BY <1>4
  <1>6. PredicateRequiresHistory = [p \in Predicates |-> Body(p, PredicateRequiresHistory)]
    BY <1>5 DEF PredicateRequiresHistory
  <1>. QED
    BY <1>6

\* What relationClosure collects from a predicate.
LEMMA ClosureIs ==
  /\ PredicateClosure \in [Predicates -> SUBSET Relations]
  /\ \A p \in Predicates : \A relation \in Relations : relation \in PredicateClosure[p] <=>
       \/ p.kind = "relation" /\ relation = p.predicate.relation
       \/ \E part \in Parts(p) : relation \in PredicateClosure[part]
  <1>. DEFINE Body(p, f) ==
         {relation \in Relations :
            \/ p.kind = "relation" /\ relation = p.predicate.relation
            \/ \E part \in Parts(p) : relation \in f[part]}
       Functions == [Predicates -> SUBSET Relations]
       H == [p \in Predicates |-> [f \in Functions |-> Body(p, f)]]
  <1>1. H \in [Predicates -> [Functions -> SUBSET Relations]]
    OBVIOUS
  <1>2. \A p \in Predicates : \A f \in Functions : H[p][f] = Body(p, f)
    OBVIOUS
  <1>3. ASSUME NEW p \in Predicates, NEW f \in Functions, NEW g \in Functions,
               \A part \in Parts(p) : f[part] = g[part]
        PROVE H[p][f] = H[p][g]
    <2>1. Body(p, f) = Body(p, g)
      BY <1>3
    <2>. HIDE DEF H, Body
    <2>. QED
      BY <1>2, <2>1
  <1>4. PICK f \in Functions : \A p \in Predicates : f[p] = Body(p, f)
    <2>. HIDE DEF H, Body
    <2>1. PredicateStep(SUBSET Relations, H)
      BY <1>1, <1>3 DEF PredicateStep
    <2>2. \E f \in Functions : \A p \in Predicates : f[p] = H[p][f]
      BY <2>1, PredicateRecursion
    <2>. QED
      BY <1>2, <2>2
  <1>5. f = [p \in Predicates |-> Body(p, f)]
    <2>. HIDE DEF Body
    <2>. QED
      BY <1>4
  <1>6. PredicateClosure = [p \in Predicates |-> Body(p, PredicateClosure)]
    BY <1>5 DEF PredicateClosure
  <1>. QED
    BY <1>6

Rows == Contracts \cup Types

\* A row meets a predicate, given the rows that meet its parts.
Meets(dataset, m, p, row) ==
  \/ p.kind = "scalar" /\ Holds(dataset.ledger, row, p.field)
  \/ p.kind = "and" /\ \A child \in Children(p) : row \in m[child]
  \/ p.kind = "or" /\ \E child \in Children(p) : row \in m[child]
  \/ p.kind = "not" /\ row \notin m[p.child]
  \/ /\ p.kind = "relation"
     /\ LET related == Related(dataset, p.relation, row, p.edge)
        IN  Quantified(p.quantifier, related \cap m[p.predicate], related)

\* What the evaluator finds to match a predicate.
LEMMA MatchingIs ==
  ASSUME NEW dataset
  PROVE /\ Matching(dataset) \in [Predicates -> SUBSET Rows]
        /\ \A p \in Predicates : \A row \in RowsOf(p.relation) :
             row \in Matching(dataset)[p] <=> Meets(dataset, Matching(dataset), p, row)
        /\ \A p \in Predicates : Matching(dataset)[p] \subseteq RowsOf(p.relation)
  <1>. DEFINE Body(p, f) ==
         LET rows == RowsOf(p.relation) IN
         CASE p.kind = "scalar" -> {row \in rows : Holds(dataset.ledger, row, p.field)}
           [] p.kind = "and" -> {row \in rows : \A child \in Children(p) : row \in f[child]}
           [] p.kind = "or" -> {row \in rows : \E child \in Children(p) : row \in f[child]}
           [] p.kind = "not" -> rows \ f[p.child]
           [] p.kind = "relation" ->
                LET met == f[p.predicate] IN
                {row \in rows : LET related == Related(dataset, p.relation, row, p.edge) IN
                                Quantified(p.quantifier, related \cap met, related)}
       Functions == [Predicates -> SUBSET Rows]
       H == [p \in Predicates |-> [f \in Functions |-> Body(p, f)]]
  <1>0. ASSUME NEW p \in Predicates, NEW f
        PROVE /\ Body(p, f) \subseteq RowsOf(p.relation)
              /\ \A row \in RowsOf(p.relation) : row \in Body(p, f) <=> Meets(dataset, f, p, row)
    <2>1. p.kind \in {"scalar", "and", "or", "not", "relation"}
      BY PredicateShape
    <2>2. CASE p.kind = "scalar"
      BY <2>2 DEF Meets
    <2>3. CASE p.kind = "and"
      BY <2>3 DEF Meets
    <2>4. CASE p.kind = "or"
      BY <2>4 DEF Meets
    <2>5. CASE p.kind = "not"
      BY <2>5 DEF Meets
    <2>6. CASE p.kind = "relation"
      BY <2>6 DEF Meets
    <2>. QED
      BY <2>1, <2>2, <2>3, <2>4, <2>5, <2>6
  <1>a. \A relation : RowsOf(relation) \subseteq Rows
    BY DEF RowsOf, Rows
  <1>1. H \in [Predicates -> [Functions -> SUBSET Rows]]
    <2>1. \A p \in Predicates : \A f \in Functions : Body(p, f) \subseteq Rows
      <3>. HIDE DEF Body
      <3>. QED
        BY <1>0, <1>a
    <2>. HIDE DEF Body
    <2>. QED
      BY <2>1
  <1>2. \A p \in Predicates : \A f \in Functions : H[p][f] = Body(p, f)
    <2>. HIDE DEF Body
    <2>. QED
      OBVIOUS
  <1>3. ASSUME NEW p \in Predicates, NEW f \in Functions, NEW g \in Functions,
               \A part \in Parts(p) : f[part] = g[part]
        PROVE H[p][f] = H[p][g]
    <2>1. p.kind \in {"and", "or"} => \A child \in Children(p) : f[child] = g[child]
      BY <1>3, PredicateShape
    <2>2. p.kind = "not" => f[p.child] = g[p.child]
      BY <1>3, PredicateShape
    <2>3. p.kind = "relation" => f[p.predicate] = g[p.predicate]
      BY <1>3, PredicateShape
    <2>4. Body(p, f) = Body(p, g)
      <3>1. CASE p.kind = "scalar"
        BY <3>1
      <3>2. CASE p.kind = "and"
        BY <2>1, <3>2
      <3>3. CASE p.kind = "or"
        BY <2>1, <3>3
      <3>4. CASE p.kind = "not"
        BY <2>2, <3>4
      <3>5. CASE p.kind = "relation"
        BY <2>3, <3>5
      <3>. QED
        BY <3>1, <3>2, <3>3, <3>4, <3>5, PredicateShape
    <2>. HIDE DEF H, Body
    <2>. QED
      BY <1>2, <2>4
  <1>4. PICK f \in Functions : \A p \in Predicates : f[p] = Body(p, f)
    <2>. HIDE DEF H, Body
    <2>1. PredicateStep(SUBSET Rows, H)
      BY <1>1, <1>3 DEF PredicateStep
    <2>2. \E f \in Functions : \A p \in Predicates : f[p] = H[p][f]
      BY <2>1, PredicateRecursion
    <2>. QED
      BY <1>2, <2>2
  <1>5. f = [p \in Predicates |-> Body(p, f)]
    <2>. HIDE DEF Body
    <2>. QED
      BY <1>4
  <1>. DEFINE m == Matching(dataset)
  <1>6. m = [p \in Predicates |-> Body(p, m)]
    BY <1>5 DEF Matching
  <1>. HIDE DEF m, Body
  <1>7. \A p \in Predicates : m[p] = Body(p, m)
    BY <1>6
  <1>8. \A p \in Predicates : m[p] \subseteq RowsOf(p.relation)
    BY <1>0, <1>7
  <1>9. m \in Functions
    <2>1. \A p \in Predicates : m[p] \subseteq Rows
      BY <1>8, <1>a
    <2>. QED
      BY <1>6, <2>1
  <1>10. ASSUME NEW p \in Predicates, NEW row \in RowsOf(p.relation)
         PROVE row \in m[p] <=> Meets(dataset, m, p, row)
    <2>1. m[p] = Body(p, m)
      BY <1>7
    <2>. QED
      BY <1>0, <2>1
  <1>. QED
    BY <1>8, <1>9, <1>10 DEF m

-----------------------------------------------------------------------------
\* The lists nested in an include list.
Nested(includes) == {include.includes : include \in Elements(includes)}

\* What the assumptions say of an include list.
LEMMA IncludeShape ==
  ASSUME NEW includes \in IncludeLists
  PROVE /\ IncludesDepth(includes) \in Nat
        /\ \A list \in Nested(includes) : list \in IncludeLists /\ IncludesDepth(list) < IncludesDepth(includes)
        /\ \A include \in Elements(includes) :
             /\ <<include.from, include.edge, include.relation>> \in Edges
             /\ include.predicate \in Predicates /\ include.predicate.relation = include.relation
             /\ include.includes \in IncludeLists /\ include.includes \in Nested(includes)
             /\ \A nested \in Elements(include.includes) : nested.from = include.relation
  BY PlannerAssumption DEF IncludeAssumption, Nested

\* What passes from the nested lists to a list holds of every list.
LEMMA IncludeInduction ==
  ASSUME NEW T, \A includes \in IncludeLists : (\A list \in Nested(includes) : list \in T) => includes \in T
  PROVE \A includes \in IncludeLists : includes \in T
  <1>. DEFINE parts == [includes \in IncludeLists |-> Nested(includes)]
              depth == [includes \in IncludeLists |-> IncludesDepth(includes)]
  <1>1. \A includes \in IncludeLists :
          /\ IncludesDepth(includes) \in Nat
          /\ \A list \in Nested(includes) : list \in IncludeLists /\ IncludesDepth(list) < IncludesDepth(includes)
    BY IncludeShape
  <1>2. parts \in [IncludeLists -> SUBSET IncludeLists] /\ depth \in [IncludeLists -> Nat]
    BY <1>1
  <1>3. \A x \in IncludeLists : \A y \in parts[x] : depth[y] < depth[x]
    BY <1>1
  <1>4. \A x \in IncludeLists : (\A y \in parts[x] : y \in T) => x \in T
    OBVIOUS
  <1>. HIDE DEF parts, depth
  <1>5. Trees(IncludeLists, parts, depth) /\ Inherited(IncludeLists, parts, T)
    BY <1>2, <1>3, <1>4 DEF Trees, Inherited
  <1>. QED
    BY <1>5, TreeInduction

\* H computes a value of V from the values at the nested lists.
IncludeStep(V, H) ==
  /\ V # {}
  /\ H \in [IncludeLists -> [[IncludeLists -> V] -> V]]
  /\ \A includes \in IncludeLists : \A f, g \in [IncludeLists -> V] :
       (\A list \in Nested(includes) : f[list] = g[list]) => H[includes][f] = H[includes][g]

\* A function that recurs over the nested lists exists.
LEMMA IncludeRecursion ==
  ASSUME NEW V, NEW H, IncludeStep(V, H)
  PROVE \E f \in [IncludeLists -> V] : \A includes \in IncludeLists : f[includes] = H[includes][f]
  <1>. DEFINE parts == [includes \in IncludeLists |-> Nested(includes)]
              depth == [includes \in IncludeLists |-> IncludesDepth(includes)]
  <1>1. \A includes \in IncludeLists :
          /\ IncludesDepth(includes) \in Nat
          /\ \A list \in Nested(includes) : list \in IncludeLists /\ IncludesDepth(list) < IncludesDepth(includes)
    BY IncludeShape
  <1>2. parts \in [IncludeLists -> SUBSET IncludeLists] /\ depth \in [IncludeLists -> Nat]
    BY <1>1
  <1>3. \A x \in IncludeLists : \A y \in parts[x] : depth[y] < depth[x]
    BY <1>1
  <1>4. \A x \in IncludeLists : \A f, g \in [IncludeLists -> V] :
          (\A y \in parts[x] : f[y] = g[y]) => H[x][f] = H[x][g]
    BY DEF IncludeStep
  <1>. HIDE DEF parts, depth
  <1>5. Trees(IncludeLists, parts, depth) /\ Recursion(IncludeLists, parts, V, H)
    BY <1>2, <1>3, <1>4 DEF Trees, Recursion, IncludeStep
  <1>. QED
    BY <1>5, TreeRecursion

\* What includesRequireHistory computes.
LEMMA IncludesRequireIs ==
  /\ IncludesRequireHistory \in [IncludeLists -> BOOLEAN]
  /\ \A includes \in IncludeLists : IncludesRequireHistory[includes] <=>
       \E include \in Elements(includes) :
         IF include.relation = "contracts" THEN ~ProvesActive[include.predicate]
         ELSE \/ include.relation \in HistoryRelations
              \/ PredicateRequiresHistory[include.predicate]
              \/ IncludesRequireHistory[include.includes]
  <1>. DEFINE Body(includes, f) ==
         \E include \in Elements(includes) :
           IF include.relation = "contracts" THEN ~ProvesActive[include.predicate]
           ELSE \/ include.relation \in HistoryRelations
                \/ PredicateRequiresHistory[include.predicate]
                \/ f[include.includes]
       Functions == [IncludeLists -> BOOLEAN]
       H == [includes \in IncludeLists |-> [f \in Functions |-> Body(includes, f)]]
  <1>1. H \in [IncludeLists -> [Functions -> BOOLEAN]]
    OBVIOUS
  <1>2. \A includes \in IncludeLists : \A f \in Functions : H[includes][f] = Body(includes, f)
    OBVIOUS
  <1>3. ASSUME NEW includes \in IncludeLists, NEW f \in Functions, NEW g \in Functions,
               \A list \in Nested(includes) : f[list] = g[list]
        PROVE H[includes][f] = H[includes][g]
    <2>1. \A include \in Elements(includes) : f[include.includes] = g[include.includes]
      BY <1>3, IncludeShape
    <2>2. Body(includes, f) = Body(includes, g)
      BY <2>1
    <2>. HIDE DEF H, Body
    <2>. QED
      BY <1>2, <2>2
  <1>4. PICK f \in Functions : \A includes \in IncludeLists : f[includes] = Body(includes, f)
    <2>. HIDE DEF H, Body
    <2>1. IncludeStep(BOOLEAN, H)
      BY <1>1, <1>3 DEF IncludeStep
    <2>2. \E f \in Functions : \A includes \in IncludeLists : f[includes] = H[includes][f]
      BY <2>1, IncludeRecursion
    <2>. QED
      BY <1>2, <2>2
  <1>5. f = [includes \in IncludeLists |-> Body(includes, f)]
    <2>. HIDE DEF Body
    <2>. QED
      BY <1>4
  <1>6. IncludesRequireHistory = [includes \in IncludeLists |-> Body(includes, IncludesRequireHistory)]
    BY <1>5 DEF IncludesRequireHistory
  <1>. QED
    BY <1>6

\* What relationClosure collects from an include list.
LEMMA IncludesClosureIs ==
  /\ IncludesClosure \in [IncludeLists -> SUBSET Relations]
  /\ \A includes \in IncludeLists : \A relation \in Relations : relation \in IncludesClosure[includes] <=>
       \E include \in Elements(includes) :
         \/ relation = include.relation
         \/ relation \in PredicateClosure[include.predicate]
         \/ relation \in IncludesClosure[include.includes]
  <1>. DEFINE Body(includes, f) ==
         {relation \in Relations : \E include \in Elements(includes) :
            \/ relation = include.relation
            \/ relation \in PredicateClosure[include.predicate]
            \/ relation \in f[include.includes]}
       Functions == [IncludeLists -> SUBSET Relations]
       H == [includes \in IncludeLists |-> [f \in Functions |-> Body(includes, f)]]
  <1>1. H \in [IncludeLists -> [Functions -> SUBSET Relations]]
    OBVIOUS
  <1>2. \A includes \in IncludeLists : \A f \in Functions : H[includes][f] = Body(includes, f)
    OBVIOUS
  <1>3. ASSUME NEW includes \in IncludeLists, NEW f \in Functions, NEW g \in Functions,
               \A list \in Nested(includes) : f[list] = g[list]
        PROVE H[includes][f] = H[includes][g]
    <2>1. \A include \in Elements(includes) : f[include.includes] = g[include.includes]
      BY <1>3, IncludeShape
    <2>2. Body(includes, f) = Body(includes, g)
      BY <2>1
    <2>. HIDE DEF H, Body
    <2>. QED
      BY <1>2, <2>2
  <1>4. PICK f \in Functions : \A includes \in IncludeLists : f[includes] = Body(includes, f)
    <2>. HIDE DEF H, Body
    <2>1. IncludeStep(SUBSET Relations, H)
      BY <1>1, <1>3 DEF IncludeStep
    <2>2. \E f \in Functions : \A includes \in IncludeLists : f[includes] = H[includes][f]
      BY <2>1, IncludeRecursion
    <2>. QED
      BY <1>2, <2>2
  <1>5. f = [includes \in IncludeLists |-> Body(includes, f)]
    <2>. HIDE DEF Body
    <2>. QED
      BY <1>4
  <1>6. IncludesClosure = [includes \in IncludeLists |-> Body(includes, IncludesClosure)]
    BY <1>5 DEF IncludesClosure
  <1>. QED
    BY <1>6

ShapeOf(dataset, s, includes, row) ==
  <<row, [k \in DOMAIN includes |-> {s[includes[k].includes][r] : r \in Included(dataset, row, includes[k])}]>>

\* How a row is shaped.  The shapes are no set of values given in advance,
\* so that the function exists is shown for them alone.
LEMMA ShapeIs ==
  ASSUME NEW dataset
  PROVE \A includes \in IncludeLists : \A row \in Rows :
          Shape(dataset)[includes][row] = ShapeOf(dataset, Shape(dataset), includes, row)
  <1>. DEFINE Body(includes, f) ==
         [row \in Contracts \cup Types |->
            <<row, [k \in DOMAIN includes |->
                      {f[includes[k].includes][r] : r \in Included(dataset, row, includes[k])}]>>]
       depth == [includes \in IncludeLists |-> IncludesDepth(includes)]
       Good(k, f) == \A x \in IncludeLists : depth[x] < k => f[x] = Body(x, f)
       T == {k \in Nat : \E f : Good(k, f)}
  <1>1. ASSUME NEW x \in IncludeLists, NEW f, NEW g, \A y \in Nested(x) : f[y] = g[y]
        PROVE Body(x, f) = Body(x, g)
    <2>1. \A k \in DOMAIN x : f[x[k].includes] = g[x[k].includes]
      BY <1>1, IncludeShape DEF Elements
    <2>2. ASSUME NEW row \in Contracts \cup Types, NEW k \in DOMAIN x
          PROVE {f[x[k].includes][r] : r \in Included(dataset, row, x[k])}
                  = {g[x[k].includes][r] : r \in Included(dataset, row, x[k])}
      BY <2>1
    <2>. QED
      BY <2>2
  <1>2. /\ \A x \in IncludeLists : depth[x] \in Nat
        /\ \A x \in IncludeLists : \A y \in Nested(x) : y \in IncludeLists /\ depth[y] < depth[x]
    BY IncludeShape
  <1>. HIDE DEF Body, depth
  <1>3. 0 \in T
    <2>1. Good(0, 0)
      BY <1>2
    <2>. HIDE DEF Good
    <2>. QED
      BY <2>1
  <1>4. ASSUME NEW k \in Nat, k \in T PROVE k + 1 \in T
    <2>1. PICK f : Good(k, f)
      BY <1>4
    <2>. DEFINE g == [x \in IncludeLists |-> Body(x, f)]
    <2>2. ASSUME NEW x \in IncludeLists, depth[x] < k + 1 PROVE g[x] = Body(x, g)
      <3>1. ASSUME NEW y \in Nested(x) PROVE f[y] = g[y]
        <4>1. y \in IncludeLists /\ depth[y] < depth[x] /\ depth[y] \in Nat /\ depth[x] \in Nat
          BY <1>2
        <4>2. depth[y] < k
          BY <2>2, <4>1
        <4>. QED
          BY <2>1, <4>1, <4>2
      <3>2. Body(x, f) = Body(x, g)
        <4>. HIDE DEF g
        <4>. QED
          BY <1>1, <3>1
      <3>. QED
        BY <3>2
    <2>3. Good(k + 1, g)
      <3>. HIDE DEF g
      <3>. QED
        BY <2>2
    <2>. HIDE DEF Good, g
    <2>. QED
      BY <2>3
  <1>5. \A k \in Nat : \E f : Good(k, f)
    <2>. HIDE DEF T, Good
    <2>1. \A k \in Nat : k \in T
      BY <1>3, <1>4, UpTo
    <2>. QED
      BY <2>1 DEF T
  <1>. DEFINE F == [k \in Nat |-> CHOOSE f : Good(k, f)]
  <1>6. ASSUME NEW k \in Nat PROVE Good(k, F[k])
    <2>. HIDE DEF Good
    <2>1. \E f : Good(k, f)
      BY <1>5
    <2>2. Good(k, CHOOSE f : Good(k, f))
      BY <2>1
    <2>. QED
      BY <2>2
  <1>. HIDE DEF F
  <1>. DEFINE U == {x \in IncludeLists : \A j, k \in Nat : depth[x] < j /\ depth[x] < k => F[j][x] = F[k][x]}
  <1>7. ASSUME NEW x \in IncludeLists, \A y \in Nested(x) : y \in U PROVE x \in U
    <2>1. ASSUME NEW j \in Nat, NEW k \in Nat, depth[x] < j, depth[x] < k PROVE F[j][x] = F[k][x]
      <3>1. ASSUME NEW y \in Nested(x) PROVE F[j][y] = F[k][y]
        <4>1. y \in IncludeLists /\ depth[y] < depth[x] /\ depth[y] \in Nat /\ depth[x] \in Nat
          BY <1>2
        <4>2. depth[y] < j /\ depth[y] < k
          BY <2>1, <4>1
        <4>. QED
          BY <1>7, <4>2
      <3>2. Body(x, F[j]) = Body(x, F[k])
        BY <1>1, <3>1
      <3>. QED
        BY <1>6, <2>1, <3>2
    <2>. QED
      BY <2>1
  <1>8. \A x \in IncludeLists : x \in U
    <2>. HIDE DEF U
    <2>. QED
      BY <1>7, IncludeInduction
  <1>. DEFINE f == [x \in IncludeLists |-> F[depth[x] + 1][x]]
  <1>9. ASSUME NEW x \in IncludeLists PROVE f[x] = Body(x, f)
    <2>. DEFINE k == depth[x] + 1
    <2>1. k \in Nat /\ depth[x] < k
      BY <1>2
    <2>2. F[k][x] = Body(x, F[k])
      BY <1>6, <2>1
    <2>3. ASSUME NEW y \in Nested(x) PROVE F[k][y] = f[y]
      <3>1. y \in IncludeLists /\ depth[y] < depth[x] /\ depth[y] \in Nat /\ depth[x] \in Nat
        BY <1>2
      <3>2. depth[y] + 1 \in Nat /\ depth[y] < depth[y] + 1 /\ depth[y] < k
        BY <3>1
      <3>. QED
        BY <1>8, <2>1, <3>1, <3>2
    <2>4. Body(x, F[k]) = Body(x, f)
      <3>. HIDE DEF f, k
      <3>. QED
        BY <1>1, <2>3
    <2>. QED
      BY <2>2, <2>4
  <1>10. f = [x \in IncludeLists |-> Body(x, f)]
    BY <1>9
  <1>. HIDE DEF f
  <1>. DEFINE s == Shape(dataset)
  <1>11. s = [x \in IncludeLists |-> Body(x, s)]
    BY <1>10 DEF Shape, Body
  <1>. HIDE DEF s
  <1>12. ASSUME NEW includes \in IncludeLists, NEW row \in Rows
         PROVE s[includes][row] = ShapeOf(dataset, s, includes, row)
    <2>1. s[includes] = Body(includes, s)
      BY <1>11
    <2>. QED
      BY <2>1 DEF Body, Rows, ShapeOf
  <1>. QED
    BY <1>12 DEF s

-----------------------------------------------------------------------------
(***************************************************************************)
(* When two datasets answer alike: from rows near to the first, each step  *)
(* leads to near rows, and the second adds none that matches.              *)
(***************************************************************************)

\* Whatever the dataset, a predicate that proves active is met by active
\* contracts only.
LEMMA OnlyActiveMatch ==
  ASSUME NEW dataset, NEW p \in Predicates, ProvesActive[p]
  PROVE Matching(dataset)[p] \subseteq dataset.ledger.active
  <1>. DEFINE m == Matching(dataset)
              active == dataset.ledger.active
              T == {x \in Predicates : ProvesActive[x] => m[x] \subseteq active}
  <1>1. ASSUME NEW x \in Predicates, \A part \in Parts(x) : part \in T, ProvesActive[x] PROVE m[x] \subseteq active
    <2>. SUFFICES ASSUME NEW row \in m[x] PROVE row \in active
      OBVIOUS
    <2>1. Meets(dataset, m, x, row)
      <3>1. row \in RowsOf(x.relation)
        BY MatchingIs
      <3>. QED
        BY <3>1, MatchingIs
    <2>. HIDE DEF m
    <2>2. x.kind = "scalar" /\ x.field = "active" => row \in active
      <3>1. x.kind = "scalar" => Holds(dataset.ledger, row, x.field)
        BY <2>1 DEF Meets
      <3>. QED
        BY <3>1 DEF Holds
    <2>3. ASSUME x.kind = "and", NEW child \in Children(x), ProvesActive[child] PROVE row \in active
      <3>1. row \in m[child]
        BY <2>1, <2>3 DEF Meets
      <3>2. child \in T
        BY <1>1, <2>3, PredicateShape
      <3>. QED
        BY <2>3, <3>1, <3>2
    <2>4. ASSUME x.kind = "or", \A child \in Children(x) : ProvesActive[child] PROVE row \in active
      <3>1. PICK child \in Children(x) : row \in m[child]
        BY <2>1, <2>4 DEF Meets
      <3>2. child \in T
        BY <1>1, <2>4, PredicateShape
      <3>. QED
        BY <2>4, <3>1, <3>2
    <2>. HIDE DEF active, T
    <2>. QED
      BY <1>1, <2>2, <2>3, <2>4, ProvesActiveIs
  <1>. HIDE DEF m, active
  <1>2. ASSUME NEW x \in Predicates, \A part \in Parts(x) : part \in T PROVE x \in T
    BY <1>1, <1>2
  <1>3. \A x \in Predicates : x \in T
    <2>. HIDE DEF T
    <2>. QED
      BY <1>2, PredicateInduction
  <1>. QED
    BY <1>3 DEF m, active

\* From the rows near to a dataset the predicates of P lead to near rows,
\* and to the same ones as in another dataset, or to those of them that
\* match at all.
Followed(D, E, near, P) ==
  \A p \in P :
    /\ p \in Predicates /\ Parts(p) \subseteq P
    /\ p.kind = "relation" =>
         \A row \in near[p.relation] :
           LET d == Related(D, p.relation, row, p.edge)
               e == Related(E, p.relation, row, p.edge)
           IN  /\ d \subseteq near[p.predicate.relation]
               /\ d \subseteq e
               /\ \/ d = e
                  \/ p.quantifier \in {"some", "one"} /\ e \cap Matching(E)[p.predicate] \subseteq d

NearRows(near) == near \in [Relations -> SUBSET Rows] /\ \A r \in Relations : near[r] \subseteq RowsOf(r)

\* Then both datasets agree on what matches those predicates.
LEMMA MatchesAgree ==
  ASSUME NEW D, NEW E, D.ledger = E.ledger, NEW near, NearRows(near), NEW P, Followed(D, E, near, P),
         NEW p \in P, NEW row \in near[p.relation]
  PROVE row \in Matching(D)[p] <=> row \in Matching(E)[p]
  <1>. DEFINE d == Matching(D)
              e == Matching(E)
              T == {x \in Predicates : x \in P => \A r \in near[x.relation] : r \in d[x] <=> r \in e[x]}
  <1>1. ASSUME NEW x \in Predicates, \A part \in Parts(x) : part \in T, x \in P, NEW r \in near[x.relation]
        PROVE r \in d[x] <=> r \in e[x]
    <2>1. r \in RowsOf(x.relation)
      BY <1>1, PredicateShape DEF NearRows
    <2>2. \A part \in Parts(x) : part \in P /\ part \in Predicates
      BY <1>1, PredicateShape DEF Followed
    <2>3. ASSUME NEW part \in Parts(x), NEW o \in near[part.relation] PROVE o \in d[part] <=> o \in e[part]
      BY <1>1, <2>2, <2>3
    <2>a. r \in d[x] <=> Meets(D, d, x, r)
      BY <2>1, MatchingIs
    <2>b. r \in e[x] <=> Meets(E, e, x, r)
      BY <2>1, MatchingIs
    <2>. HIDE DEF T, d, e
    <2>4. CASE x.kind = "scalar"
      BY <2>4, <2>a, <2>b DEF Meets
    <2>5. CASE x.kind = "and"
      <3>1. \A child \in Children(x) : r \in d[child] <=> r \in e[child]
        BY <2>3, <2>5, PredicateShape
      <3>. QED
        BY <2>5, <2>a, <2>b, <3>1 DEF Meets
    <2>6. CASE x.kind = "or"
      <3>1. \A child \in Children(x) : r \in d[child] <=> r \in e[child]
        BY <2>3, <2>6, PredicateShape
      <3>. QED
        BY <2>6, <2>a, <2>b, <3>1 DEF Meets
    <2>7. CASE x.kind = "not"
      <3>1. r \in d[x.child] <=> r \in e[x.child]
        BY <2>3, <2>7, PredicateShape
      <3>. QED
        BY <2>7, <2>a, <2>b, <3>1 DEF Meets
    <2>8. CASE x.kind = "relation"
      <3>. DEFINE rd == Related(D, x.relation, r, x.edge)
                  re == Related(E, x.relation, r, x.edge)
      <3>1. /\ rd \subseteq near[x.predicate.relation]
            /\ rd \subseteq re
            /\ rd = re \/ (x.quantifier \in {"some", "one"} /\ re \cap e[x.predicate] \subseteq rd)
        BY <1>1, <2>8 DEF Followed, e
      <3>. DEFINE md == rd \cap d[x.predicate]
                  me == re \cap e[x.predicate]
      <3>2. r \in d[x] <=> Quantified(x.quantifier, md, rd)
        BY <2>8, <2>a DEF Meets
      <3>3. r \in e[x] <=> Quantified(x.quantifier, me, re)
        BY <2>8, <2>b DEF Meets
      <3>. HIDE DEF rd, re
      <3>4. rd \cap d[x.predicate] = rd \cap e[x.predicate]
        BY <2>3, <2>8, <3>1, PredicateShape
      <3>5. ASSUME rd = re PROVE r \in d[x] <=> r \in e[x]
        <4>1. md = me
          BY <3>4, <3>5
        <4>. HIDE DEF md, me
        <4>. QED
          BY <3>2, <3>3, <3>5, <4>1
      <3>6. ASSUME x.quantifier \in {"some", "one"}, re \cap e[x.predicate] \subseteq rd PROVE r \in d[x] <=> r \in e[x]
        <4>1. me = md
          BY <3>1, <3>4, <3>6
        <4>. HIDE DEF md, me
        <4>2. Quantified(x.quantifier, md, rd) <=> md # {}
          BY <3>6 DEF Quantified
        <4>3. Quantified(x.quantifier, me, re) <=> me # {}
          BY <3>6 DEF Quantified
        <4>. QED
          BY <3>2, <3>3, <4>1, <4>2, <4>3
      <3>. QED
        BY <3>1, <3>5, <3>6
    <2>. QED
      BY <2>4, <2>5, <2>6, <2>7, <2>8, PredicateShape
  <1>. HIDE DEF d, e
  <1>2. ASSUME NEW x \in Predicates, \A part \in Parts(x) : part \in T PROVE x \in T
    BY <1>1, <1>2
  <1>3. \A x \in Predicates : x \in T
    <2>. HIDE DEF T
    <2>. QED
      BY <1>2, PredicateInduction
  <1>4. p \in Predicates
    BY DEF Followed
  <1>. QED
    BY <1>3, <1>4 DEF d, e

\* From the near rows the lists of I include near rows, in both datasets
\* the same.
SameIncludes(D, E, near, I) ==
  \A includes \in I :
    /\ includes \in IncludeLists
    /\ \A include \in Elements(includes) :
         /\ include.includes \in I
         /\ \A row \in near[include.from] :
              /\ Included(D, row, include) = Included(E, row, include)
              /\ Included(D, row, include) \subseteq near[include.relation]

\* Then the rows have the same shape.
LEMMA ShapesAgree ==
  ASSUME NEW D, NEW E, NEW near, NearRows(near), NEW I, SameIncludes(D, E, near, I),
         NEW includes \in I, NEW row \in Rows, \A include \in Elements(includes) : row \in near[include.from]
  PROVE Shape(D)[includes][row] = Shape(E)[includes][row]
  <1>. DEFINE d == Shape(D)
              e == Shape(E)
              T == {x \in IncludeLists : x \in I =>
                      \A r \in Rows : (\A include \in Elements(x) : r \in near[include.from]) => d[x][r] = e[x][r]}
  <1>1. ASSUME NEW x \in IncludeLists, \A list \in Nested(x) : list \in T, x \in I,
               NEW r \in Rows, \A include \in Elements(x) : r \in near[include.from]
        PROVE d[x][r] = e[x][r]
    <2>1. ASSUME NEW k \in DOMAIN x
          PROVE {d[x[k].includes][o] : o \in Included(D, r, x[k])} = {e[x[k].includes][o] : o \in Included(E, r, x[k])}
      <3>. DEFINE include == x[k]
      <3>1. include \in Elements(x)
        BY DEF Elements
      <3>2. /\ Included(D, r, include) = Included(E, r, include)
            /\ Included(D, r, include) \subseteq near[include.relation]
            /\ include.includes \in I
        BY <1>1, <3>1 DEF SameIncludes
      <3>3. include.includes \in Nested(x) /\ include.includes \in IncludeLists
            /\ include.relation \in Relations
            /\ \A nested \in Elements(include.includes) : nested.from = include.relation
        BY <3>1, IncludeShape, PredicateShape
      <3>4. include.includes \in T
        BY <1>1, <3>3
      <3>. HIDE DEF include
      <3>5. ASSUME NEW o \in Included(D, r, include) PROVE d[include.includes][o] = e[include.includes][o]
        <4>1. o \in near[include.relation] /\ o \in Rows
          BY <3>2, <3>3 DEF NearRows
        <4>2. \A nested \in Elements(include.includes) : o \in near[nested.from]
          BY <3>3, <4>1
        <4>. QED
          BY <3>2, <3>4, <4>1, <4>2
      <3>6. {d[include.includes][o] : o \in Included(D, r, include)} = {e[include.includes][o] : o \in Included(E, r, include)}
        <4>. HIDE DEF d, e
        <4>. QED
          BY <3>2, <3>5
      <3>. QED
        BY <3>6 DEF include
    <2>2. d[x][r] = ShapeOf(D, d, x, r)
      BY ShapeIs
    <2>3. e[x][r] = ShapeOf(E, e, x, r)
      BY ShapeIs
    <2>. HIDE DEF d, e
    <2>. QED
      BY <2>1, <2>2, <2>3 DEF ShapeOf
  <1>. HIDE DEF d, e
  <1>2. ASSUME NEW x \in IncludeLists, \A list \in Nested(x) : list \in T PROVE x \in T
    BY <1>1, <1>2
  <1>3. \A x \in IncludeLists : x \in T
    <2>. HIDE DEF T
    <2>. QED
      BY <1>2, IncludeInduction
  <1>4. includes \in IncludeLists
    BY DEF SameIncludes
  <1>. QED
    BY <1>3, <1>4 DEF d, e

\* An include leads to the same rows when its edge, cut down to what
\* matches, does.
LEMMA IncludedAgree ==
  ASSUME NEW D, NEW E, D.ledger = E.ledger, NEW near, NearRows(near), NEW P, Followed(D, E, near, P),
         NEW include, include.predicate \in P, include.predicate.relation = include.relation, NEW row,
         Related(D, include.from, row, include.edge) \subseteq near[include.relation],
         Related(D, include.from, row, include.edge) \subseteq Related(E, include.from, row, include.edge),
         Related(E, include.from, row, include.edge) \cap Matching(E)[include.predicate]
           \subseteq Related(D, include.from, row, include.edge)
  PROVE /\ Included(D, row, include) = Included(E, row, include)
        /\ Included(D, row, include) \subseteq near[include.relation]
  <1>. DEFINE d == Related(D, include.from, row, include.edge)
              e == Related(E, include.from, row, include.edge)
              md == Matching(D)[include.predicate]
              me == Matching(E)[include.predicate]
  <1>1. \A r \in d : r \in md <=> r \in me
    BY MatchesAgree
  <1>2. Included(D, row, include) = d \cap md /\ Included(E, row, include) = e \cap me
    BY DEF Included
  <1>3. d \subseteq near[include.relation] /\ d \subseteq e /\ e \cap me \subseteq d
    OBVIOUS
  <1>. HIDE DEF d, e, md, me
  <1>. QED
    BY <1>1, <1>2, <1>3

\* A query that filters the same near rows from both datasets gets the same
\* answer from both.
LEMMA AnswersAgree ==
  ASSUME NEW D, NEW E, NEW near, NearRows(near), NEW I, SameIncludes(D, E, near, I),
         NEW q \in Queries, q.includes \in I,
         Filtered(D, q) = Filtered(E, q), Filtered(D, q) \subseteq near[q.relation]
  PROVE Evaluate(D, q) = Evaluate(E, q)
  <1>. DEFINE d == Shape(D)[q.includes]
              e == Shape(E)[q.includes]
  <1>1. q.relation \in Relations /\ \A include \in Elements(q.includes) : include.from = q.relation
    BY PlannerAssumption, PredicateShape
  <1>2. ASSUME NEW row \in Filtered(D, q) PROVE d[row] = e[row]
    <2>1. row \in near[q.relation] /\ row \in Rows
      BY <1>1 DEF NearRows
    <2>2. \A include \in Elements(q.includes) : row \in near[include.from]
      BY <1>1, <2>1
    <2>. QED
      BY <2>1, <2>2, ShapesAgree
  <1>3. Evaluate(D, q) = {d[row] : row \in Filtered(D, q)} /\ Evaluate(E, q) = {e[row] : row \in Filtered(E, q)}
    BY DEF Evaluate
  <1>. HIDE DEF d, e
  <1>. QED
    BY <1>2, <1>3

-----------------------------------------------------------------------------
(***************************************************************************)
(* The snapshot and the packages, as opposed to everything: near are the   *)
(* active contracts and every type.                                        *)
(***************************************************************************)

\* The related rows, edge by edge.
LEMMA RelatedIs ==
  ASSUME NEW D, NEW row, NEW from, NEW edge, NEW to, <<from, edge, to>> \in Edges
  PROVE \/ /\ from = "contracts" /\ edge = "contractType" /\ to = "contractTypes"
           /\ Related(D, from, row, edge) = {t \in D.contractTypes : t = D.ledger.typeOf[row]}
        \/ /\ from = "exercises" /\ edge = "contractType" /\ to = "contractTypes"
           /\ Related(D, from, row, edge) = {t \in D.contractTypes : t = D.ledger.typeOf[row]}
        \/ /\ from = "exercises" /\ edge = "contract" /\ to = "contracts"
           /\ Related(D, from, row, edge) = D.contracts \cap {row}
        \/ /\ from = "contractTypes" /\ edge = "contracts" /\ to = "contracts"
           /\ Related(D, from, row, edge) = {c \in D.contracts : D.ledger.typeOf[c] = row}
        \/ /\ from = "contracts" /\ edge = "exercises" /\ to = "exercises"
           /\ Related(D, from, row, edge) = D.exercises \cap {row}
        \/ /\ from = "contractTypes" /\ edge = "exercises" /\ to = "exercises"
           /\ Related(D, from, row, edge) = {c \in D.exercises : D.ledger.typeOf[c] = row}
  <1>1. \/ from = "contracts" /\ edge = "contractType" /\ to = "contractTypes"
        \/ from = "exercises" /\ edge = "contractType" /\ to = "contractTypes"
        \/ from = "exercises" /\ edge = "contract" /\ to = "contracts"
        \/ from = "contractTypes" /\ edge = "contracts" /\ to = "contracts"
        \/ from = "contracts" /\ edge = "exercises" /\ to = "exercises"
        \/ from = "contractTypes" /\ edge = "exercises" /\ to = "exercises"
    BY DEF Edges
  <1>2. edge = "contractType" => Related(D, from, row, edge) = {t \in D.contractTypes : t = D.ledger.typeOf[row]}
    BY DEF Related
  <1>3. edge = "contract" => Related(D, from, row, edge) = D.contracts \cap {row}
    BY DEF Related
  <1>4. edge = "contracts" => Related(D, from, row, edge) = {c \in D.contracts : D.ledger.typeOf[c] = row}
    BY DEF Related
  <1>5. edge = "exercises" /\ from = "contracts" => Related(D, from, row, edge) = D.exercises \cap {row}
    BY DEF Related
  <1>6. edge = "exercises" /\ from = "contractTypes" =>
          Related(D, from, row, edge) = {c \in D.exercises : D.ledger.typeOf[c] = row}
    BY DEF Related
  <1>. QED
    BY <1>1, <1>2, <1>3, <1>4, <1>5, <1>6

\* Without the history a query does not reach the exercises.
LEMMA NoExercises ==
  ASSUME StepsStayFlat
  PROVE /\ \A p \in Predicates : ~PredicateRequiresHistory[p] => "exercises" \notin PredicateClosure[p]
        /\ \A includes \in IncludeLists : ~IncludesRequireHistory[includes] => "exercises" \notin IncludesClosure[includes]
  <1>. DEFINE T == {p \in Predicates : ~PredicateRequiresHistory[p] => "exercises" \notin PredicateClosure[p]}
              U == {includes \in IncludeLists :
                      ~IncludesRequireHistory[includes] => "exercises" \notin IncludesClosure[includes]}
  <1>1. ASSUME NEW p \in Predicates, \A part \in Parts(p) : part \in T, ~PredicateRequiresHistory[p]
        PROVE "exercises" \notin PredicateClosure[p]
    <2>1. ASSUME NEW part \in Parts(p) PROVE ~PredicateRequiresHistory[part]
      <3>1. CASE p.kind \in {"and", "or"}
        <4>1. part \in Children(p)
          BY <3>1, OnlyPart
        <4>. QED
          BY <1>1, <3>1, <4>1, RequiresHistoryIs
      <3>2. CASE p.kind = "not"
        <4>1. part = p.child
          BY <3>2, OnlyPart
        <4>. QED
          BY <1>1, <3>2, <4>1, RequiresHistoryIs
      <3>3. CASE p.kind = "relation"
        <4>1. part = p.predicate
          BY <3>3, OnlyPart
        <4>2. IF p.predicate.relation = "contracts" THEN ActiveStep(p) ELSE ~PredicateRequiresHistory[p.predicate]
          BY <1>1, <3>3, RequiresHistoryIs
        <4>. QED
          BY <3>3, <4>1, <4>2 DEF StepsStayFlat
      <3>. QED
        BY <3>1, <3>2, <3>3, PredicateShape
    <2>2. p.kind = "relation" => p.predicate.relation # "exercises"
      BY <1>1, RequiresHistoryIs DEF HistoryRelations
    <2>3. \A part \in Parts(p) : "exercises" \notin PredicateClosure[part]
      BY <1>1, <2>1
    <2>. QED
      BY <2>2, <2>3, ClosureIs DEF Relations
  <1>2. \A p \in Predicates : p \in T
    <2>1. ASSUME NEW p \in Predicates, \A part \in Parts(p) : part \in T PROVE p \in T
      BY <1>1, <2>1
    <2>. HIDE DEF T
    <2>. QED
      BY <2>1, PredicateInduction
  <1>3. ASSUME NEW includes \in IncludeLists, \A list \in Nested(includes) : list \in U, ~IncludesRequireHistory[includes]
        PROVE "exercises" \notin IncludesClosure[includes]
    <2>1. ASSUME NEW include \in Elements(includes)
          PROVE /\ include.relation # "exercises"
                /\ "exercises" \notin PredicateClosure[include.predicate]
                /\ "exercises" \notin IncludesClosure[include.includes]
      <3>1. include.predicate \in Predicates /\ include.includes \in IncludeLists /\ include.includes \in Nested(includes)
        BY IncludeShape
      <3>2. /\ include.relation # "exercises"
            /\ ~PredicateRequiresHistory[include.predicate]
            /\ ~IncludesRequireHistory[include.includes]
        BY <1>3, IncludesRequireIs DEF StepsStayFlat, HistoryRelations
      <3>. QED
        BY <1>2, <1>3, <3>1, <3>2
    <2>. QED
      BY <2>1, IncludesClosureIs DEF Relations
  <1>4. \A includes \in IncludeLists : includes \in U
    <2>1. ASSUME NEW includes \in IncludeLists, \A list \in Nested(includes) : list \in U PROVE includes \in U
      BY <1>3, <2>1
    <2>. HIDE DEF U
    <2>. QED
      BY <2>1, IncludeInduction
  <1>. QED
    BY <1>2, <1>4

\* The active contracts and the types at hand, as opposed to everything.
Active(l, types) == Dataset(l, l.active, types, {})

ActiveTypes(l, types) == TypesOf(l, l.active) \subseteq types /\ types \subseteq Types

NearActive(l) ==
  [relation \in Relations |->
     IF relation = "contracts" THEN l.active ELSE IF relation = "contractTypes" THEN Types ELSE {}]

HistoryFreePredicates ==
  {p \in Predicates : ~PredicateRequiresHistory[p] /\ p.relation \in {"contracts", "contractTypes"}}

HistoryFreeIncludes ==
  {includes \in IncludeLists :
     /\ ~IncludesRequireHistory[includes]
     /\ \A include \in Elements(includes) : include.from \in {"contracts", "contractTypes"}}

\* From an active contract or a type, an edge that does not lead to the
\* exercises leads to the active contracts and the types at hand.
LEMMA ActiveSteps ==
  ASSUME NEW l \in Ledgers, NEW types, ActiveTypes(l, types),
         NEW from \in {"contracts", "contractTypes"}, NEW edge, NEW to, <<from, edge, to>> \in Edges, to # "exercises",
         NEW row \in NearActive(l)[from]
  PROVE LET d == Related(Active(l, types), from, row, edge)
            e == Related(Everything(l), from, row, edge)
        IN  /\ d \subseteq NearActive(l)[to]
            /\ d \subseteq e
            /\ to = "contractTypes" => d = e
            /\ to = "contracts" => e \cap l.active \subseteq d
  <1>. DEFINE D == Active(l, types)
              E == Everything(l)
  <1>1. /\ D.ledger = l /\ D.contracts = l.active /\ D.contractTypes = types /\ D.exercises = {}
        /\ E.ledger = l /\ E.contracts = Contracts /\ E.contractTypes = Types /\ E.exercises = l.exercised
    BY DEF Active, Everything, Dataset
  <1>. HIDE DEF D, E
  <1>2. l.active \subseteq Contracts /\ types \subseteq Types
    BY DEF Ledgers, ActiveTypes
  <1>3. NearActive(l)["contracts"] = l.active /\ NearActive(l)["contractTypes"] = Types
    BY DEF NearActive, Relations
  <1>4. CASE to = "contractTypes"
    <2>1. from = "contracts"
      BY <1>4, RelatedIs
    <2>2. l.typeOf[row] \in types
      BY <1>3, <2>1 DEF ActiveTypes, TypesOf
    <2>3. /\ Related(D, from, row, edge) = {t \in types : t = l.typeOf[row]}
          /\ Related(E, from, row, edge) = {t \in Types : t = l.typeOf[row]}
      BY <1>1, <1>4, RelatedIs
    <2>. QED
      BY <1>2, <1>3, <1>4, <2>2, <2>3 DEF D, E
  <1>5. CASE to = "contracts"
    <2>1. /\ Related(D, from, row, edge) = {c \in l.active : l.typeOf[c] = row}
          /\ Related(E, from, row, edge) = {c \in Contracts : l.typeOf[c] = row}
      BY <1>1, <1>5, RelatedIs
    <2>. QED
      BY <1>2, <1>3, <1>5, <2>1 DEF D, E
  <1>. QED
    BY <1>4, <1>5, RelatedIs

\* So the predicates that need no history are followed.
LEMMA ActiveFollowed ==
  ASSUME StepsStayFlat, NEW l \in Ledgers, NEW types, ActiveTypes(l, types)
  PROVE Followed(Active(l, types), Everything(l), NearActive(l), HistoryFreePredicates)
  <1>. DEFINE D == Active(l, types)
              E == Everything(l)
              near == NearActive(l)
  <1>1. ASSUME NEW p \in HistoryFreePredicates PROVE p \in Predicates /\ Parts(p) \subseteq HistoryFreePredicates
    <2>1. p \in Predicates /\ ~PredicateRequiresHistory[p] /\ p.relation \in {"contracts", "contractTypes"}
      BY DEF HistoryFreePredicates
    <2>2. ASSUME NEW part \in Parts(p) PROVE part \in HistoryFreePredicates
      <3>1. part \in Predicates
        BY <2>1, PredicateShape
      <3>2. CASE p.kind \in {"and", "or"}
        <4>1. part \in Children(p) /\ part.relation = p.relation
          BY <2>1, <3>2, OnlyPart
        <4>2. ~PredicateRequiresHistory[part]
          BY <2>1, <3>2, <4>1, RequiresHistoryIs
        <4>. QED
          BY <2>1, <3>1, <4>1, <4>2 DEF HistoryFreePredicates
      <3>3. CASE p.kind = "not"
        <4>1. part = p.child /\ part.relation = p.relation
          BY <2>1, <3>3, OnlyPart
        <4>2. ~PredicateRequiresHistory[part]
          BY <2>1, <3>3, <4>1, RequiresHistoryIs
        <4>. QED
          BY <2>1, <3>1, <4>1, <4>2 DEF HistoryFreePredicates
      <3>4. CASE p.kind = "relation"
        <4>1. part = p.predicate /\ part.relation \in Relations
          BY <2>1, <3>1, <3>4, OnlyPart, PredicateShape
        <4>2. IF part.relation = "contracts" THEN ActiveStep(p)
              ELSE part.relation # "exercises" /\ ~PredicateRequiresHistory[part]
          BY <2>1, <3>4, <4>1, RequiresHistoryIs DEF HistoryRelations
        <4>3. ~PredicateRequiresHistory[part]
          BY <2>1, <3>4, <4>1, <4>2 DEF StepsStayFlat
        <4>. QED
          BY <3>1, <4>1, <4>2, <4>3 DEF HistoryFreePredicates, Relations
      <3>. QED
        BY <2>1, <3>2, <3>3, <3>4, PredicateShape
    <2>. QED
      BY <2>1, <2>2
  <1>2. ASSUME NEW p \in HistoryFreePredicates, p.kind = "relation", NEW row \in near[p.relation]
        PROVE LET d == Related(D, p.relation, row, p.edge)
                  e == Related(E, p.relation, row, p.edge)
              IN  /\ d \subseteq near[p.predicate.relation]
                  /\ d \subseteq e
                  /\ \/ d = e
                     \/ p.quantifier \in {"some", "one"} /\ e \cap Matching(E)[p.predicate] \subseteq d
    <2>1. /\ p \in Predicates /\ ~PredicateRequiresHistory[p] /\ p.relation \in {"contracts", "contractTypes"}
          /\ <<p.relation, p.edge, p.predicate.relation>> \in Edges
          /\ p.predicate \in Predicates /\ p.predicate.relation \in Relations
      BY <1>2, PredicateShape DEF HistoryFreePredicates
    <2>2. IF p.predicate.relation = "contracts" THEN ActiveStep(p) ELSE p.predicate.relation # "exercises"
      BY <1>2, <2>1, RequiresHistoryIs DEF HistoryRelations
    <2>. DEFINE d == Related(D, p.relation, row, p.edge)
                e == Related(E, p.relation, row, p.edge)
    <2>3. /\ d \subseteq near[p.predicate.relation]
          /\ d \subseteq e
          /\ p.predicate.relation = "contractTypes" => d = e
          /\ p.predicate.relation = "contracts" => e \cap l.active \subseteq d
      BY <2>1, <2>2, ActiveSteps
    <2>. HIDE DEF d, e
    <2>4. CASE p.predicate.relation = "contracts"
      <3>1. p.quantifier \in {"some", "one"} /\ ProvesActive[p.predicate]
        BY <2>2, <2>4 DEF ActiveStep
      <3>2. E.ledger = l
        BY DEF Everything, Dataset
      <3>3. Matching(E)[p.predicate] \subseteq l.active
        BY <2>1, <3>1, <3>2, OnlyActiveMatch
      <3>. QED
        BY <2>3, <2>4, <3>1, <3>3 DEF d, e
    <2>5. CASE p.predicate.relation = "contractTypes"
      BY <2>3, <2>5 DEF d, e
    <2>. QED
      BY <2>1, <2>2, <2>4, <2>5 DEF Relations
  <1>. HIDE DEF D, E, near
  <1>3. Followed(D, E, near, HistoryFreePredicates)
    BY <1>1, <1>2 DEF Followed
  <1>. QED
    BY <1>3 DEF D, E, near

\* And so are the includes that need none.
LEMMA ActiveIncludes ==
  ASSUME StepsStayFlat, NEW l \in Ledgers, NEW types, ActiveTypes(l, types)
  PROVE SameIncludes(Active(l, types), Everything(l), NearActive(l), HistoryFreeIncludes)
  <1>. DEFINE D == Active(l, types)
              E == Everything(l)
              near == NearActive(l)
  <1>1. D.ledger = l /\ E.ledger = l
    BY DEF Active, Everything, Dataset
  <1>2. NearRows(near)
    BY DEF NearRows, NearActive, Relations, Rows, RowsOf, Ledgers
  <1>3. Followed(D, E, near, HistoryFreePredicates)
    BY ActiveFollowed
  <1>4. ASSUME NEW includes \in HistoryFreeIncludes, NEW include \in Elements(includes)
        PROVE /\ include.includes \in HistoryFreeIncludes
              /\ \A row \in near[include.from] :
                   /\ Included(D, row, include) = Included(E, row, include)
                   /\ Included(D, row, include) \subseteq near[include.relation]
    <2>1. /\ includes \in IncludeLists /\ ~IncludesRequireHistory[includes]
          /\ include.from \in {"contracts", "contractTypes"}
      BY DEF HistoryFreeIncludes
    <2>2. /\ <<include.from, include.edge, include.relation>> \in Edges
          /\ include.predicate \in Predicates /\ include.predicate.relation = include.relation
          /\ include.includes \in IncludeLists
          /\ \A nested \in Elements(include.includes) : nested.from = include.relation
      BY <2>1, IncludeShape
    <2>3. include.relation \in Relations
      BY <2>2, PredicateShape
    <2>4. IF include.relation = "contracts" THEN ProvesActive[include.predicate]
          ELSE /\ include.relation # "exercises"
               /\ ~PredicateRequiresHistory[include.predicate]
               /\ ~IncludesRequireHistory[include.includes]
      BY <2>1, IncludesRequireIs DEF HistoryRelations
    <2>5. ~PredicateRequiresHistory[include.predicate] /\ ~IncludesRequireHistory[include.includes]
      BY <2>1, <2>4 DEF StepsStayFlat
    <2>6. include.relation \in {"contracts", "contractTypes"}
      BY <2>3, <2>4 DEF Relations
    <2>7. include.includes \in HistoryFreeIncludes /\ include.predicate \in HistoryFreePredicates
      BY <2>2, <2>5, <2>6 DEF HistoryFreeIncludes, HistoryFreePredicates
    <2>8. ASSUME NEW row \in near[include.from]
          PROVE /\ Included(D, row, include) = Included(E, row, include)
                /\ Included(D, row, include) \subseteq near[include.relation]
      <3>. DEFINE d == Related(D, include.from, row, include.edge)
                  e == Related(E, include.from, row, include.edge)
                  me == Matching(E)[include.predicate]
      <3>1. /\ d \subseteq near[include.relation]
            /\ d \subseteq e
            /\ include.relation = "contractTypes" => d = e
            /\ include.relation = "contracts" => e \cap l.active \subseteq d
        BY <2>1, <2>2, <2>6, ActiveSteps
      <3>2. include.relation = "contracts" => me \subseteq l.active
        BY <1>1, <2>2, <2>4, OnlyActiveMatch
      <3>3. e \cap me \subseteq d
        <4>. HIDE DEF d, e, me
        <4>. QED
          BY <2>6, <3>1, <3>2
      <3>. HIDE DEF D, E, near
      <3>. QED
        BY <1>1, <1>2, <1>3, <2>2, <2>7, <3>1, <3>3, IncludedAgree
    <2>. QED
      BY <2>7, <2>8
  <1>5. \A includes \in HistoryFreeIncludes : includes \in IncludeLists
    BY DEF HistoryFreeIncludes
  <1>. HIDE DEF D, E, near
  <1>6. SameIncludes(D, E, near, HistoryFreeIncludes)
    BY <1>4, <1>5 DEF SameIncludes
  <1>. QED
    BY <1>6 DEF D, E, near

\* A query that needs no history is answered by the active contracts and
\* the types at hand.
LEMMA ActiveAnswers ==
  ASSUME StepsStayFlat, NEW l \in Ledgers, NEW types, ActiveTypes(l, types),
         NEW q \in Queries, ~RequiresHistory(q), q.relation = "contractTypes" => types = Types
  PROVE Evaluate(Active(l, types), q) = Evaluate(Everything(l), q)
  <1>. DEFINE D == Active(l, types)
              E == Everything(l)
              near == NearActive(l)
  <1>1. /\ D.ledger = l /\ E.ledger = l
        /\ D["contracts"] = l.active /\ E["contracts"] = Contracts
        /\ D["contractTypes"] = types /\ E["contractTypes"] = Types
    BY DEF Active, Everything, Dataset
  <1>2. NearRows(near) /\ near["contracts"] = l.active /\ near["contractTypes"] = Types
    BY DEF NearRows, NearActive, Relations, Rows, RowsOf, Ledgers
  <1>3. Followed(D, E, near, HistoryFreePredicates)
    BY ActiveFollowed
  <1>4. SameIncludes(D, E, near, HistoryFreeIncludes)
    BY ActiveIncludes
  <1>5. /\ q.predicate \in Predicates /\ q.predicate.relation = q.relation /\ q.relation \in Relations
        /\ q.includes \in IncludeLists
        /\ \A include \in Elements(q.includes) : include.from = q.relation
    BY PlannerAssumption, PredicateShape
  <1>6. /\ ~PredicateRequiresHistory[q.predicate] /\ ~IncludesRequireHistory[q.includes]
        /\ q.relation \in {"contracts", "contractTypes"}
        /\ q.relation = "contracts" => ProvesActive[q.predicate]
    BY <1>5 DEF RequiresHistory, IsActiveOnly, HistoryRelations, Relations
  <1>7. q.predicate \in HistoryFreePredicates /\ q.includes \in HistoryFreeIncludes
    BY <1>5, <1>6 DEF HistoryFreePredicates, HistoryFreeIncludes
  <1>. DEFINE md == Matching(D)[q.predicate]
              me == Matching(E)[q.predicate]
  <1>8. \A row \in near[q.relation] : row \in md <=> row \in me
    <2>. HIDE DEF D, E, near
    <2>. QED
      BY <1>1, <1>2, <1>3, <1>5, <1>7, MatchesAgree
  <1>9. Filtered(D, q) = D[q.relation] \cap md /\ Filtered(E, q) = E[q.relation] \cap me
    BY DEF Filtered
  <1>10. q.relation = "contracts" => me \subseteq l.active
    BY <1>1, <1>5, <1>6, OnlyActiveMatch
  <1>. HIDE DEF D, E, near, md, me
  <1>11. Filtered(D, q) = Filtered(E, q) /\ Filtered(D, q) \subseteq near[q.relation]
    <2>1. l.active \subseteq Contracts
      BY DEF Ledgers
    <2>2. CASE q.relation = "contracts"
      BY <1>1, <1>2, <1>8, <1>9, <1>10, <2>1, <2>2
    <2>3. CASE q.relation = "contractTypes"
      BY <1>1, <1>2, <1>8, <1>9, <2>3
    <2>. QED
      BY <1>6, <2>2, <2>3
  <1>12. Evaluate(D, q) = Evaluate(E, q)
    BY <1>2, <1>4, <1>7, <1>11, AnswersAgree
  <1>. QED
    BY <1>12 DEF D, E

-----------------------------------------------------------------------------
(***************************************************************************)
(* The datasets that hold all rows of every relation a query reads.        *)
(***************************************************************************)

\* A dataset that is complete on the relations of K.  The types are if they
\* hold those of all contracts: no edge leads to another.
Complete(l, D, K) ==
  /\ D.ledger = l
  /\ "contracts" \in K => D.contracts = Contracts
  /\ "contractTypes" \in K => TypesOf(l, Contracts) \subseteq D.contractTypes /\ D.contractTypes \subseteq Types
  /\ "exercises" \in K => D.exercises = l.exercised

AllRows == [relation \in Relations |-> RowsOf(relation)]

Within(K) == {p \in Predicates : PredicateClosure[p] \subseteq K}

IncludedWithin(K) == {includes \in IncludeLists : IncludesClosure[includes] \subseteq K}

\* An edge to a complete relation leads to all its rows.
LEMMA CompleteSteps ==
  ASSUME NEW l \in Ledgers, NEW D, NEW K, Complete(l, D, K),
         NEW from \in Relations, NEW edge, NEW to, <<from, edge, to>> \in Edges, to \in K, NEW row \in AllRows[from]
  PROVE /\ Related(D, from, row, edge) = Related(Everything(l), from, row, edge)
        /\ Related(D, from, row, edge) \subseteq AllRows[to]
  <1>. DEFINE E == Everything(l)
  <1>1. E.ledger = l /\ E.contracts = Contracts /\ E.contractTypes = Types /\ E.exercises = l.exercised
    BY DEF Everything, Dataset
  <1>. HIDE DEF E
  <1>2. /\ AllRows["contracts"] = Contracts /\ AllRows["exercises"] = Contracts /\ AllRows["contractTypes"] = Types
        /\ l.exercised \subseteq Contracts
    BY DEF AllRows, Relations, RowsOf, Ledgers
  <1>3. CASE to = "contractTypes"
    <2>1. from \in {"contracts", "exercises"}
      BY <1>3, RelatedIs
    <2>2. l.typeOf[row] \in D.contractTypes /\ D.contractTypes \subseteq Types
      BY <1>2, <1>3, <2>1 DEF Complete, TypesOf
    <2>3. /\ Related(D, from, row, edge) = {t \in D.contractTypes : t = l.typeOf[row]}
          /\ Related(E, from, row, edge) = {t \in Types : t = l.typeOf[row]}
      BY <1>1, <1>3, RelatedIs DEF Complete
    <2>. QED
      BY <1>2, <1>3, <2>2, <2>3 DEF E
  <1>4. CASE to = "contracts"
    <2>1. D.contracts = E.contracts /\ D.ledger = E.ledger /\ D.contracts = Contracts
      BY <1>1, <1>4 DEF Complete
    <2>2. /\ Related(D, from, row, edge) = Related(E, from, row, edge)
          /\ Related(D, from, row, edge) \subseteq Contracts
      <3>1. from \in {"exercises", "contractTypes"}
        BY <1>4, RelatedIs
      <3>2. CASE from = "exercises"
        <4>1. /\ Related(D, from, row, edge) = D.contracts \cap {row}
              /\ Related(E, from, row, edge) = E.contracts \cap {row}
          BY <1>4, <3>2, RelatedIs
        <4>. QED
          BY <2>1, <4>1
      <3>3. CASE from = "contractTypes"
        <4>1. /\ Related(D, from, row, edge) = {c \in D.contracts : D.ledger.typeOf[c] = row}
              /\ Related(E, from, row, edge) = {c \in E.contracts : E.ledger.typeOf[c] = row}
          BY <1>4, <3>3, RelatedIs
        <4>. QED
          BY <2>1, <4>1
      <3>. QED
        BY <3>1, <3>2, <3>3
    <2>. QED
      BY <1>2, <1>4, <2>2 DEF E
  <1>5. CASE to = "exercises"
    <2>1. D.exercises = E.exercises /\ D.ledger = E.ledger /\ D.exercises \subseteq Contracts
      BY <1>1, <1>2, <1>5 DEF Complete
    <2>2. /\ Related(D, from, row, edge) = Related(E, from, row, edge)
          /\ Related(D, from, row, edge) \subseteq Contracts
      <3>1. from \in {"contracts", "contractTypes"}
        BY <1>5, RelatedIs
      <3>2. CASE from = "contracts"
        <4>1. /\ Related(D, from, row, edge) = D.exercises \cap {row}
              /\ Related(E, from, row, edge) = E.exercises \cap {row}
          BY <1>5, <3>2, RelatedIs
        <4>. QED
          BY <2>1, <4>1
      <3>3. CASE from = "contractTypes"
        <4>1. /\ Related(D, from, row, edge) = {c \in D.exercises : D.ledger.typeOf[c] = row}
              /\ Related(E, from, row, edge) = {c \in E.exercises : E.ledger.typeOf[c] = row}
          BY <1>5, <3>3, RelatedIs
        <4>. QED
          BY <2>1, <4>1
      <3>. QED
        BY <3>1, <3>2, <3>3
    <2>. QED
      BY <1>2, <1>5, <2>2 DEF E
  <1>. QED
    BY <1>3, <1>4, <1>5, RelatedIs

\* A query that filters the same rows of a dataset that is complete on all
\* it reads gets the answer everything gives.
LEMMA CompleteAnswers ==
  ASSUME NEW l \in Ledgers, NEW D, NEW K, Complete(l, D, K),
         NEW q \in Queries, D[q.relation] = Everything(l)[q.relation],
         PredicateClosure[q.predicate] \subseteq K, IncludesClosure[q.includes] \subseteq K
  PROVE Evaluate(D, q) = Evaluate(Everything(l), q)
  <1>. DEFINE E == Everything(l)
              near == AllRows
              P == Within(K)
              I == IncludedWithin(K)
  <1>1. D.ledger = l /\ E.ledger = l
    BY DEF Complete, Everything, Dataset
  <1>2. NearRows(near) /\ \A relation \in Relations : near[relation] = RowsOf(relation)
    BY DEF NearRows, AllRows, Relations, Rows, RowsOf
  <1>3. Followed(D, E, near, P)
    <2>1. ASSUME NEW p \in P PROVE p \in Predicates /\ Parts(p) \subseteq P
      <3>1. p \in Predicates /\ PredicateClosure[p] \subseteq K
        BY DEF Within
      <3>2. ASSUME NEW part \in Parts(p) PROVE part \in P
        <4>1. part \in Predicates
          BY <3>1, OnlyPart
        <4>2. PredicateClosure[part] \subseteq PredicateClosure[p]
          BY <3>1, <4>1, ClosureIs
        <4>. QED
          BY <3>1, <4>1, <4>2 DEF Within
      <3>. QED
        BY <3>1, <3>2
    <2>2. ASSUME NEW p \in P, p.kind = "relation", NEW row \in near[p.relation]
          PROVE /\ Related(D, p.relation, row, p.edge) = Related(E, p.relation, row, p.edge)
                /\ Related(D, p.relation, row, p.edge) \subseteq near[p.predicate.relation]
      <3>1. /\ p \in Predicates /\ PredicateClosure[p] \subseteq K
            /\ <<p.relation, p.edge, p.predicate.relation>> \in Edges
            /\ p.relation \in Relations /\ p.predicate \in Predicates /\ p.predicate.relation \in Relations
        BY <2>2, PredicateShape DEF Within
      <3>2. p.predicate.relation \in K
        BY <2>2, <3>1, ClosureIs
      <3>. QED
        BY <3>1, <3>2, CompleteSteps
    <2>. HIDE DEF E, near, P
    <2>. QED
      BY <2>1, <2>2 DEF Followed
  <1>4. ASSUME NEW includes \in I, NEW include \in Elements(includes)
        PROVE /\ include.includes \in I
              /\ \A row \in near[include.from] :
                   /\ Included(D, row, include) = Included(E, row, include)
                   /\ Included(D, row, include) \subseteq near[include.relation]
    <2>1. includes \in IncludeLists /\ IncludesClosure[includes] \subseteq K
      BY DEF IncludedWithin
    <2>2. /\ <<include.from, include.edge, include.relation>> \in Edges
          /\ include.predicate \in Predicates /\ include.predicate.relation = include.relation
          /\ include.includes \in IncludeLists
      BY <2>1, IncludeShape
    <2>3. include.relation \in Relations /\ include.from \in Relations
      BY <2>2, PredicateShape DEF Edges, Relations
    <2>4. /\ include.relation \in K
          /\ PredicateClosure[include.predicate] \subseteq K
          /\ IncludesClosure[include.includes] \subseteq K
      <3>1. include.relation \in IncludesClosure[includes]
        BY <2>1, <2>3, IncludesClosureIs
      <3>2. PredicateClosure[include.predicate] \subseteq Relations /\ IncludesClosure[include.includes] \subseteq Relations
        BY <2>2, ClosureIs, IncludesClosureIs
      <3>3. /\ PredicateClosure[include.predicate] \subseteq IncludesClosure[includes]
            /\ IncludesClosure[include.includes] \subseteq IncludesClosure[includes]
        BY <2>1, <3>2, IncludesClosureIs
      <3>. QED
        BY <2>1, <3>1, <3>3
    <2>5. include.includes \in I /\ include.predicate \in P
      BY <2>2, <2>4 DEF IncludedWithin, Within
    <2>6. ASSUME NEW row \in near[include.from]
          PROVE /\ Included(D, row, include) = Included(E, row, include)
                /\ Included(D, row, include) \subseteq near[include.relation]
      <3>. DEFINE d == Related(D, include.from, row, include.edge)
                  e == Related(E, include.from, row, include.edge)
      <3>1. d = e /\ d \subseteq near[include.relation]
        BY <2>2, <2>3, <2>4, CompleteSteps
      <3>2. d \subseteq e /\ e \cap Matching(E)[include.predicate] \subseteq d
        <4>. HIDE DEF d, e
        <4>. QED
          BY <3>1
      <3>. HIDE DEF E, near, P
      <3>. QED
        BY <1>1, <1>2, <1>3, <2>2, <2>5, <3>1, <3>2, IncludedAgree
    <2>. QED
      BY <2>5, <2>6
  <1>5. SameIncludes(D, E, near, I)
    <2>1. \A includes \in I : includes \in IncludeLists
      BY DEF IncludedWithin
    <2>. HIDE DEF E, near, I
    <2>. QED
      BY <1>4, <2>1 DEF SameIncludes
  <1>6. /\ q.predicate \in Predicates /\ q.predicate.relation = q.relation /\ q.relation \in Relations
        /\ q.includes \in IncludeLists
    BY PlannerAssumption, PredicateShape
  <1>7. q.predicate \in P /\ q.includes \in I
    BY <1>6 DEF Within, IncludedWithin
  <1>8. E[q.relation] \subseteq near[q.relation]
    BY <1>2, <1>6 DEF Everything, Dataset, Relations, RowsOf, Ledgers
  <1>. DEFINE md == Matching(D)[q.predicate]
              me == Matching(E)[q.predicate]
  <1>9. \A row \in near[q.relation] : row \in md <=> row \in me
    <2>. HIDE DEF E, near, P
    <2>. QED
      BY <1>1, <1>2, <1>3, <1>6, <1>7, MatchesAgree
  <1>10. Filtered(D, q) = D[q.relation] \cap md /\ Filtered(E, q) = E[q.relation] \cap me
    BY DEF Filtered
  <1>11. D[q.relation] = E[q.relation]
    OBVIOUS
  <1>. HIDE DEF E, near, P, I, md, me
  <1>12. Filtered(D, q) = Filtered(E, q) /\ Filtered(D, q) \subseteq near[q.relation]
    BY <1>8, <1>9, <1>10, <1>11
  <1>13. Evaluate(D, q) = Evaluate(E, q)
    BY <1>2, <1>5, <1>7, <1>12, AnswersAgree
  <1>. QED
    BY <1>13 DEF E

-----------------------------------------------------------------------------
(***************************************************************************)
(* The plan: each source it chooses answers as everything would.           *)
(***************************************************************************)

\* The snapshot serves what everything would.
LEMMA CachedAnswers ==
  ASSUME StepsStayFlat, NEW l \in Ledgers, NEW q \in Queries, IsActiveOnly(q), ~RequiresHistory(q)
  PROVE Evaluate(CachedContracts(l), q) = Evaluate(Everything(l), q)
  <1>. DEFINE types == TypesOf(l, l.active)
  <1>1. CachedContracts(l) = Active(l, types) /\ q.relation # "contractTypes"
    BY DEF CachedContracts, Active, IsActiveOnly
  <1>2. ActiveTypes(l, types)
    BY DEF ActiveTypes, TypesOf, Ledgers
  <1>. HIDE DEF types
  <1>. QED
    BY <1>1, <1>2, ActiveAnswers

\* So does a replay, with what it drops.
LEMMA ReplayAnswers ==
  ASSUME NEW l \in Ledgers, NEW q \in Queries
  PROVE Evaluate(Replayed(l, q), q) = Evaluate(Everything(l), q)
  <1>. DEFINE K == RelationClosure(q)
              D == Replayed(l, q)
  <1>1. q.relation \in K /\ PredicateClosure[q.predicate] \subseteq K /\ IncludesClosure[q.includes] \subseteq K
    BY DEF RelationClosure
  <1>2. q.relation \in Relations
    BY PlannerAssumption, PredicateShape
  <1>3. /\ D.ledger = l /\ D.contracts = Contracts /\ D["contracts"] = Contracts
        /\ q.relation \in CatalogRelations => D.contractTypes = Types /\ D["contractTypes"] = Types
        /\ RequiresPackageMetadata(K) /\ q.relation \notin CatalogRelations => D.contractTypes = TypesOf(l, Contracts)
        /\ ClosureNeedsExercises(K) => D.exercises = l.exercised /\ D["exercises"] = l.exercised
    BY DEF Replayed, Dataset
  <1>4. TypesOf(l, Contracts) \subseteq Types
    BY DEF TypesOf, Ledgers
  <1>5. "contractTypes" \in K => RequiresPackageMetadata(K)
    BY DEF RequiresPackageMetadata
  <1>6. "exercises" \in K => ClosureNeedsExercises(K)
    BY DEF ClosureNeedsExercises
  <1>. HIDE DEF K, D
  <1>7. Complete(l, D, K)
    BY <1>3, <1>4, <1>5, <1>6 DEF Complete
  <1>8. D[q.relation] = Everything(l)[q.relation]
    BY <1>1, <1>2, <1>3, <1>6 DEF Relations, CatalogRelations, Everything, Dataset
  <1>9. Evaluate(D, q) = Evaluate(Everything(l), q)
    BY <1>1, <1>7, <1>8, CompleteAnswers
  <1>. QED
    BY <1>9 DEF D

\* The relations of a query that needs no history.
LEMMA ClosureOf ==
  ASSUME StepsStayFlat, NEW q \in Queries, ~RequiresHistory(q)
  PROVE RelationClosure(q) \subseteq {"contracts", "contractTypes"} \cup (IF q.bucketed THEN {"transactions"} ELSE {})
  <1>1. q.predicate \in Predicates /\ q.includes \in IncludeLists /\ q.relation \in Relations
    BY PlannerAssumption, PredicateShape
  <1>2. PredicateClosure[q.predicate] \subseteq Relations /\ IncludesClosure[q.includes] \subseteq Relations
    BY <1>1, ClosureIs, IncludesClosureIs
  <1>3. "exercises" \notin PredicateClosure[q.predicate] /\ "exercises" \notin IncludesClosure[q.includes]
    BY <1>1, NoExercises DEF RequiresHistory
  <1>4. q.relation # "exercises"
    BY DEF RequiresHistory, HistoryRelations
  <1>. QED
    BY <1>1, <1>2, <1>3, <1>4 DEF RelationClosure, Relations

\* So do the packages, alone or with the snapshot.
LEMMA CatalogAnswers ==
  ASSUME StepsStayFlat, NEW l \in Ledgers, NEW q \in Queries, ~RequiresHistory(q), q.relation \in CatalogRelations
  PROVE /\ Evaluate(Catalog(l, l.active), q) = Evaluate(Everything(l), q)
        /\ "contracts" \notin RelationClosure(q) => Evaluate(Catalog(l, {}), q) = Evaluate(Everything(l), q)
  <1>1. Evaluate(Catalog(l, l.active), q) = Evaluate(Everything(l), q)
    <2>1. ActiveTypes(l, Types)
      BY DEF ActiveTypes, TypesOf, Ledgers
    <2>2. Catalog(l, l.active) = Active(l, Types)
      BY DEF Catalog, Active
    <2>. QED
      BY <2>1, <2>2, ActiveAnswers
  <1>2. ASSUME "contracts" \notin RelationClosure(q)
        PROVE Evaluate(Catalog(l, {}), q) = Evaluate(Everything(l), q)
    <2>. DEFINE K == RelationClosure(q)
                D == Catalog(l, {})
    <2>1. PredicateClosure[q.predicate] \subseteq K /\ IncludesClosure[q.includes] \subseteq K
      BY DEF RelationClosure
    <2>2. q.relation = "contractTypes"
      BY PlannerAssumption, PredicateShape DEF CatalogRelations, Relations
    <2>3. "contracts" \notin K /\ "exercises" \notin K
      BY <1>2, ClosureOf
    <2>4. D.ledger = l /\ D.contractTypes = Types /\ D[q.relation] = Everything(l)[q.relation]
      BY <2>2 DEF Catalog, Everything, Dataset
    <2>5. TypesOf(l, Contracts) \subseteq Types
      BY DEF TypesOf, Ledgers
    <2>. HIDE DEF K, D
    <2>6. Complete(l, D, K)
      BY <2>3, <2>4, <2>5 DEF Complete
    <2>7. Evaluate(D, q) = Evaluate(Everything(l), q)
      BY <2>1, <2>4, <2>6, CompleteAnswers
    <2>. QED
      BY <2>7 DEF D
  <1>. QED
    BY <1>1, <1>2

PlanTypes == ledger \in Ledgers /\ query \in Queries \cup {NoQuery}

PlanInv == PlanTypes /\ PlanSound /\ AnsweredWhenEnabled

\* Nothing is answered at first.
LEMMA PlanStarts == PlannerInit => PlanInv
  BY DEF PlannerInit, PlanInv, PlanTypes, PlanSound, AnsweredWhenEnabled, Answered

\* Every outcome of readDatasetAsync keeps the invariant.
LEMMA PlanStep == ASSUME StepsStayFlat PROVE PlanInv /\ [PlannerNext]_plannerVars => PlanInv'
  <1>. SUFFICES ASSUME PlanInv, [PlannerNext]_plannerVars PROVE PlanInv'
    OBVIOUS
  <1>. USE DEF PlanInv
  <1>1. ledger \in Ledgers
    BY DEF PlanTypes
  <1>2. ASSUME NEW q \in Queries, Start(q),
               \/ \E rows : rows = Evaluate(Everything(ledger), q) /\ answer' = Answers(rows)
               \/ /\ \E error : answer' = Fails(error)
                  /\ warm /\ walkHistory => q.bucketed
        PROVE PlanInv'
    <2>1. query' = q /\ ledger' = ledger /\ warm' = warm /\ walkHistory' = walkHistory
      BY <1>2 DEF Start, Settings
    <2>2. PlanTypes'
      BY <1>1, <2>1 DEF PlanTypes
    <2>3. CASE \E rows : rows = Evaluate(Everything(ledger), q) /\ answer' = Answers(rows)
      <3>1. "rows" \in DOMAIN answer' /\ answer'.rows = Evaluate(Everything(ledger), q)
        BY <2>3 DEF Answers
      <3>2. q # NoQuery
        BY PlannerAssumption
      <3>3. Evaluate(Everything(ledger), q) = Evaluate(Everything(ledger'), query')
        BY <2>1
      <3>. QED
        BY <2>1, <2>2, <3>1, <3>2, <3>3 DEF PlanSound, AnsweredWhenEnabled, Answered
    <2>4. CASE (\E error : answer' = Fails(error)) /\ (warm /\ walkHistory => q.bucketed)
      <3>1. "rows" \notin DOMAIN answer'
        BY <2>4 DEF Fails
      <3>. QED
        BY <2>1, <2>2, <2>4, <3>1 DEF PlanSound, AnsweredWhenEnabled, Answered
    <2>. QED
      BY <1>2, <2>3, <2>4
  <1>3. ASSUME NEW q \in Queries, ServeCached(q) PROVE PlanInv'
    <2>1. Start(q) /\ IsActiveOnly(q) /\ ~RequiresHistory(q)
      BY <1>3 DEF ServeCached, ServedFromCache
    <2>2. CASE q.bucketed /\ Filtered(CachedContracts(ledger), q) # {}
      BY <1>2, <1>3, <2>1, <2>2 DEF ServeCached
    <2>3. CASE ~(q.bucketed /\ Filtered(CachedContracts(ledger), q) # {})
      <3>1. answer' = Answers(Evaluate(CachedContracts(ledger), q))
        BY <1>3, <2>3 DEF ServeCached
      <3>2. Evaluate(CachedContracts(ledger), q) = Evaluate(Everything(ledger), q)
        BY <1>1, <2>1, CachedAnswers
      <3>. QED
        BY <1>2, <2>1, <3>1, <3>2
    <2>. QED
      BY <2>2, <2>3
  <1>4. ASSUME NEW q \in Queries, RefuseReplay(q) PROVE PlanInv'
    BY <1>2, <1>4 DEF RefuseReplay
  <1>5. ASSUME NEW q \in Queries, Replay(q) PROVE PlanInv'
    <2>1. Evaluate(Replayed(ledger, q), q) = Evaluate(Everything(ledger), q)
      BY <1>1, ReplayAnswers
    <2>. QED
      BY <1>2, <1>5, <2>1 DEF Replay
  <1>6. ASSUME NEW q \in Queries, ServeCatalog(q) PROVE PlanInv'
    <2>1. Start(q) /\ ~RequiresHistory(q) /\ q.relation \in CatalogRelations
      BY <1>6 DEF ServeCatalog
    <2>2. CASE "contracts" \notin RelationClosure(q)
      <3>1. answer' = Answers(Evaluate(Catalog(ledger, {}), q))
        BY <1>6, <2>2 DEF ServeCatalog
      <3>2. Evaluate(Catalog(ledger, {}), q) = Evaluate(Everything(ledger), q)
        BY <1>1, <2>1, <2>2, CatalogAnswers
      <3>. QED
        BY <1>2, <2>1, <3>1, <3>2
    <2>3. CASE "contracts" \in RelationClosure(q) /\ warm
      <3>1. answer' = Answers(Evaluate(Catalog(ledger, ledger.active), q))
        BY <1>6, <2>3 DEF ServeCatalog
      <3>2. Evaluate(Catalog(ledger, ledger.active), q) = Evaluate(Everything(ledger), q)
        BY <1>1, <2>1, CatalogAnswers
      <3>. QED
        BY <1>2, <2>1, <3>1, <3>2
    <2>4. CASE "contracts" \in RelationClosure(q) /\ ~warm
      <3>1. answer' = Fails("ContractCacheRequired")
        BY <1>6, <2>4 DEF ServeCatalog
      <3>. QED
        BY <1>2, <2>1, <2>4, <3>1
    <2>. QED
      BY <2>2, <2>3, <2>4
  <1>7. ASSUME NEW q \in Queries, RequireCache(q) PROVE PlanInv'
    <2>1. Start(q) /\ ~RequiresHistory(q) /\ ~ServedFromCache(q) /\ answer' = Fails("ContractCacheRequired")
          /\ q.relation = "contracts"
      BY <1>7 DEF RequireCache
    <2>2. IsActiveOnly(q)
      BY <2>1 DEF RequiresHistory
    <2>3. RelationClosure(q) \cap {"exercises", "exerciseTypes", "packages"} = {}
      BY <2>1, ClosureOf
    <2>4. ~warm
      BY <2>1, <2>2, <2>3 DEF ServedFromCache
    <2>. QED
      BY <1>2, <2>1, <2>4
  <1>8. CASE Return
    BY <1>8 DEF Return, Settings, PlanTypes, PlanSound, AnsweredWhenEnabled, Answered
  <1>9. CASE UNCHANGED plannerVars
    BY <1>9 DEF plannerVars, PlanTypes, PlanSound, AnsweredWhenEnabled, Answered
  <1>. QED
    BY <1>3, <1>4, <1>5, <1>6, <1>7, <1>8, <1>9 DEF PlannerNext

(* Whatever the contracts, types and queries, while the steps to active    *)
(* contracts stay flat: a query that readDatasetAsync answers gets the     *)
(* answer a replay of the whole history would give it.                     *)
THEOREM PlanIsSound == ASSUME StepsStayFlat PROVE PlannerSpec => []PlanSound
  <1>1. PlannerInit => PlanInv
    BY PlanStarts
  <1>2. PlanInv /\ [PlannerNext]_plannerVars => PlanInv'
    BY PlanStep
  <1>3. PlanInv => PlanSound
    BY DEF PlanInv
  <1>. QED
    BY <1>1, <1>2, <1>3, PTL DEF PlannerSpec

(* Under the same condition, with a warm cache and history allowed no      *)
(* query falls between the snapshot, the packages and the replay, the time *)
(* buckets of active contracts apart.                                      *)
THEOREM QueriesAreAnswered == ASSUME StepsStayFlat PROVE PlannerSpec => []AnsweredWhenEnabled
  <1>1. PlannerInit => PlanInv
    BY PlanStarts
  <1>2. PlanInv /\ [PlannerNext]_plannerVars => PlanInv'
    BY PlanStep
  <1>3. PlanInv => AnsweredWhenEnabled
    BY DEF PlanInv
  <1>. QED
    BY <1>1, <1>2, <1>3, PTL DEF PlannerSpec
=============================================================================
