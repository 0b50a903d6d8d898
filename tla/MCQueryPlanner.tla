---------------------------- MODULE MCQueryPlanner ----------------------------
(***************************************************************************)
(* Queries for TLC: conditions of bounded depth on contracts and types.    *)
(***************************************************************************)
EXTENDS QueryPlanner, FiniteSetsExt, TLC

Quantifiers == {"some", "none", "every"}

Connect(relation, P, Q) ==
  {And(relation, <<p, q>>) : p \in P, q \in Q} \cup {Or(relation, <<p, q>>) : p \in P, q \in Q} \cup {Not(q) : q \in Q}

AnyExercise == Scalar("exercises", "any")

IsLarge == Scalar("contractTypes", "large")

Fields == {Scalar("contracts", "active"), Scalar("contracts", "inactive"), Scalar("contracts", "tinted")}

Conditions == Fields \cup {Relation("contracts", "contractType", "one", IsLarge)}

OnExercises(relation) == {Relation(relation, "exercises", q, AnyExercise) : q \in {"some", "none"}}

\* Conditions on a contract and its type.
OnContract == Conditions \cup Connect("contracts", Conditions, Conditions)

DeepOnContract == OnContract \cup Connect("contracts", Fields, Connect("contracts", Fields, Fields))

\* Conditions on a type, its contracts included.
OnContracts(P) == {Relation("contractTypes", "contracts", q, p) : q \in Quantifiers, p \in P}

OnType == {IsLarge} \cup OnExercises("contractTypes") \cup OnContracts(OnContract)

DeepOnType == OnType \cup Connect("contractTypes", {IsLarge}, OnType) \cup OnContracts(DeepOnContract)

ContractQueries ==
  {Find(p, <<>>) : p \in
     DeepOnContract \cup {Relation("contracts", "exercises", "some", AnyExercise)}
       \cup Connect("contracts", Fields,
              {Relation("contracts", "contractType", "one", t) : t \in OnType}
                \cup {Relation("contracts", "exercises", "none", AnyExercise)})}

ToContracts(p, includes) == <<Include("contractTypes", "contracts", p, includes)>>
ToType(includes) == <<Include("contracts", "contractType", Always("contractTypes"), includes)>>

IncludeQueries ==
  {Find(Always("contractTypes"), ToContracts(p, <<>>)) : p \in OnContract}
    \cup {Find(Always("contractTypes"), ToContracts(p, ToType(<<>>))) : p \in Fields}
    \cup {Find(p, ToType(ToContracts(r, <<>>))) : p \in Fields, r \in Fields}
    \cup {Find(p, <<Include("contracts", "exercises", Always("exercises"), <<>>)>>) : p \in Fields}

OtherQueries ==
  {Bucket(p) : p \in Fields}
    \cup {Find(p, <<>>) : p \in {Always("exercises"),
                                 Relation("exercises", "contract", "one", Scalar("contracts", "active"))}}

\* Conditions below a step to active contracts stay on the contract and its type.
FlatQueries ==
  OtherQueries \cup IncludeQueries \cup {Find(t, <<>>) : t \in DeepOnType} \cup ContractQueries

\* A condition on the exercises of the active contracts of a type.
NestedQueries ==
  {Find(Relation("contractTypes", "contracts", "some", And("contracts", <<Scalar("contracts", "active"), p>>)), <<>>) :
     p \in OnExercises("contracts") \cup Fields}

-----------------------------------------------------------------------------
(***************************************************************************)
(* What the queries consist of.                                            *)
(***************************************************************************)

MaxOf(S) == Max(S \cup {0})

RECURSIVE PredicateHeight(_), IncludesHeight(_)
PredicateHeight(p) == 1 + MaxOf({PredicateHeight(part) : part \in Parts(p)})
IncludesHeight(includes) == 1 + MaxOf({IncludesHeight(include.includes) : include \in Elements(includes)})

PartsOfFlat ==
  {AnyExercise} \cup OnExercises("contracts") \cup {Always(relation) : relation \in Relations}
    \cup {Relation("contracts", "contractType", "one", t) : t \in OnType}
    \cup {q.predicate : q \in FlatQueries}
ListsOfFlat == {ToType(<<>>)} \cup {ToContracts(p, <<>>) : p \in Fields} \cup {q.includes : q \in FlatQueries}

PartsOfNested ==
  UNION {{q.predicate, q.predicate.predicate} : q \in NestedQueries}
    \cup Fields \cup OnExercises("contracts") \cup {AnyExercise}

\* TLC keeps the value of a definition, not that of a replaced constant.
FlatPredicates == PartsOfFlat
FlatIncludes == ListsOfFlat
NestedPredicates == PartsOfNested
NestedIncludes == {<<>>}

ASSUME FlatQueriesAreFlat == StepsStayFlat <=> Queries = FlatQueries

PlannerSymmetry == Permutations(Contracts)
=============================================================================
