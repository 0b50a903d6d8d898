SPECIFICATION PlannerSpec
CONSTANTS
  Contracts = {c1, c2}
  Types = {t1, t2}
  Large = {t1}
  Predicates <- NestedPredicates
  PredicateDepth <- PredicateHeight
  IncludeLists <- NestedIncludes
  IncludesDepth <- IncludesHeight
  Queries <- NestedQueries
  NoQuery = NoQuery
SYMMETRY PlannerSymmetry
INVARIANTS
  PlanSound
