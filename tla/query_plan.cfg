SPECIFICATION PlannerSpec
CONSTANTS
  Contracts = {c1, c2}
  Types = {t1, t2}
  Large = {t1}
  Predicates <- FlatPredicates
  PredicateDepth <- PredicateHeight
  IncludeLists <- FlatIncludes
  IncludesDepth <- IncludesHeight
  Queries <- FlatQueries
  NoQuery = NoQuery
SYMMETRY PlannerSymmetry
INVARIANTS
  PlanSound
  AnsweredWhenEnabled
