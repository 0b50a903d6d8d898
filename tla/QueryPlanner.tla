---------------------------- MODULE QueryPlanner ----------------------------
(***************************************************************************)
(* DefaultGrpcQueryDataProvider.readDatasetAsync: from which rows a query  *)
(* is answered.  A query that provably concerns active contracts only is   *)
(* answered from the cached snapshot, a catalog query from the packages    *)
(* (and the snapshot), any other one from a replay of the whole history,   *)
(* which the application must have allowed.  The decision is made from the *)
(* shape of the query; the in-memory evaluator then runs on those rows.    *)
(*                                                                         *)
(* A contract stands for its row, for its creation and, if it was ever     *)
(* exercised, for that exercise.  The dataset belongs to one offset.       *)
(***************************************************************************)
EXTENDS Integers, Sequences, FiniteSets

CONSTANTS
  Contracts,          (* every contract the history has seen               *)
  Types,              (* contract types of the installed packages          *)
  Large,              (* the types a scalar condition on types selects     *)
  Predicates,         (* the predicates of the queries, with all parts     *)
  PredicateDepth(_),  (* how deep a predicate nests                        *)
  IncludeLists,       (* the include lists of the queries, nested ones too *)
  IncludesDepth(_),   (* how deep an include list nests                    *)
  Queries,            (* normalized queries                                *)
  NoQuery             (* no query is under way                             *)

VARIABLES
  ledger,       (* types, active, tinted and exercised contracts           *)
  warm,         (* the contract cache answers with an unexpired snapshot   *)
  walkHistory,  (* options.walkHistory                                     *)
  query,        (* the query under way                                     *)
  answer        (* its result or the class of its error                    *)

plannerVars == <<ledger, warm, walkHistory, query, answer>>

(***************************************************************************)
(* Predicates and includes, as the normalizer builds them.  A predicate    *)
(* carries the relation it is about, which the code hands down with it.    *)
(***************************************************************************)

Scalar(relation, field) == [kind |-> "scalar", relation |-> relation, field |-> field]
And(relation, children) == [kind |-> "and", relation |-> relation, children |-> children]
Or(relation, children) == [kind |-> "or", relation |-> relation, children |-> children]
Not(child) == [kind |-> "not", relation |-> child.relation, child |-> child]
Relation(relation, edge, quantifier, predicate) ==
  [kind |-> "relation", relation |-> relation, edge |-> edge, quantifier |-> quantifier, predicate |-> predicate]

Always(relation) == And(relation, <<>>)  (* an absent predicate *)

Include(from, edge, predicate, includes) ==
  [from |-> from, edge |-> edge, relation |-> predicate.relation, predicate |-> predicate, includes |-> includes]

\* A find query, or a groupBy over the time bucket of createdTransaction.
Find(predicate, includes) ==
  [relation |-> predicate.relation, predicate |-> predicate, includes |-> includes, bucketed |-> FALSE]
Bucket(predicate) ==
  [relation |-> "contracts", predicate |-> predicate, includes |-> <<>>, bucketed |-> TRUE]

\* queryRelationEdges: source, edge and target of every edge the model follows.
Edges ==
  {<<"contracts", "contractType", "contractTypes">>, <<"contracts", "exercises", "exercises">>,
   <<"contractTypes", "contracts", "contracts">>, <<"contractTypes", "exercises", "exercises">>,
   <<"exercises", "contract", "contracts">>, <<"exercises", "contractType", "contractTypes">>}

Relations == {"contracts", "contractTypes", "exercises"}

Children(p) == {p.children[k] : k \in DOMAIN p.children}

Elements(includes) == {includes[k] : k \in DOMAIN includes}

Parts(p) ==
  CASE p.kind \in {"and", "or"} -> Children(p)
    [] p.kind = "not" -> {p.child}
    [] p.kind = "relation" -> {p.predicate}
    [] p.kind = "scalar" -> {}

\* A query is a finite tree that names only edges of the schema.
PredicateAssumption ==
  \A p \in Predicates :
    /\ p.kind \in {"scalar", "and", "or", "not", "relation"}
    /\ p.relation \in Relations
    /\ PredicateDepth(p) \in Nat
    /\ \A part \in Parts(p) : part \in Predicates /\ PredicateDepth(part) < PredicateDepth(p)
    /\ p.kind \in {"and", "or", "not"} => \A part \in Parts(p) : part.relation = p.relation
    /\ p.kind = "relation" => /\ <<p.relation, p.edge, p.predicate.relation>> \in Edges
                              /\ p.quantifier \in {"one", "some", "none", "every"}

IncludeAssumption ==
  \A includes \in IncludeLists :
    /\ IncludesDepth(includes) \in Nat
    /\ \A include \in Elements(includes) :
         /\ <<include.from, include.edge, include.relation>> \in Edges
         /\ include.predicate \in Predicates /\ include.predicate.relation = include.relation
         /\ include.includes \in IncludeLists
         /\ IncludesDepth(include.includes) < IncludesDepth(includes)
         /\ \A nested \in Elements(include.includes) : nested.from = include.relation

ASSUME PlannerAssumption ==
  /\ Large \subseteq Types
  /\ NoQuery \notin Queries
  /\ PredicateAssumption
  /\ IncludeAssumption
  /\ \A q \in Queries :
       /\ q.predicate \in Predicates /\ q.predicate.relation = q.relation
       /\ q.includes \in IncludeLists
       /\ \A include \in Elements(q.includes) : include.from = q.relation
       /\ q.bucketed \in BOOLEAN

-----------------------------------------------------------------------------
(***************************************************************************)
(* The plan.                                                               *)
(***************************************************************************)

\* "active" is active: true, or one of the archived fields being null.
ProvesActive[p \in Predicates] ==
  \/ p.kind = "scalar" /\ p.field = "active"
  \/ p.kind = "and" /\ \E child \in Children(p) : ProvesActive[child]
  \/ p.kind = "or" /\ p.children # <<>> /\ \A child \in Children(p) : ProvesActive[child]

HistoryRelations == {"transactions", "events", "exercises"}

\* Slip: every quantifier over active contracts is taken to be answered.
ActiveStepAny(p) == ProvesActive[p.predicate]

\* The active contracts answer whether an active one matches; "every" and
\* "none" must see the archived ones too.
ActiveStep(p) == p.quantifier \in {"some", "one"} /\ ProvesActive[p.predicate]

PredicateRequiresHistory[p \in Predicates] ==
  \/ p.kind = "not" /\ PredicateRequiresHistory[p.child]
  \/ p.kind \in {"and", "or"} /\ \E child \in Children(p) : PredicateRequiresHistory[child]
  \/ /\ p.kind = "relation"
     /\ LET target == p.predicate.relation IN
        IF target = "contracts" THEN ~ActiveStep(p)
        ELSE target \in HistoryRelations \/ PredicateRequiresHistory[p.predicate]

IncludesRequireHistory[includes \in IncludeLists] ==
  \E include \in Elements(includes) :
    IF include.relation = "contracts" THEN ~ProvesActive[include.predicate]
    ELSE \/ include.relation \in HistoryRelations
         \/ PredicateRequiresHistory[include.predicate]
         \/ IncludesRequireHistory[include.includes]

IsActiveOnly(q) == q.relation = "contracts" /\ ProvesActive[q.predicate]

RequiresHistory(q) ==
  \/ q.relation \in HistoryRelations
  \/ q.relation = "contracts" /\ ~IsActiveOnly(q)
  \/ PredicateRequiresHistory[q.predicate]
  \/ IncludesRequireHistory[q.includes]

PredicateClosure[p \in Predicates] ==
  {relation \in Relations :
     \/ p.kind = "relation" /\ relation = p.predicate.relation
     \/ \E part \in Parts(p) : relation \in PredicateClosure[part]}

IncludesClosure[includes \in IncludeLists] ==
  {relation \in Relations : \E include \in Elements(includes) :
     \/ relation = include.relation
     \/ relation \in PredicateClosure[include.predicate]
     \/ relation \in IncludesClosure[include.includes]}

\* Every relation the query reads rows of.
RelationClosure(q) ==
  {q.relation} \cup PredicateClosure[q.predicate] \cup IncludesClosure[q.includes]
    \cup (IF q.bucketed THEN {"transactions"} ELSE {})

CatalogRelations == {"packages", "contractTypes", "exerciseTypes"}

RequiresPackageMetadata(closure) == closure \cap {"packages", "contractTypes", "exercises", "exerciseTypes"} # {}

ClosureNeedsExercises(closure) == closure \cap {"exercises", "exerciseTypes"} # {}

-----------------------------------------------------------------------------
(***************************************************************************)
(* The datasets and their evaluation.                                      *)
(***************************************************************************)

\* What the rows of a ledger say of themselves, and the rows at hand.
Dataset(l, contracts, types, exercises) ==
  [ledger |-> l, contracts |-> contracts, contractTypes |-> types, exercises |-> exercises]

TypesOf(l, contracts) == {l.typeOf[c] : c \in contracts}

\* cachedContractsDataset
CachedContracts(l) == Dataset(l, l.active, TypesOf(l, l.active), {})

\* The rows of a replay.  Exercises nobody asked for are dropped when only
\* the creations' metadata is known.
Replayed(l, q) ==
  LET closure == RelationClosure(q) IN
  Dataset(l, Contracts,
          IF q.relation \in CatalogRelations THEN Types
            ELSE IF RequiresPackageMetadata(closure) THEN TypesOf(l, Contracts) ELSE {},
          IF /\ RequiresPackageMetadata(closure)
             /\ q.relation \notin CatalogRelations
             /\ "packages" \notin closure
             /\ ~ClosureNeedsExercises(closure)
            THEN {} ELSE l.exercised)

\* createGrpcQueryDataset on the packages and the snapshot's contracts, if any.
Catalog(l, contracts) == Dataset(l, contracts, Types, {})

RowsOf(relation) == IF relation = "contractTypes" THEN Types ELSE Contracts

\* relatedQueryRows
Related(dataset, relation, row, edge) ==
  LET typeOf == dataset.ledger.typeOf IN
  CASE edge = "contractType" -> {t \in dataset.contractTypes : t = typeOf[row]}
    [] edge = "contract" -> dataset.contracts \cap {row}
    [] edge = "contracts" -> {c \in dataset.contracts : typeOf[c] = row}
    [] edge = "exercises" /\ relation = "contracts" -> dataset.exercises \cap {row}
    [] edge = "exercises" /\ relation = "contractTypes" -> {c \in dataset.exercises : typeOf[c] = row}

\* Scalar conditions; "any" is one every row meets.
Holds(l, row, field) ==
  CASE field = "active" -> row \in l.active
    [] field = "inactive" -> row \notin l.active
    [] field = "tinted" -> row \in l.tinted
    [] field = "large" -> row \in Large
    [] field = "any" -> TRUE

\* A to-one edge has at most one related row.
Quantified(quantifier, matching, related) ==
  CASE quantifier \in {"some", "one"} -> matching # {}
    [] quantifier = "none" -> matching = {}
    [] quantifier = "every" -> matching = related

\* The rows that meet a predicate.
Matching(dataset) ==
  LET matching[p \in Predicates] ==
        LET rows == RowsOf(p.relation) IN
        CASE p.kind = "scalar" -> {row \in rows : Holds(dataset.ledger, row, p.field)}
          [] p.kind = "and" -> {row \in rows : \A child \in Children(p) : row \in matching[child]}
          [] p.kind = "or" -> {row \in rows : \E child \in Children(p) : row \in matching[child]}
          [] p.kind = "not" -> rows \ matching[p.child]
          [] p.kind = "relation" ->
               LET met == matching[p.predicate] IN
               {row \in rows : LET related == Related(dataset, p.relation, row, p.edge) IN
                               Quantified(p.quantifier, related \cap met, related)}
  IN  matching

Included(dataset, row, include) ==
  Related(dataset, include.from, row, include.edge) \cap Matching(dataset)[include.predicate]

\* A row with the rows it includes, one set per include.
Shape(dataset) ==
  LET shape[includes \in IncludeLists] ==
        [row \in Contracts \cup Types |->
           <<row, [k \in DOMAIN includes |->
                     {shape[includes[k].includes][r] : r \in Included(dataset, row, includes[k])}]>>]
  IN  shape

Filtered(dataset, q) == dataset[q.relation] \cap Matching(dataset)[q.predicate]

Evaluate(dataset, q) == {Shape(dataset)[q.includes][row] : row \in Filtered(dataset, q)}

-----------------------------------------------------------------------------
(***************************************************************************)
(* One action per outcome of readDatasetAsync.                             *)
(***************************************************************************)

Pending == "pending"

Answers(rows) == [rows |-> rows]
Fails(error) == [error |-> error]

Ledgers ==
  [typeOf : [Contracts -> Types], active : SUBSET Contracts,
   tinted : SUBSET Contracts, exercised : SUBSET Contracts]

PlannerInit ==
  /\ ledger \in Ledgers
  /\ warm \in BOOLEAN
  /\ walkHistory \in BOOLEAN
  /\ query = NoQuery
  /\ answer = Pending

Settings == <<ledger, warm, walkHistory>>

\* Slip: a closure beyond the contracts themselves is not served.
ServedFromCacheAlone(q) == warm /\ IsActiveOnly(q) /\ ~RequiresHistory(q) /\ RelationClosure(q) = {"contracts"}

ServedFromCache(q) ==
  /\ warm
  /\ IsActiveOnly(q)
  /\ ~RequiresHistory(q)
  /\ RelationClosure(q) \cap {"exercises", "exerciseTypes", "packages"} = {}

Start(q) == query' = q /\ UNCHANGED Settings

\* The bucket of a row follows createdTransaction, which throws when incomplete.
ServeCached(q) ==
  /\ Start(q)
  /\ ServedFromCache(q)
  /\ answer' = IF q.bucketed /\ Filtered(CachedContracts(ledger), q) # {}
                 THEN Fails("IncompleteQueryEdge")
                 ELSE Answers(Evaluate(CachedContracts(ledger), q))

RefuseReplay(q) ==
  /\ Start(q)
  /\ RequiresHistory(q)
  /\ ~walkHistory
  /\ answer' = Fails("HistoryWalkRequired")

Replay(q) ==
  /\ Start(q)
  /\ RequiresHistory(q)
  /\ walkHistory
  /\ answer' = Answers(Evaluate(Replayed(ledger, q), q))

ServeCatalog(q) ==
  /\ Start(q)
  /\ ~RequiresHistory(q)
  /\ q.relation \in CatalogRelations
  /\ answer' = IF "contracts" \notin RelationClosure(q) THEN Answers(Evaluate(Catalog(ledger, {}), q))
               ELSE IF warm THEN Answers(Evaluate(Catalog(ledger, ledger.active), q))
               ELSE Fails("ContractCacheRequired")

RequireCache(q) ==
  /\ Start(q)
  /\ ~RequiresHistory(q)
  /\ q.relation = "contracts"
  /\ ~ServedFromCache(q)
  /\ answer' = Fails("ContractCacheRequired")

Return ==
  /\ query # NoQuery
  /\ query' = NoQuery
  /\ answer' = Pending
  /\ UNCHANGED Settings

PlannerNext ==
  \/ /\ query = NoQuery
     /\ \E q \in Queries : ServeCached(q) \/ RefuseReplay(q) \/ Replay(q) \/ ServeCatalog(q) \/ RequireCache(q)
  \/ Return

PlannerSpec == PlannerInit /\ [][PlannerNext]_plannerVars

-----------------------------------------------------------------------------

\* Everything the history and the packages hold.
Everything(l) == Dataset(l, Contracts, Types, l.exercised)

Answered == query # NoQuery /\ "rows" \in DOMAIN answer

(* A query that gets an answer gets the one a replay of the whole history  *)
(* would give: deciding from the query's shape that the active contracts   *)
(* suffice never changes what the application sees (comment of             *)
(* predicateRequiresHistory: "the active contract set alone already        *)
(* answers completely").                                                   *)
PlanSound == Answered => answer.rows = Evaluate(Everything(ledger), query)

(* With a warm cache and history allowed, every query is answered, except  *)
(* the time buckets of active contracts, whose transactions the snapshot   *)
(* does not have: no query falls between the three sources.                *)
AnsweredWhenEnabled ==
  query # NoQuery /\ warm /\ walkHistory /\ ~query.bucketed => Answered

(* The plan does not look beyond a step to active contracts.  It need not  *)
(* where nothing beyond it asks for the history.                           *)
StepsStayFlat ==
  /\ \A p \in Predicates :
       p.kind = "relation" /\ p.predicate.relation = "contracts" /\ ActiveStep(p) =>
         ~PredicateRequiresHistory[p.predicate]
  /\ \A includes \in IncludeLists : \A include \in Elements(includes) :
       include.relation = "contracts" /\ ProvesActive[include.predicate] =>
         ~PredicateRequiresHistory[include.predicate] /\ ~IncludesRequireHistory[include.includes]
=============================================================================
