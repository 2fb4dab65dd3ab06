-------------------------- MODULE DocumentMatcher --------------------------
(***************************************************************************)
(* The documents that a search is restricted to, by their metadata.  The   *)
(* value of a field is a set: a string or a date is a set of one, an array *)
(* has several values, and the field of a document may be missing ({}).    *)
(***************************************************************************)
EXTENDS Naturals, FiniteSets, Sequences

CONSTANTS Docs, Fields

None == 0                \* a bound of an interval that is left out
Everything == Docs       \* the marker for no restriction

(* Criteria of one field: nothing, one of some values (a single value is a  *)
(* set of one), or an interval.                                             *)
Unset == [kind |-> "unset"]
OneOf(values) == [kind |-> "values", values |-> values]
Between(start, end) == [kind |-> "interval", start |-> start, end |-> end]

(* No clause is made for a field that is not set or an interval without     *)
(* bounds.                                                                  *)
HasClause(c) ==
  \/ c.kind = "values"
  \/ c.kind = "interval" /\ (c.start # None \/ c.end # None)

(* A comparison with a missing value is not true. *)
Satisfies(value, c) ==
  IF c.kind = "values" THEN value \intersect c.values # {}
  ELSE \E v \in value : (c.start # None => c.start <= v) /\ (c.end # None => v <= c.end)

(* Mutant of FilterHolds: one criterion is enough. *)
FilterHoldsAny(meta, filter, d) ==
  \E f \in Fields : HasClause(filter[f]) /\ Satisfies(meta[d][f], filter[f])

(* All clauses of a filter hold. *)
FilterHolds(meta, filter, d) ==
  \A f \in Fields : HasClause(filter[f]) => Satisfies(meta[d][f], filter[f])

(* Filters without a clause drop out of the query. *)
Effective(filters) == {filter \in filters : \E f \in Fields : HasClause(filter[f])}

Matching(meta, docs, filters) ==
  {d \in docs : Effective(filters) # {} => \E filter \in Effective(filters) : FilterHolds(meta, filter, d)}

(* d comes before e in the order of the fields, taken one after another. *)
Precedes(meta, sortBy, order, d, e) ==
  \E n \in 1..Len(sortBy) :
    /\ \A m \in 1..(n-1) : meta[d][sortBy[m]] = meta[e][sortBy[m]]
    /\ \E v \in meta[d][sortBy[n]], w \in meta[e][sortBy[n]] : IF order = "asc" THEN v < w ELSE v > w

(* The first of the documents that have all of the fields; the database     *)
(* chooses among equal ones.                                                *)
Top(meta, docs, top) ==
  LET sorted == {d \in docs : \A n \in 1..Len(top.sortBy) : meta[d][top.sortBy[n]] # {}} IN
  {picked \in SUBSET sorted :
     /\ Cardinality(picked) = IF Cardinality(sorted) < top.limit THEN Cardinality(sorted) ELSE top.limit
     /\ \A d \in picked, e \in sorted \ picked : ~Precedes(meta, top.sortBy, top.order, e, d)}

(* get_documents_subset: what it may return of the documents of a registry. *)
Subsets(meta, docs, filters, tops) ==
  IF tops = {}
  THEN {IF Effective(filters) = {} THEN Everything ELSE Matching(meta, docs, filters)}
  ELSE UNION {Top(meta, Matching(meta, docs, filters), top) : top \in tops}

----------------------------------------------------------------------------
(* What was asked for: a document matches any of the filters, if there are  *)
(* some, and all of the criteria of that filter.                            *)
Asked(meta, filters) ==
  {d \in Docs : filters = {} \/ \E filter \in filters : \A f \in Fields :
                   HasClause(filter[f]) => Satisfies(meta[d][f], filter[f])}
============================================================================
