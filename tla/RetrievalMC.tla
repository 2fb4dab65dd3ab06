---------------------------- MODULE RetrievalMC ----------------------------
(* Two documents: d1 has a page with two texts, its image and a figure, d2  *)
(* two pages with a text and their image and one that is an image only.     *)
EXTENDS Retrieval

CONSTANTS d1, d2, d3, year, tag  \* there is no d3

Chunk(d, t, p, n) == [doc |-> d, type |-> t, page |-> p, id |-> n]
A1 == Chunk(d1, "text", 1, 1)
A2 == Chunk(d1, "text", 1, 2)
AP == Chunk(d1, "page", 1, 1)
AF == Chunk(d1, "figure", 1, 2)
B1 == Chunk(d2, "text", 1, 1)
B2 == Chunk(d2, "text", 2, 2)
BP == Chunk(d2, "page", 1, 1)
BQ == Chunk(d2, "page", 2, 2)
BR == Chunk(d2, "page", 3, 3)

AllChunks == {A1, A2, AP, AF, B1, B2, BP, BQ, BR}

Store(docs, imaged, first, second) ==
  [present |-> docs, chunks |-> {c \in AllChunks : c.doc \in docs},
   files |-> {c \in AllChunks : c.type # "text" /\ c.doc \in imaged}, indexed |-> <<first, second>>]

(* All is there; a deletion of d1 was rolled back after its files and the   *)
(* records of one index were gone; an index has records of d2, which was    *)
(* deleted while it was being indexed.                                      *)
Lefts == {Store({d1, d2}, {d1, d2}, {d1, d2}, {d1, d2}), Store({d1, d2}, {d2}, {d2}, {d1, d2}),
          Store({d1}, {d1}, {d1}, {d1, d2})}

(* A query of 4 rows and one of 2 rows, as for limits doubled and not. *)
Pages == <<4, 2>>

Texts == {<<>>, <<A1, B1>>, <<B1, A2, A1>>, <<A1, A1, A1, A1, B1>>, <<A2, A1, A2, B1>>}
Mixed == {<<BR>>, <<BQ, A1>>, <<AP, B1>>, <<BP, BP, AP>>, <<B1, A1>>, <<B1, B1, A1, BP>>,
          <<AF, AP>>, <<AF, BQ>>}
Docs1 == {<<>>, <<DocOf(d1), DocOf(d2)>>, <<DocOf(d2), DocOf(d2), DocOf(d1)>>}

Orders == [k \in Kinds |-> IF k = "chunks" THEN {<<t, m>> : t \in Texts, m \in Mixed}
                         ELSE {<<s, t>> : s \in Docs1, t \in Docs1}]

Filter(c, e) == [f \in Fields |-> IF f = year THEN c ELSE e]
Filters == {Filter(Unset, Unset), Filter(Between(2, None), Unset), Filter(Unset, OneOf({1})),
            Filter(Between(1, 1), OneOf({1, 2}))}
Tops == {[sortBy |-> <<year, tag>>, order |-> o, limit |-> 1] : o \in {"asc", "desc"}}

Configs == [filters : {fs \in SUBSET Filters : Cardinality(fs) <= 2},
            tops : {{}} \union {{t} : t \in Tops}, exact : {{}}]
           \union {[filters |-> {}, tops |-> {}, exact |-> {d1, d3}]}

Metas == [Docs -> [Fields -> {{}, {1}, {2}}]]
============================================================================
