---------------------------- MODULE MCValidation ----------------------------
(***************************************************************************)
(* A dimension, whose keys a UDF makes (p1 and p3 get the same), and a     *)
(* fact that refers to it.  With good files the dimension holds anything   *)
(* of up to two rows; each kind of bad file, and each kind of table that   *)
(* is not as declared, comes with a good load.                             *)
(***************************************************************************)
EXTENDS ValidationProperties

MCKeyUdf == [p \in Pk |-> IF p = "p2" THEN "b2" ELSE "b1"]
MCUdf    == [a \in Arg |-> IF a = "a" THEN "x" ELSE "y"]

MCTables     == <<"dim", "fact">>
MCReferences == {<<"fact", "dim">>}

From(p) == [pk |-> p, arg |-> IF p = "p1" THEN "a" ELSE "b"]
Row(key, value, ref) == [key |-> key, value |-> value, ref |-> ref]

Holds(source, staged_rows, target) ==
  [missing |-> {}, differs |-> {}, source |-> source, staged |-> staged_rows, target |-> target]

UpTo(n, S) == UNION {[1..m -> S] : m \in 0..n}

Dims == {Holds({From(p) : p \in pks}, n, target) :
           pks \in {{"p1", "p2"}, {"p1", "p3"}}, n \in {1, 2},
           target \in UpTo(2, {Row(key, value, Null) : key \in {"b1", "b2", Null}, value \in Value})}

Facts == {Holds({From("p1")}, 1, <<Row("p1", "x", ref)>>) : ref \in {"b1", "b2", Null}}
         \cup {Holds({From("p1")}, 0, <<>>)}

GoodDim  == Holds({From("p1"), From("p2")}, 2, <<Row("b1", "x", Null), Row("b2", "y", Null)>>)
GoodFact == Holds({From("p1")}, 1, <<Row("p1", "x", "b1")>>)

World(dim, fact) == [t \in Table |-> IF t = "dim" THEN dim ELSE fact]
Good == World(GoodDim, GoodFact)

Spoilt == {World([GoodDim EXCEPT !.missing = m, !.differs = d], GoodFact) :
             m \in {{}, {"source"}, {"staging"}, {"target"}}, d \in {{}, {"target"}}}

MCLoads == {Good, World(Holds(GoodDim.source, 0, <<>>), Holds(GoodFact.source, 0, <<>>))}

GoodFiles == [manifest |-> TRUE, bad |-> {}, doubtful |-> {}, broken |-> FALSE,
              schemas |-> Side, filters |-> {},
              join |-> [t \in Table |-> IF t = "dim" THEN "udf" ELSE "direct"]]

OtherFiles == {[GoodFiles EXCEPT !.manifest = FALSE], [GoodFiles EXCEPT !.doubtful = {"drift"}],
               [GoodFiles EXCEPT !.doubtful = {"buildspec schema"}],
               [GoodFiles EXCEPT !.broken = TRUE], [GoodFiles EXCEPT !.schemas = {"target"}],
               [GoodFiles EXCEPT !.filters = {"dim"}],
               [GoodFiles EXCEPT !.join["dim"] = "none"]}
              \cup {[GoodFiles EXCEPT !.bad = {part}] : part \in Part \ {"drift"}}

MCWorlds == {[files |-> GoodFiles, db |-> World(dim, fact)] : dim \in Dims, fact \in Facts}
            \cup {[files |-> GoodFiles, db |-> w] : w \in Spoilt}
            \cup {[files |-> f, db |-> Good] : f \in OtherFiles}
=============================================================================
