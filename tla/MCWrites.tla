------------------------------ MODULE MCWrites ------------------------------
EXTENDS Writes

MCVids == {"a", "b"}
MCPartOf == [v \in MCVids |-> IF v = "a" THEN 1 ELSE 2]
MCTags == [t |-> {"p"}, u |-> {"q", "r"}]
MCEdges == [e |-> {"w"}, f |-> {}]
MCTypes == [e |-> 1, f |-> 2]

Tag(n, ps) == [tag |-> n, props |-> ps]
Row(id, vs) == [id |-> id, values |-> vs]
InsertV(tags, rows, o) == [op |-> "INSERT VERTEX", tags |-> tags, rows |-> rows, overwritable |-> o]

Edge(s, d, rank, vs) == [src |-> s, dst |-> d, rank |-> rank, values |-> vs]
InsertE(e, ps, rows, o) ==
    [op |-> "INSERT EDGE", edge |-> e, props |-> ps, rows |-> rows, overwritable |-> o]

Set(sym, field, value) == [sym |-> sym, field |-> field, value |-> value]
Const(n) == [k |-> "constant", n |-> n]
Plus(p, n) == [k |-> "plus", prop |-> p, n |-> n]
Wrong == [k |-> "wrong"]
Always == [k |-> "none"]
When(p, n) == [k |-> "equal", prop |-> p, n |-> n]

UpdateV(id, name, items, when, yield, ins) ==
    [op |-> "UPDATE VERTEX", id |-> id, name |-> name, items |-> items, when |-> when,
     yield |-> yield, insertable |-> ins]
UpdateE(s, d, rank, name, items, when, yield, ins) ==
    [op |-> "UPDATE EDGE", src |-> s, dst |-> d, rank |-> rank, name |-> name, items |-> items,
     when |-> when, yield |-> yield, insertable |-> ins]

DeleteV(ref, vids, type) == [op |-> "DELETE VERTEX", isRef |-> ref, vids |-> vids, type |-> type]
Key(s, d, rank) == [src |-> s, dst |-> d, rank |-> rank]
DeleteE(e, ref, keys) == [op |-> "DELETE EDGE", edge |-> e, isRef |-> ref, keys |-> keys]

\* Statements that are executed.
Valid ==
    {InsertV(<<Tag("t", <<"p">>), Tag("u", <<"r", "q">>)>>, <<Row("a", <<1, 2, Null>>)>>, TRUE),
     InsertV(<<Tag("t", <<>>)>>, <<Row("a", <<>>), Row("b", <<>>)>>, FALSE),
     InsertE("e", <<"w">>, <<Edge("a", "b", 0, <<1>>)>>, TRUE),
     InsertE("e", <<"w">>, <<Edge("a", "b", 0, <<2>>), Edge("b", "b", 1, <<1>>)>>, FALSE),
     InsertE("f", <<>>, <<Edge("b", "a", 0, <<>>)>>, TRUE),
     UpdateV("a", "t", <<Set(NoName, "p", Plus("p", 1))>>, Always, <<"p">>, FALSE),
     UpdateV("b", NoName, <<Set("u", "q", Const(2)), Set("u", "r", Plus("q", 1))>>, When("q", 0), <<>>, TRUE),
     UpdateE("a", "b", 0, "e", <<Set(NoName, "w", Plus("w", 1))>>, When("w", 1), <<"w">>, FALSE),
     UpdateE("a", "b", 0, "e", <<Set("e", "w", Const(2))>>, Always, <<>>, TRUE),
     UpdateE("a", "b", 0, "e", <<Set("e", "w", Const(2))>>, Always, <<"unknown">>, FALSE),
     DeleteV(FALSE, <<"a">>, "STRING"),
     DeleteV(TRUE, <<"b", Null, "b">>, "STRING"),
     DeleteV(TRUE, <<"a", WrongVid>>, "STRING"),
     DeleteE("e", FALSE, <<Key("a", "b", 0)>>),
     DeleteE("e", TRUE, <<Key(Null, "b", 0), Key("b", "b", 1)>>),
     DeleteE("e", TRUE, <<Key("a", "b", 0), Key("a", "b", Null)>>)}

\* Statements that are rejected.
Invalid ==
    {InsertV(<<Tag("t", <<"p">>)>>, <<Row("a", <<1, 1>>)>>, TRUE),
     InsertE("e", <<"w">>, <<Edge("a", WrongVid, 0, <<1>>)>>, TRUE),
     UpdateV("a", "t", <<Set(NoName, "p", Const(1)), Set("u", "q", Const(1))>>, Always, <<>>, FALSE),
     UpdateE("a", "b", 0, "e", <<Set(NoName, "w", Wrong)>>, Always, <<>>, FALSE),
     DeleteV(TRUE, <<"a">>, "INT")}

\* No data, and data under every key that the statements name.
EKey(s, t, rank, d) == [src |-> s, type |-> t, rank |-> rank, dst |-> d]
MCGraphs ==
    {NoData,
     [vertices |-> [id |-> "a", name |-> "t"] :> [p |-> 1] @@ [id |-> "b", name |-> "u"] :> [q |-> 0, r |-> 0],
      edges |-> EKey("a", 1, 0, "b") :> [w |-> 1] @@ EKey("b", 1, 1, "b") :> [w |-> 0]
                  @@ EKey("b", 2, 0, "a") :> <<>>]}

Symmetry == Permutations(Requests)

MCSentences == Valid \cup Invalid
=============================================================================
