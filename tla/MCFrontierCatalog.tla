------------------------- MODULE MCFrontierCatalog -------------------------
(* Bounds for FrontierCatalog: three names, two tables, one row.            *)
EXTENDS FrontierCatalog

CONSTANTS bodies, grants, totals, body, grant, alice
MCNames == {bodies, grants, totals}
MCTables == {body, grant}
MCVals == {alice}

Base(tables) == [op |-> "union", views |-> {}, tables |-> tables]
Over(views, tables) == [op |-> "join", views |-> views, tables |-> tables]

\* A union of both tables, one table, the view joined with a table the producer
\* may read too, the view alone, and a view with another's.
MCQueries ==
    {Base({body}), Base(MCTables), Over({bodies}, {grant}), Over({bodies}, {}),
     Over({bodies, totals}, {})}
=============================================================================
