---------------------------- MODULE MCQueryPath ----------------------------
\* An instance of QueryPath with two visible rows and tables of up to four.
EXTENDS QueryPath

From_t == <<"SELECT", "*", "FROM", "t">>
Subquery == <<"SELECT", "*", "FROM", "(", "SELECT", "*", "FROM", "t", "LIMIT", "3", ")", "x">>

Heads == {From_t, <<"SELECT", "dup", "FROM", "t">>, Subquery, From_t \o <<"ORDER", "BY", "b">>}
Limits == {<<>>, <<"LIMIT", "2">>, <<"LIMIT", "1", ",", "2">>, <<"LIMIT", "1", "OFFSET", "1">>}
Tails == {<<>>, <<";">>, <<"--">>, <<"/**/", ";", "--">>}

MCHarmless ==
    {h \o l \o e : h \in Heads, l \in Limits, e \in Tails} \cup
    {<<"SHOW", "TABLES">>, <<"EXPLAIN", "SELECT", "*", "FROM", "t">>,
     <<"EXPLAIN", "FORMAT", "=", "JSON", "SELECT", "*", "FROM", "t", ";">>}

MCStatements == MCHarmless \cup
    {<<>>, <<"--">>, <<";">>, <<"UPDATE", "t">>, <<"EXPLAIN", "UPDATE", "t">>,
     From_t \o <<")">>, From_t \o <<"/*!">>, From_t \o <<"INTO", "x">>,
     From_t \o <<";", "UPDATE", "t">>, From_t \o <<";", ";">>, From_t \o <<"FOR", "UPDATE">>,
     From_t \o <<"LIMIT", "3">>, From_t \o <<"LIMIT", "x">>, From_t \o <<"LIMIT", "1", "LIMIT", "1">>,
     From_t \o <<"LIMIT", "1", "2", "3">>,
     <<"SELECT", "SLEEP", "(", "1", ")">>}

Grid == {<<"basetbl">>, <<"AS", "basetbl">>, <<"x">>}
MCPages ==
    {From_t \o g \o o \o <<"LIMIT", n, "OFFSET", m>> :
        g \in Grid, o \in {<<>>, <<"ORDER", "BY", "a">>}, n \in {"2", "4"}, m \in {"0", "2"}}
    \cup {From_t \o <<"basetbl">>, <<"SELECT", "*", "FROM", "x", ".", "t", "basetbl", "LIMIT", "2">>, <<"SELECT", "DISTINCT", "*", "FROM", "t", "basetbl", "LIMIT", "2">>,
          <<"SHOW", "TABLES">>, From_t \o <<"LIMIT", "x">>}

Column(c, kind, ordinal, key) ==
    [object |-> "t", kind |-> kind, column |-> c, ordinal |-> ordinal, key |-> key]

MCCatalogs ==
    {<<>>,
     <<Column("b", "TABLE", 2, 1), Column("a", "TABLE", 1, 2)>>,
     <<Column("a", "TABLE", 1, 1), Column("b", "TABLE", 2, 0)>>,
     <<Column("a", "TABLE", 1, 0), Column("b", "TABLE", 2, 0)>>,
     <<Column("a", "VIEW", 1, 0), Column("b", "VIEW", 2, 0)>>,
     <<Column("none", "TABLE", 0, 0)>>}

\* By b the rows come in pairs, the second pair first.
Row(i) == [a |-> i, b |-> IF i <= 2 THEN 2 ELSE 1]
MCTables ==
    {[i \in 1..n |-> Row(i)] : n \in {0, 2, 3, 4}} \cup {[i \in 1..n |-> Row(n + 1 - i)] : n \in {2, 4}}
=============================================================================
