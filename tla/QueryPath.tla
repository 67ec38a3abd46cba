----------------------------- MODULE QueryPath -----------------------------
(***************************************************************************)
(* One query from end to end: executeManual or executeTableData of         *)
(* src/backend/query-executor.js, the policy, MySQL, the bytes that come   *)
(* back through a marker parser and, for a session, through a packet of    *)
(* the broker, and the rows that are shown.                                *)
(*                                                                         *)
(* MySQL and mysql --xml are the environment of this module: of SQL only   *)
(* what the policy touches is given a meaning.                             *)
(***************************************************************************)
EXTENDS SqlPolicy, Framing, ResultRows

CONSTANTS
    Statements,   \* what the user may type into the editor
    Harmless,     \* those of them that read, and ask for no more than is shown
    Pages,        \* what DbGate's grid may ask for
    Catalogs,     \* what the schema query may have answered
    Tables,       \* the rows of t, in the order they are stored
    MaxChunk      \* bound: the size of a chunk

VARIABLES
    phase,        \* "new", "sent", "reading", "replied", "done"
    text,         \* the statement of the user or of the grid
    manual,       \* it came from the editor
    ranged,       \* options.range was given: a page of the grid, no export
    catalog,      \* the rows behind the snapshot, <<>> when there is none
    stored,       \* the table
    session,      \* by the broker, not by a runner of its own
    prepared,     \* the statement that is sent and its row limit
    status,       \* what MySQL said: "none", "OK", "sql_error"
    body,         \* history: what mysql wrote
    wire,         \* what has not arrived yet
    parser,       \* of the marker parser
    packet,       \* of readPacket
    outcome,      \* "none", "shown" when the call returns, or a category
    shown         \* the parsed result

query == <<text, manual, ranged, catalog, stored, session>>
vars == <<phase, query, prepared, status, body, wire, parser, packet, outcome, shown>>

(***************************************************************************)
(* MySQL.                                                                  *)
(***************************************************************************)
ExecutedAt(sql) ==
    {i \in DOMAIN sql : sql[i] # "/**/" /\ \A j \in 1..i : sql[j] # "--"}
Executed(sql) == At(sql, ExecutedAt(sql))

\* Without its parentheses, and the semicolon that ends it.
OuterAt(sql) ==
    {i \in ExecutedAt(sql) :
        /\ sql[i] \notin {"(", ")"}
        /\ sql[i] = ";" => \E j \in ExecutedAt(sql) : j > i}
Outer(sql) == At(sql, OuterAt(sql))

FirstOf(rows, n) == SubSeq(rows, 1, IF n < Len(rows) THEN n ELSE Len(rows))

\* The rows a LIMIT clause at place i leaves.
Limited(rows, words, i) ==
    LET first == Number(words[i + 1])
        pair == Len(words) > i + 2 /\ words[i + 2] \in {",", "OFFSET"}
        second == IF pair THEN Number(words[i + 3]) ELSE 0
        count == IF pair /\ words[i + 2] = "," THEN second ELSE first
        offset == IF pair /\ words[i + 2] = "," THEN first ELSE second
    IN  SubSeq(rows, offset + 1, Len(FirstOf(rows, offset + count)))

\* The row that comes k-th; rows that are equal stay as they are stored.
Ranked(rows, column, second, k) ==
    LET Before(i, j) ==
            \/ rows[i][column] < rows[j][column]
            \/ /\ rows[i][column] = rows[j][column]
               /\ \/ \E c \in second : rows[i][c] < rows[j][c]
                  \/ i < j /\ \A c \in second : rows[i][c] = rows[j][c]
    IN  CHOOSE i \in DOMAIN rows : Cardinality({j \in DOMAIN rows : Before(j, i)}) = k - 1

Sorted(rows, column, second) ==
    [k \in DOMAIN rows |-> rows[Ranked(rows, column, second, k)]]

\* By the one or two columns of an ORDER BY at place i.
Ordered(rows, words, i) ==
    Sorted(rows, words[i + 2],
           IF i + 4 \in DOMAIN words /\ words[i + 3] = "," THEN {words[i + 4]} ELSE {})

\* A subquery is the whole of FROM, its only clause is a LIMIT, its alias x.
AfterAlias(sql, i) ==
    Contains(sql, "(") /\ (\E j \in OuterAt(sql) : sql[j] = "x") =>
        \E j \in OuterAt(sql) : j < i /\ sql[j] = "x"
Inner(sql) == At(sql, {i \in OuterAt(sql) : ~AfterAlias(sql, i)})
Clauses(sql) == At(sql, {i \in OuterAt(sql) : AfterAlias(sql, i)})

Place(words, word) == SelectInSeq(words, LAMBDA w : w = word)

\* MySQL takes one LIMIT, after the ORDER.
SyntaxError(sql) ==
    LET words == Clauses(sql)
        limits == {i \in DOMAIN words : words[i] = "LIMIT"}
    IN  \/ Cardinality(limits) > 1
        \/ \E i \in limits : i < Place(words, "ORDER")

Apply(rows, words) ==
    LET order == Place(words, "ORDER")
        limit == Place(words, "LIMIT")
        sorted == IF order = 0 THEN rows ELSE Ordered(rows, words, order)
    IN  IF limit = 0 THEN sorted ELSE Limited(sorted, words, limit)

Evaluate(sql, rows) ==
    CASE Outer(sql)[1] \in {"SHOW", "DESC", "DESCRIBE"} -> rows
      [] Outer(sql)[1] = "EXPLAIN" -> FirstOf(rows, 1)
      [] OTHER -> Apply(Apply(rows, Inner(sql)), Clauses(sql))

\* Of the statements the lexer gives: a "--" reaches to the end, and what MySQL
\* is given a meaning for: only a subquery has a clause between parentheses.
WellFormed(sql) ==
    /\ sql \in Seq(STRING)
    /\ \A i \in DOMAIN sql : sql[i] = "--" => i = Len(sql)
    /\ \A i \in OuterAt(sql) : sql[i] \in {"LIMIT", "ORDER"} =>
           (Depth(sql, i) = 0 <=> AfterAlias(sql, i))
    /\ \A k \in DOMAIN Inner(sql) : Inner(sql)[k] = "LIMIT" =>
           k + 2 = Len(Inner(sql)) /\ Inner(sql)[k + 1] \in Numerals
    /\ \A k \in DOMAIN Clauses(sql) : Clauses(sql)[k] = "ORDER" =>
           k + 2 <= Len(Clauses(sql)) /\ Last(Clauses(sql)) # ","

\* escapeIdentifier quotes a column: it is none of the words above.
Symbols == {"(", ")", ";", ",", "--", "/**/", "x", "LIMIT", "OFFSET", "ORDER"}

ASSUME StatementsAssumption == \A sql \in Statements \cup Pages : WellFormed(sql)
ASSUME TablesAssumption == \A rows \in Tables : rows \in Seq(ToSet(rows))
ASSUME CatalogsAssumption ==
    \A catalogue \in Catalogs : \A t \in DOMAIN MapMetadata(catalogue) :
        MapMetadata(catalogue)[t] \in Seq(STRING \ Symbols)

ColumnNames(sql) == IF Contains(sql, "dup") THEN <<"a", "a__2", "a", "a">> ELSE <<"a">>

\* The second row holds the beginning of a marker.
Text(row) == IF row.a = 2 THEN <<"_", "E">> ELSE <<ToString(row.a)>>

RowXml(row, names) ==
    <<"<row>">>
    \o FlattenSeq([i \in DOMAIN names |-> <<FieldTag(names[i])>> \o Text(row) \o <<"</field>">>])
    \o <<"</row>">>

\* mysql escapes what it writes: a text is no tag.
ASSUME TextsAssumption ==
    \A sql \in {s \in Statements : PrepareManual(s) # Refused /\ ~SyntaxError(s)}, rows \in Tables :
        ({"\n"} \cup UNION {ToSet(Text(row)) : row \in ToSet(Evaluate(sql, rows))})
            \cap (Tags \cup {FieldTag(n) : n \in Names}) = {}

\* The parser knows the names of the columns, and different suffixes differ.
ASSUME ColumnsAssumption ==
    \A sql \in Statements \cup Pages :
        /\ ColumnNames(sql) \in Seq(Names)
        /\ \A base \in Names, j, k \in 2..(Len(ColumnNames(sql)) + 1) :
               Suffixed(base, j) = Suffixed(base, k) => j = k

Xml(rows, names) ==
    <<"<resultset>">> \o FlattenSeq([i \in DOMAIN rows |-> RowXml(rows[i], names)])
    \o <<"</resultset>", "\n">>

(***************************************************************************)
(* The query.                                                              *)
(***************************************************************************)
Init ==
    /\ phase = "new" /\ outcome = "none" /\ status = "none"
    /\ stored \in Tables /\ session \in BOOLEAN
    /\ \/ manual = TRUE /\ text \in Statements /\ catalog = <<>> /\ ranged = FALSE
       \/ manual = FALSE /\ text \in Pages /\ catalog \in Catalogs /\ ranged \in BOOLEAN
    /\ prepared = Refused /\ body = <<>> /\ wire = <<>>
    /\ parser = NewParser /\ packet = NewPacket /\ shown = NewResult

Ends(category) == phase' = "done" /\ outcome' = category

Prepare ==
    /\ phase = "new"
    /\ prepared' = IF manual THEN PrepareManual(text)
                   ELSE PrepareTableData(text, ranged, MapMetadata(catalog))
    /\ IF prepared' = Refused THEN Ends("sql_rejected") ELSE phase' = "sent" /\ UNCHANGED outcome
    /\ UNCHANGED <<query, status, body, wire, parser, packet, shown>>

Output(xml, category) ==
    /\ status' = category
    /\ body' = xml
    /\ wire' = StartMarker \o xml \o EndMarker \o
               IF session THEN <<"\n">> \o ResultPrefix \o <<category, "\n">> ELSE <<>>

\* Where a document may end early: before or after a row.
Cuts(xml) == {i \in DOMAIN xml : xml[i] \in {"<resultset>", "</row>"}}

\* An answer, or an error, which may come when rows were written already; and
\* the output may be damaged on its way through the terminals.
Execute ==
    /\ phase = "sent"
    /\ phase' = "reading"
    /\ IF SyntaxError(prepared.sql) THEN Output(<<>>, "sql_error")
       ELSE LET xml == Xml(Evaluate(prepared.sql, stored), ColumnNames(text))
            IN  \/ Output(xml, "OK")
                \/ \E i \in Cuts(xml) :
                      \/ Output(SubSeq(xml, 1, i) \o <<"\n">>, "OK")
                      \/ Output(SubSeq(xml, 1, i), "sql_error")
    /\ UNCHANGED <<query, prepared, parser, packet, outcome, shown>>

Chunk(n) == n <= Len(wire) /\ wire' = From(wire, n)

\* A chunk of the adapter's stdout.
Arrives(n) ==
    /\ phase = "reading"
    /\ Chunk(n)
    /\ parser' = IF session THEN ParseSession(parser, SubSeq(wire, 1, n))
                 ELSE ExtractFrame(parser, SubSeq(wire, 1, n))
    /\ UNCHANGED <<phase, query, prepared, status, body, packet, outcome, shown>>

\* The limit ends the session or the adapter at once.
TooLarge ==
    /\ phase = "reading" /\ parser.state = "too_large"
    /\ Ends("result_too_large")
    /\ UNCHANGED <<query, prepared, status, body, wire, parser, packet, shown>>

\* A session answers when its parser is done, by the category it read; the
\* runner when the adapter has exited, by its exit code.
Answer ==
    /\ phase = "reading" /\ parser.state # "too_large"
    /\ IF session THEN parser.state = "done" ELSE wire = <<>>
    /\ LET category == IF session THEN parser.pending[1] ELSE status
       IN  IF category = "OK"
           THEN /\ phase' = "replied"
                /\ wire' = IF session THEN EncodePacket(parser.buffer) ELSE <<>>
                /\ UNCHANGED outcome
           ELSE Ends(category) /\ UNCHANGED wire
    /\ UNCHANGED <<query, prepared, status, body, parser, packet, shown>>

\* A chunk of the broker's socket.
PacketArrives(n) ==
    /\ phase = "replied" /\ session
    /\ Chunk(n)
    /\ packet' = ReadPacket(packet, SubSeq(wire, 1, n))
    /\ UNCHANGED <<phase, query, prepared, status, body, parser, outcome, shown>>

\* What parseMysqlXml is given.
Stdout == IF session THEN PacketBody(packet) ELSE parser.buffer

Parse ==
    /\ phase = "replied"
    /\ session => packet.state = "done"
    /\ shown' = ParseXml(Stdout, prepared.maxVisibleRows)
    /\ IF Parsed(shown') THEN Ends("shown") ELSE Ends("parse")
    /\ UNCHANGED <<query, prepared, status, body, wire, parser, packet>>

\* The end; with it every other state in which nothing can happen is a deadlock.
Ended == phase = "done" /\ UNCHANGED vars

Next ==
    \/ Ended \/ Prepare \/ Execute \/ TooLarge \/ Answer \/ Parse
    \/ \E n \in 1..MaxChunk : Arrives(n) \/ PacketArrives(n)

Spec == Init /\ [][Next]_vars

Joined(row) ==
    LET upTo[i \in 0..Len(Text(row))] == IF i = 0 THEN "" ELSE upTo[i - 1] \o Text(row)[i]
    IN  upTo[Len(Text(row))]
AreShown(rows) ==
    /\ Len(shown.rows) = Len(rows)
    /\ \A i \in DOMAIN rows :
          /\ Cardinality(DOMAIN shown.rows[i]) = Len(ColumnNames(text))
          /\ \A c \in DOMAIN shown.rows[i] : shown.rows[i][c] = Joined(rows[i])

UsersRows == Evaluate(text, stored)

\* A statement of the editor shows its own rows, whatever is appended to it:
\* the first MAX_VISIBLE_ROWS of them, each with every column under a name of
\* its own, and it says so exactly when there are more (README.md:136).  An
\* output that was damaged or ended early shows nothing.
ShownAreTheQuerys ==
    manual /\ outcome = "shown" =>
        /\ AreShown(FirstOf(UsersRows, MAX_VISIBLE_ROWS))
        /\ shown.truncated = (Len(UsersRows) > MAX_VISIBLE_ROWS)

\* No SELECT of the editor makes MySQL send more than the rows that are shown
\* and the one that proves there are more, even if it ends in a comment.
ReadIsBounded ==
    manual /\ prepared # Refused /\ StatementType(text) = "SELECT" =>
        Len(Evaluate(prepared.sql, stored)) <= PROBE_ROW_COUNT

\* What the policy adds to a statement never makes MySQL refuse it.
StaysValid ==
    prepared # Refused /\ ~SyntaxError(text) => ~SyntaxError(prepared.sql)

\* The columns of the primary key by what the catalog says of their places.
TheKey ==
    LET keys == {i \in DOMAIN catalog : catalog[i].kind = "TABLE" /\ catalog[i].key > 0}
    IN  [k \in 1..Cardinality(keys) |->
            (CHOOSE i \in keys : catalog[i].key = k)]

\* A page of the grid is that page of the table in the order of its primary
\* key, however the rows are stored: pages neither overlap nor leave gaps.  (Of
\* a query of its own order, or of DISTINCT rows, no order is promised, and
\* none of a table that is read to its end: driver.js:117-122, 172.)
PageIsKeyOrdered ==
    ranged /\ outcome = "shown" /\ TheKey # <<>> /\ Contains(text, "basetbl")
        /\ Contains(text, "LIMIT") /\ ~Contains(text, "ORDER") /\ ~Contains(text, "DISTINCT") =>
        LET names == [k \in DOMAIN TheKey |-> catalog[TheKey[k]].column]
            byKey == Ordered(stored, OrderBy(names), 1)
        IN  AreShown(Evaluate(text, byKey))

\* However the output is cut into chunks, the parser keeps the body and only
\* the body, or finds it too large exactly when it is, and misses no marker.
ChunkingIrrelevant ==
    /\ parser.state # "too_large" => IsPrefix(parser.buffer, body)
    /\ parser.state = "too_large" => Len(body) > MAX_RESULT_BYTES
    /\ parser.state \in {"result", "done"} => parser.buffer = body
    /\ phase = "reading" /\ wire = <<>> => parser.state \in {"done", "too_large"}

\* The client of the broker reads the body the broker sent, at its last byte.
PacketIntact ==
    phase = "replied" /\ session =>
        /\ packet.state # "failed"
        /\ packet.state = "done" <=> wire = <<>>
        /\ packet.state = "done" => PacketBody(packet) = body

\* One statement is run, and it reads.
OneReadIsRun ==
    prepared # Refused =>
        LET run == Executed(prepared.sql)
        IN  run[1] \in Readable /\ \A i \in DOMAIN run : run[i] = ";" => i = Len(run)

\* A read that asks for no more than is shown is not refused, wherever its
\* parentheses, limits and comments are.
HarmlessRuns == manual /\ text \in Harmless => outcome # "sql_rejected"
=============================================================================
