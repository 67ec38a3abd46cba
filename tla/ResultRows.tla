----------------------------- MODULE ResultRows -----------------------------
(***************************************************************************)
(* From XML to the rows DbGate shows (src/backend/xml-result-parser.js),   *)
(* and from the rows of the schema query to a snapshot (mapMetadataRows of *)
(* src/backend/metadata-snapshot.js).                                      *)
(*                                                                         *)
(* A document is a sequence of symbols: tags, where an opening tag of a    *)
(* field holds its name, and pieces of text.                               *)
(***************************************************************************)
EXTENDS Naturals, Sequences, FiniteSets, SequencesExt, TLC

CONSTANTS Names   \* the column names of the results

FieldTag(name) == "<field name=" \o name \o ">"

Tags == {"<resultset>", "<row>", "</field>", "</row>", "</resultset>"}

\* A tag has one name, and no other tag of a field.
ASSUME NamesAssumption ==
    /\ "" \notin Names
    /\ \A m, n \in Names : FieldTag(m) = FieldTag(n) => m = n
    /\ \A n \in Names : FieldTag(n) \notin Tags

Suffixed(base, k) == base \o "__" \o ToString(k)

\* The first suffix from 2 on that gives a name nobody has.
Suffix(used, base) ==
    CHOOSE k \in 2..(Len(used) + 2) :
        /\ ~Contains(used, Suffixed(base, k))
        /\ \A j \in 2..(k - 1) : Contains(used, Suffixed(base, j))

\* makeUniqueColumnNames
UniqueNames(raw) ==
    LET Unique(used, base) ==
            IF Contains(used, base) THEN Suffixed(base, Suffix(used, base)) ELSE base
        upTo[i \in 0..Len(raw)] ==
            IF i = 0 THEN <<>> ELSE Append(upTo[i - 1], Unique(upTo[i - 1], raw[i]))
    IN  upTo[Len(raw)]

\* state is where the parser is: before, in, or after the result set, in a row,
\* in a field, or failed.
NewResult == [state |-> "before", names |-> <<>>, texts |-> <<>>,
              raw |-> <<>>, columns |-> <<>>, rows |-> <<>>, truncated |-> FALSE]

Room(result, maxRows) == Len(result.rows) < maxRows

\* A row is an object: of two fields with one name the last one stays.
RowObject(columns, texts) ==
    [c \in ToSet(columns) |-> texts[SelectLastInSeq(columns, LAMBDA d : d = c)]]

\* emitColumns for the first row, and emitRow.
EmitRow(result, maxRows) ==
    LET known == IF result.columns # <<>> THEN result
                 ELSE [result EXCEPT !.raw = result.names, !.columns = UniqueNames(result.names)]
        next == [known EXCEPT !.state = "in", !.names = <<>>, !.texts = <<>>]
    IN  IF known.raw # result.names THEN [result EXCEPT !.state = "failed"]
        ELSE IF Room(known, maxRows)
        THEN [next EXCEPT !.rows = Append(@, RowObject(known.columns, result.texts))]
        ELSE [next EXCEPT !.truncated = TRUE]

\* handleOpenTag, handleText and handleCloseTag.
Symbol(result, symbol, maxRows) ==
    LET goto(from, to) == [result EXCEPT !.state = IF @ = from THEN to ELSE "failed"]
        opened == {n \in Names : symbol = FieldTag(n)}
    IN  IF result.state = "failed" THEN result
        ELSE CASE symbol = "<resultset>" -> goto("before", "in")
               [] symbol = "<row>"        -> goto("in", "row")
               [] opened # {} /\ result.state = "row" ->
                      [result EXCEPT !.state = "field", !.texts = Append(@, ""),
                                     !.names = Append(@, CHOOSE n \in opened : TRUE)]
               [] opened # {} /\ result.state # "row" -> [result EXCEPT !.state = "failed"]
               [] symbol = "</field>"     -> goto("field", "row")
               [] symbol = "</row>" /\ result.state = "row" -> EmitRow(result, maxRows)
               [] symbol = "</row>" /\ result.state # "row" -> [result EXCEPT !.state = "failed"]
               [] symbol = "</resultset>" -> goto("in", "after")
               [] OTHER -> IF result.state # "field" THEN result
                           ELSE [result EXCEPT !.texts[Len(result.texts)] = @ \o symbol]

\* parseMysqlXml: every symbol, and what finish asks for.
ParseXml(document, maxRows) ==
    LET after[i \in 0..Len(document)] ==
            IF i = 0 THEN NewResult ELSE Symbol(after[i - 1], document[i], maxRows)
    IN  after[Len(document)]

Parsed(result) == result.state = "after"

(***************************************************************************)
(* mapMetadataRows.  A row of the schema query has the name and kind of an *)
(* object, and a column with its two ordinals; 0 stands for NULL.          *)
(***************************************************************************)
\* Mutant: the key's columns come in the order of the table's.
KeyOrderAsColumns(left, right) == left.ordinal < right.ordinal

KeyOrder(left, right) == left.key < right.key

ColumnsOf(rows, object) ==
    SortSeq(SelectSeq(rows, LAMBDA r : r.object = object /\ r.column # "none"),
            LAMBDA left, right : left.ordinal < right.ordinal)

PrimaryColumns(rows, object) ==
    SortSeq(SelectSeq(ColumnsOf(rows, object), LAMBDA r : r.key # 0), KeyOrder)

\* Of the tables, the columns of the primary key; views have none.
MapMetadata(rows) ==
    LET tables == {rows[i].object : i \in {j \in DOMAIN rows : rows[j].kind # "VIEW"}}
    IN  [t \in tables |-> LET key == PrimaryColumns(rows, t) IN [i \in DOMAIN key |-> key[i].column]]
=============================================================================
