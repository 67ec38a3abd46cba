----------------------------- MODULE SqlPolicy -----------------------------
(***************************************************************************)
(* What happens to a statement before it is sent: src/backend/sql-policy.js *)
(* with the tokens of sql-tokenizer.js, and pk-order.js.  A statement is a *)
(* sequence of lexemes.  Of the characters inside them only this is kept:  *)
(* "--" is a comment up to the end of the last line, "/**/" one that ends  *)
(* itself, "/*!" an executable one, and a numeral is ToString of its value.*)
(* Words are in upper case, the names of tables and columns in lower case. *)
(***************************************************************************)
EXTENDS Naturals, Sequences, FiniteSets, SequencesExt, TLC

CONSTANTS
    MAX_VISIBLE_ROWS,
    MaxNumber          \* bound: the largest number in a statement

ASSUME PolicyAssumption ==
    MAX_VISIBLE_ROWS \in Nat /\ MaxNumber \in Nat /\ MaxNumber > MAX_VISIBLE_ROWS

Numerals == {ToString(n) : n \in 0..MaxNumber}

\* A numeral is of one number, and no other lexeme of this module is one.
ASSUME NumeralAssumption ==
    /\ \A m, n \in 0..MaxNumber : ToString(m) = ToString(n) => m = n
    /\ Numerals \subseteq STRING \ {"(", ")", ";", ",", "--", "/**/", "x", "LIMIT", "OFFSET", "ORDER"}

Number(numeral) == CHOOSE n \in 0..MaxNumber : ToString(n) = numeral

PROBE_ROW_COUNT == MAX_VISIBLE_ROWS + 1

(***************************************************************************)
(* A filter keeps the elements at some places, in their order.             *)
(***************************************************************************)
InOrder(places, n) ==
    LET upTo[i \in 0..n] ==
            IF i = 0 THEN <<>>
            ELSE IF i \in places THEN Append(upTo[i - 1], i) ELSE upTo[i - 1]
    IN  upTo[n]

At(seq, places) ==
    LET at == InOrder(places, Len(seq)) IN [k \in DOMAIN at |-> seq[at[k]]]

(***************************************************************************)
(* tokenizeSql: a token carries its place and how many parentheses are     *)
(* open there, its own not counted.                                        *)
(***************************************************************************)
Count(sql, symbol, last) == Cardinality({i \in 1..last : sql[i] = symbol})

Depth(sql, i) == Count(sql, "(", i - 1) - Count(sql, ")", i)

Balanced(sql) ==
    /\ \A i \in DOMAIN sql : Count(sql, ")", i) <= Count(sql, "(", i)
    /\ Count(sql, "(", Len(sql)) = Count(sql, ")", Len(sql))

Tokens(sql) == [i \in DOMAIN sql |-> [raw |-> sql[i], start |-> i, depth |-> Depth(sql, i)]]

Comments == {"--", "/**/"}
Significant(tokens) == At(tokens, {i \in DOMAIN tokens : tokens[i].raw \notin Comments})

Raw(tokens) == [i \in DOMAIN tokens |-> tokens[i].raw]
IsIdentifier(raw) == raw \in {"t", "x", "basetbl", "a", "b"}

(***************************************************************************)
(* validateReadOnlySql.                                                    *)
(***************************************************************************)
TerminalSemicolon(words) == words # <<>> /\ Last(words) = ";"
StatementWords(words) == IF TerminalSemicolon(words) THEN Front(words) ELSE words

\* Mutant: semicolons are accepted wherever they are.
SingleStatementAnywhere(words) == TRUE

SingleStatement(words) == ~Contains(StatementWords(words), ";")

ExplainsSelect(words) ==
    \/ IsPrefix(<<"EXPLAIN", "SELECT">>, words)
    \/ \E format \in {"JSON", "TREE"} :
          IsPrefix(<<"EXPLAIN", "FORMAT", "=", format, "SELECT">>, words)

\* Each rule is a phrase that must not occur.
Denied == {<<":=">>, <<"INTO">>, <<"DELIMITER">>, <<"CHARSET">>, <<"\\">>,
           <<"FOR", "UPDATE">>, <<"FOR", "SHARE">>, <<"LOCK", "IN", "SHARE", "MODE">>}
          \cup {<<f, "(">> : f \in {"BENCHMARK", "GET_LOCK", "LOAD_FILE", "RELEASE_LOCK", "SLEEP"}}

Occurs(phrase, words) ==
    \E i \in DOMAIN words : IsPrefix(phrase, SubSeq(words, i, Len(words)))

Readable == {"SELECT", "SHOW", "DESC", "DESCRIBE", "EXPLAIN"}

ValidReadOnly(sql) ==
    LET words == Raw(Significant(Tokens(sql)))
        statement == StatementWords(words)
    IN  /\ Balanced(sql)
        /\ ~Contains(sql, "/*!")
        /\ statement # <<>>
        /\ SingleStatement(words)
        /\ statement[1] \in Readable
        /\ statement[1] = "EXPLAIN" => ExplainsSelect(statement)
        /\ \A phrase \in Denied : ~Occurs(phrase, statement)

StatementType(sql) == Significant(Tokens(sql))[1].raw

(***************************************************************************)
(* readTopLevelLimit.                                                      *)
(***************************************************************************)
NoLimit == [kind |-> "none", count |-> 0, offset |-> 0]
InvalidLimit == [kind |-> "invalid", count |-> 0, offset |-> 0]
Limit(count, offset) ==
    IF {count, offset} \subseteq Numerals
    THEN [kind |-> "limit", count |-> Number(count), offset |-> Number(offset)]
    ELSE InvalidLimit

\* Mutant: the LIMIT of a subquery is taken for the statement's.
TopLevelAnyDepth(sql) ==
    At(Tokens(sql), {i \in DOMAIN sql : sql[i] \notin Comments \cup {";", ")", "x"}})

TopLevel(sql) ==
    At(Tokens(sql), {i \in DOMAIN sql : sql[i] \notin Comments \cup {";"} /\ Depth(sql, i) = 0})

ReadLimit(sql) ==
    LET words == Raw(TopLevel(sql))
        limits == {i \in DOMAIN words : words[i] = "LIMIT"}
        tail == SubSeq(words, SelectInSeq(words, LAMBDA w : w = "LIMIT") + 1, Len(words))
    IN  IF limits = {} THEN NoLimit
        ELSE IF Cardinality(limits) > 1 THEN InvalidLimit
        ELSE CASE Len(tail) = 1 -> Limit(tail[1], ToString(0))
               [] Len(tail) = 3 /\ tail[2] = ","      -> Limit(tail[3], tail[1])
               [] Len(tail) = 3 /\ tail[2] = "OFFSET" -> Limit(tail[1], tail[3])
               [] OTHER -> InvalidLimit

(***************************************************************************)
(* appendProbeLimit, in the place of a terminal semicolon or after the     *)
(* last token that is no comment.                                          *)
(***************************************************************************)
\* Mutant: the probe asks for as many rows as are shown.
ProbeOfMaximum == <<"LIMIT", ToString(MAX_VISIBLE_ROWS)>>

Probe == <<"LIMIT", ToString(PROBE_ROW_COUNT)>>

\* Mutant: the limit goes to the end of the text.
AppendProbeAtEnd(sql) == SelectSeq(sql, LAMBDA w : w # ";") \o Probe

AppendProbe(sql) ==
    LET last == Last(Significant(Tokens(sql)))
        kept == IF last.raw = ";" THEN last.start - 1 ELSE last.start
    IN  SubSeq(sql, 1, kept) \o Probe \o SubSeq(sql, last.start + 1, Len(sql))

(***************************************************************************)
(* addPrimaryKeyOrder.  A snapshot maps the names of its tables to the     *)
(* columns of their primary keys, in the order of the key.                 *)
(***************************************************************************)
OrderBlockers == {"DISTINCT", "GROUP", "HAVING", "UNION", "INTERSECT", "EXCEPT"}

\* The table after the first FROM, if its alias is basetbl, with or without
\* AS, and one qualifier or none before the name; <<>> otherwise.  A second
\* qualifier (pk-order.js:29-33) is left out, as is what the lexer makes of a
\* name: quotes are gone, and names that differ in case are different here.
BaseTable(tokens) ==
    LET from == SelectInSeq(tokens, LAMBDA t : t.depth = 0 /\ t.raw = "FROM")
        words == IF from = 0 THEN <<>> ELSE Raw(SubSeq(tokens, from + 1, Len(tokens)))
        named == IF Len(words) > 2 /\ words[2] = "." /\ IsIdentifier(words[3])
                 THEN SubSeq(words, 3, Len(words)) ELSE words
        alias == IF Len(named) > 1 /\ named[2] = "AS" THEN 3 ELSE 2
    IN  IF Len(named) >= alias /\ IsIdentifier(named[1]) /\ named[alias] = "basetbl"
        THEN <<named[1]>> ELSE <<>>

\* A snapshot has the tables of one database, no two with one name: findTable
\* finds a table by its name alone.  That it prefers the one of the schema that
\* is named, and takes none of several (pk-order.js:67-74), is left out.
KeyColumns(snapshot, tokens) ==
    LET table == BaseTable(tokens)
    IN  IF table = <<>> \/ ~(table[1] \in DOMAIN snapshot) THEN <<>> ELSE snapshot[table[1]]

OrderBy(columns) ==
    <<"ORDER", "BY">> \o
    [i \in 1..(2 * Len(columns) - 1) |-> IF i % 2 = 0 THEN "," ELSE columns[(i + 1) \div 2]]

\* Mutant: the order is put at the end of the statement.
OrderedAtEnd(sql, limit, columns) == sql \o OrderBy(columns)

OrderedBefore(sql, limit, columns) ==
    SubSeq(sql, 1, limit - 1) \o OrderBy(columns) \o SubSeq(sql, limit, Len(sql))

AddPrimaryKeyOrder(sql, range, snapshot) ==
    LET tokens == Significant(Tokens(sql))
        top == TopLevel(sql)
        limit == SelectInSeq(top, LAMBDA t : t.raw = "LIMIT")
        columns == KeyColumns(snapshot, tokens)
    IN  IF \/ ~range
           \/ Occurs(<<"ORDER", "BY">>, Raw(top))
           \/ \E i \in DOMAIN top : top[i].raw \in OrderBlockers
           \/ limit = 0 \/ columns = <<>>
        THEN sql ELSE OrderedBefore(sql, top[limit].start, columns)

(***************************************************************************)
(* prepareManualSql and prepareTableDataSql.  Unlimited stands for null.   *)
(***************************************************************************)
Unlimited == MaxNumber + 1
Refused == [sql |-> <<>>, maxVisibleRows |-> 0]
Prepared(sql, rows) == [sql |-> sql, maxVisibleRows |-> rows]

PrepareManual(sql) ==
    IF ~ValidReadOnly(sql) THEN Refused
    ELSE IF StatementType(sql) # "SELECT" THEN Prepared(sql, MAX_VISIBLE_ROWS)
    ELSE LET limit == ReadLimit(sql)
         IN  CASE limit.kind = "none" -> Prepared(AppendProbe(sql), MAX_VISIBLE_ROWS)
               [] limit.kind = "limit" /\ limit.count <= MAX_VISIBLE_ROWS ->
                      Prepared(sql, MAX_VISIBLE_ROWS)
               [] OTHER -> Refused

PrepareTableData(sql, range, snapshot) ==
    IF \/ ~ValidReadOnly(sql)
       \/ StatementType(sql) # "SELECT"
       \/ ReadLimit(sql).kind = "invalid"
    THEN Refused
    ELSE Prepared(AddPrimaryKeyOrder(sql, range, snapshot), Unlimited)
=============================================================================
