------------------------------ MODULE MCTextFeatures ------------------------------
(***************************************************************************)
(* Values of the constants of TextFeatures for TLC: five trees, each with  *)
(* spaces, line breaks and comments where they matter.                     *)
(***************************************************************************)
EXTENDS TextFeatures

\* ASCII, a letter of two bytes, and a sign of four bytes and two units.
MCBytes == [r \in {"w", " ", ";", "newline", "accent", "emoji"} |->
              CASE r = "accent" -> 2 [] r = "emoji" -> 4 [] OTHER -> 1]
MCUnits == [r \in DOMAIN MCBytes |-> IF r = "emoji" THEN 2 ELSE 1]

Keyword(name) == [kind |-> "keyword", name |-> name, runes |-> << "w", "w" >>]
Ident(name) == [kind |-> "ident", name |-> name, runes |-> << "w", "w" >>]
QuotedIdent == [kind |-> "ident", name |-> "quoted", runes |-> << ";", "accent", "w", ";" >>]
Symbol(name) == [kind |-> "symbol", name |-> name, runes |-> << ";" >>]
Number == [kind |-> "number", name |-> "1", runes |-> << "w" >>]
Text == [kind |-> "string", name |-> "text", runes |-> << ";", "emoji", ";" >>]
LongText == [kind |-> "string", name |-> "long", runes |-> << ";", "newline", "emoji", ";" >>]
Bad == [kind |-> "bad", name |-> "bad", runes |-> << ";" >>]
Comment == [kind |-> "comment", name |-> "c", runes |-> << ";", "emoji" >>]
LongComment == [kind |-> "comment", name |-> "d", runes |-> << ";", "newline", "accent" >>]

Node(kind, first, last, up) == [kind |-> kind, first |-> first, last |-> last, up |-> up]
Arg(first, last) == [first |-> first, last |-> last]
Statement(first, last, sql) == [first |-> first, last |-> last, sql |-> sql]
Unparsed == [parsed |-> FALSE, statements |-> << >>, nodes |-> << >>, calls |-> << >>]

\* SELECT IF(a, 'x', F(b, 1));
CallTokens == << Keyword("SELECT"), Keyword("IF"), Symbol("("), Ident("a"), Symbol(","), Text,
  Symbol(","), Ident("F"), Symbol("("), QuotedIdent, Symbol(","), Number, Symbol(")"),
  Symbol(")"), Semicolon >>
Call == [parsed |-> TRUE, statements |-> << Statement(1, 14, TRUE) >>,
  nodes |-> << Node("query", 1, 14, 0), Node("if", 2, 14, 1), Node("path", 4, 4, 2),
               Node("literal", 6, 6, 2), Node("call", 8, 13, 2), Node("function", 8, 8, 5),
               Node("path", 10, 10, 5), Node("literal", 12, 12, 5) >>,
  calls |-> << [func |-> 2, close |-> 14, args |-> << Arg(4, 4), Arg(6, 6), Arg(8, 13) >>],
               [func |-> 8, close |-> 13, args |-> << Arg(10, 10), Arg(12, 12) >>] >>]

\* SELECT F((a), [b, c], d)
GroupTokens == << Keyword("SELECT"), Ident("F"), Symbol("("), Symbol("("), Ident("a"),
  Symbol(")"), Symbol(","), Symbol("["), Ident("b"), Symbol(","), Ident("c"), Symbol("]"),
  Symbol(","), Ident("d"), Symbol(")") >>
Group == [parsed |-> TRUE, statements |-> << Statement(1, 15, TRUE) >>,
  nodes |-> << Node("query", 1, 15, 0), Node("call", 2, 15, 1), Node("function", 2, 2, 2),
               Node("group", 4, 6, 2), Node("path", 5, 5, 4), Node("array", 8, 12, 2) >>,
  calls |-> << [func |-> 2, close |-> 15,
                args |-> << Arg(4, 6), Arg(8, 12), Arg(14, 14) >>] >>]

\* CREATE TABLE t (c INT64); SELECT 'x'y
SchemaTokens == << Keyword("CREATE"), Keyword("TABLE"), Ident("t"), Symbol("("), Ident("c"),
  Ident("INT64"), Symbol(")"), Semicolon, Keyword("SELECT"), Text, Ident("y") >>
Schema(sql) == [parsed |-> TRUE,
  statements |-> << Statement(1, 7, TRUE), Statement(9, 11, sql) >>,
  nodes |-> << Node("create", 1, 7, 0), Node("namespace", 3, 3, 1), Node("column", 5, 6, 1),
               Node("type", 6, 6, 3), Node("query", 9, 11, 0), Node("item", 9 + 1, 11, 5),
               Node("literal", 10, 10, 6), Node("alias", 11, 11, 6) >>,
  calls |-> << >>]

MCSyntax == [call |-> Call, group |-> Group, schema |-> Schema(TRUE), unprinted |-> Schema(FALSE),
             typed |-> Unparsed]

\* The pieces of a text: some tokens, and what is before each of them and at the
\* end, if not a space.
Pieces(tokens, gaps) ==
  LET gap(k) == IF k \in DOMAIN gaps THEN gaps[k] ELSE IF k = 1 THEN << >> ELSE << Space >>
  IN FlattenSeq([k \in DOMAIN tokens |-> gap(k) \o << tokens[k] >>]) \o gap(Len(tokens) + 1)

Nothing == << >>
Line == << LineBreak, Space >>
Gaps == {Nothing, Line, << Comment >>, << LongComment, Space >>}

Texts(syntax, tokens, free) ==
  {[syntax |-> syntax, pieces |-> Pieces(tokens, gaps)] : gaps \in [free -> Gaps]}

MCDocuments ==
  Texts("call", CallTokens, {1, 7, 10})
    \cup Texts("call", [CallTokens EXCEPT ![6] = LongText], {16})
    \cup Texts("group", GroupTokens, {4, 13})
    \cup Texts("schema", SchemaTokens, {4, 9, 11})
    \cup Texts("schema", Append(SchemaTokens, Semicolon), {8, 11})
    \cup Texts("unprinted", Append(SchemaTokens, Semicolon), {9})
    \cup Texts("typed", [SubSeq(CallTokens, 1, 8) EXCEPT ![7] = Bad], {6, 7, 9})
    \cup Texts("typed", << >>, {1})

MCSignatures == [name \in {"IF", "F"} |-> IF name = "IF" THEN 3 ELSE 1]
MCTokenTypes == {"keyword", "string", "comment", "type", "namespace", "function"}
================================================================================
