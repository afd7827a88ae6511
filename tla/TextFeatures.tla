------------------------------- MODULE TextFeatures -------------------------------
(***************************************************************************)
(* The requests about the text of a document: semantic tokens, formatting, *)
(* selections, signature help and the word at the cursor (src/handler.go,  *)
(* src/signature_help.go).  They answer in positions what memefish tells   *)
(* them in byte offsets; the editor applies the edits it gets.             *)
(*                                                                         *)
(* A text is a sequence of pieces: tokens, and the spaces and comments     *)
(* between them.  Its tree refers to its tokens by their numbers, so that  *)
(* a text keeps it when the spaces change.                                 *)
(***************************************************************************)
EXTENDS TextIndex

CONSTANTS
  Documents,  (* The texts a session starts with.                          *)
  Syntax,     (* syntax -> its statements, nodes and function calls.       *)
  Signatures, (* googleSQLSignatures: function -> its number of parameters. *)
  Blank, Semi, (* The runes that memefish prints between tokens and after  *)
              (* a statement.                                              *)
  WordRunes,  (* isIdentChar: the letters, digits and underscores of ASCII. *)
  TokenTypes, (* tokenTypeMap: the types of semantic tokens the editor has. *)
  MaxFormats  (* Bound on the formatting requests of a session.            *)

VARIABLES
  text,   (* the stored text, as newLexer has it                           *)
  asked   (* how many formatting requests had edits, and which the last was *)

vars == << text, asked >>

(***************************************************************************)
(* Reading a text                                                          *)
(***************************************************************************)
Trivia == {"space", "comment"}
IsCode(piece) == piece.kind \notin Trivia

\* What a sequence has at some places (SelectSeq, of which the prover has no definition).
Sifted(s, places) ==
  LET sifted[n \in 0..Len(s)] ==
        IF n = 0 THEN << >>
        ELSE IF n \in places THEN Append(sifted[n - 1], s[n]) ELSE sifted[n - 1]
  IN sifted[Len(s)]

CodePlaces(pieces) == {i \in DOMAIN pieces : IsCode(pieces[i])}
CommentPlaces(pieces) == {i \in DOMAIN pieces : pieces[i].kind = "comment"}
Code(pieces) == Sifted(pieces, CodePlaces(pieces))
Comments(pieces) == Sifted(pieces, CommentPlaces(pieces))

Runes(pieces) == FlattenSeq([i \in DOMAIN pieces |-> pieces[i].runes])

\* How many runes the first n pieces have, for every n from 0.
Ends(pieces) ==
  LET ends[n \in 0..Len(pieces)] ==
        IF n = 0 THEN 0 ELSE ends[n - 1] + Len(pieces[n].runes)
  IN [n \in 0..Len(pieces) |-> ends[n]]

\* Every piece with its range.
newLexer(syntax, pieces) ==
  LET index == newTextIndex(Runes(pieces))
      ends == Ends(pieces)
      end(i) == index.bytes[ends[i]]
      ranges == [i \in DOMAIN pieces |->
                   [piece |-> pieces[i], start |-> end(i - 1), end |-> end(i),
                    range |-> rangeByByteOffsets(index, end(i - 1), end(i))]]
  IN [syntax |-> syntax, pieces |-> pieces, index |-> index,
      tokens |-> Sifted(ranges, CodePlaces(pieces)),
      comments |-> Sifted(ranges, CommentPlaces(pieces))]

\* The tokens up to the first that cannot be read.
LexerSeq(t) ==
  LET bad == SelectInSeq(t.tokens, LAMBDA r : r.piece.kind = "bad")
  IN IF bad = 0 THEN t.tokens ELSE SubSeq(t.tokens, 1, bad - 1)

LexerFails(t) == Len(LexerSeq(t)) < Len(t.tokens)

\* The range of a node, from its first token to its last.
NodeStart(t, node) == t.tokens[node.first].start
NodeEnd(t, node) == t.tokens[node.last].end
rangeByNode(t, node) ==
  [start |-> t.tokens[node.first].range.start, end |-> t.tokens[node.last].range.end]

NotAfter(a, b) == ~Before(b, a)
rangeContains(outer, inner) ==
  NotAfter(outer.start, inner.start) /\ NotAfter(inner.end, outer.end)
rangeIncludesPosition(r, pos) == NotAfter(r.start, pos) /\ NotAfter(pos, r.end)
rangesOverlap(a, b) == Before(a.start, b.end) /\ Before(b.start, a.end)

(***************************************************************************)
(* What memefish makes of a text                                           *)
(***************************************************************************)
Space == [kind |-> "space", name |-> Blank, runes |-> << Blank >>]
LineBreak == [kind |-> "space", name |-> Newline, runes |-> << Newline >>]
Semicolon == [kind |-> "symbol", name |-> Semi, runes |-> << Semi >>]

\* A piece is not empty, and an identifier is not the end of a longer word.
PiecesOK(pieces) ==
  /\ pieces \in Seq(ToSet(pieces))
  /\ \A i \in DOMAIN pieces :
       /\ pieces[i].runes \in Seq(DOMAIN Bytes) \ {<< >>}
       /\ pieces[i].kind = "ident" /\ ToSet(pieces[i].runes) \subseteq WordRunes /\ i > 1 =>
            Last(pieces[i - 1].runes) \notin WordRunes

\* The tokens of a text are its statements, with a semicolon between two and
\* possibly one at the end.
StatementsOK(stmts, code) ==
  /\ stmts \in Seq(ToSet(stmts))
  /\ \A i \in DOMAIN stmts :
       LET stmt == stmts[i]
       IN /\ stmt.last \in 1..Len(code) /\ stmt.first \in 1..stmt.last
          /\ stmt.first = IF i = 1 THEN 1 ELSE stmts[i - 1].last + 2
          /\ stmt.last < Len(code) => code[stmt.last + 1] = Semicolon
          /\ stmt.last + 1 >= Len(code) <=> i = Len(stmts)

\* Nodes are listed from the top, and two of them nest or follow one another.
NodesOK(nodes, code) ==
  LET within(i, j) == nodes[j].first <= nodes[i].first /\ nodes[i].last <= nodes[j].last
      apart(i, j) == nodes[i].last < nodes[j].first \/ nodes[j].last < nodes[i].first
  IN /\ nodes \in Seq(ToSet(nodes))
     /\ \A i \in DOMAIN nodes :
          /\ nodes[i].last \in 1..Len(code) /\ nodes[i].first \in 1..nodes[i].last
          /\ nodes[i].up \in 0..(i - 1) /\ (nodes[i].up # 0 => within(i, nodes[i].up))
          /\ \A j \in 1..(i - 1) : within(i, j) \/ apart(i, j)

ASSUME PrintedAssumption ==
  {Blank, Semi} \subseteq DOMAIN Bytes /\ WordRunes \cap {Blank, Semi, Newline} = {}

ASSUME DocumentsAssumption ==
  \A d \in Documents :
    /\ PiecesOK(d.pieces)
    /\ StatementsOK(Syntax[d.syntax].statements, Code(d.pieces))
    /\ NodesOK(Syntax[d.syntax].nodes, Code(d.pieces))

(***************************************************************************)
(* Semantic tokens                                                         *)
(***************************************************************************)
kindToSemanticTokenTypes(kind) ==
  IF kind \in {"param", "number", "string", "keyword"} THEN kind ELSE ""

\* What is to be shown: nodes of some kinds, tokens of some kinds, comments.
TokenSources(t) ==
  LET source(start, end, type) == [start |-> start, end |-> end, type |-> type]
      nodes == SelectSeq(Syntax[t.syntax].nodes,
                         LAMBDA n : n.kind \in {"type", "namespace", "function"})
      tokens == SelectSeq(t.tokens, LAMBDA r : kindToSemanticTokenTypes(r.piece.kind) # "")
  IN [i \in DOMAIN nodes |-> source(NodeStart(t, nodes[i]), NodeEnd(t, nodes[i]), nodes[i].kind)]
       \o [i \in DOMAIN tokens |-> source(tokens[i].start, tokens[i].end,
                                          kindToSemanticTokenTypes(tokens[i].piece.kind))]
       \o [i \in DOMAIN t.comments |-> source(t.comments[i].start, t.comments[i].end, "comment")]

newSemanticToken(index, source) ==
  singleLineUTF16Range(index, source.start, source.end) @@ [type |-> source.type]

\* A mutant: a token that is not shown is passed all the same.
EncodePassing(tokens) ==
  LET encode(state, token) ==
        [line |-> token.line, character |-> token.character,
         data |-> IF token.type \in TokenTypes
                  THEN Append(state.data,
                         [deltaLine |-> token.line - state.line,
                          deltaCharacter |-> IF token.line = state.line
                                             THEN token.character - state.character
                                             ELSE token.character,
                          length |-> token.length, type |-> token.type])
                  ELSE state.data]
  IN FoldLeft(encode, [line |-> 0, character |-> 0, data |-> << >>], tokens).data

\* Each token is given by its distance from the one before it that is shown.
Encode(tokens) ==
  LET encode(state, token) ==
        [line |-> token.line, character |-> token.character,
         data |-> Append(state.data,
                    [deltaLine |-> token.line - state.line,
                     deltaCharacter |-> IF token.line = state.line
                                        THEN token.character - state.character
                                        ELSE token.character,
                     length |-> token.length, type |-> token.type])]
  IN FoldLeft(encode, [line |-> 0, character |-> 0, data |-> << >>],
              SelectSeq(tokens, LAMBDA token : token.type \in TokenTypes)).data

SemanticTokensFull(t) ==
  LET sources == TokenSources(t)
      tokens == [i \in DOMAIN sources |-> newSemanticToken(t.index, sources[i])]
  IN Encode(SortSeq(SelectSeq(tokens, LAMBDA token : token.ok), Before))

\* What data says, from the first token to the last.
Decode(data) ==
  LET decode(tokens, d) ==
        LET last == IF tokens = << >> THEN [line |-> 0, character |-> 0] ELSE Last(tokens)
        IN Append(tokens,
             [line |-> last.line + d.deltaLine,
              character |-> IF d.deltaLine = 0 THEN last.character + d.deltaCharacter
                            ELSE d.deltaCharacter,
              length |-> d.length, type |-> d.type])
  IN FoldLeft(decode, << >>, data)

filterSemanticTokens(data, target) ==
  LET range(token) == [start |-> [line |-> token.line, character |-> token.character],
                       end |-> [line |-> token.line, character |-> token.character + token.length]]
  IN Encode(SelectSeq(Decode(data), LAMBDA token : rangesOverlap(target, range(token))))

SemanticTokensRange(t, target) == filterSemanticTokens(SemanticTokensFull(t), target)

(***************************************************************************)
(* Formatting                                                              *)
(***************************************************************************)
\* The statements of a text that is parsed, each with what memefish prints for
\* it: its tokens, no comment, one space between; some are not printed.
ParseStatements(t) ==
  IF LexerFails(t) \/ ~Syntax[t.syntax].parsed THEN << >> ELSE Syntax[t.syntax].statements

formatStatement(t, stmt) ==
  FlattenSeq([k \in 1..(stmt.last - stmt.first + 1) |->
    (IF k = 1 THEN << >> ELSE << Space >>) \o << t.tokens[stmt.first + k - 1].piece >>])

documentHasComments(t) == LexerFails(t) \/ t.comments # << >>

\* A mutant: a range is formatted whatever it has.
NoComments(t, target) == LexerFails(t)

rangeHasComments(t, target) ==
  LexerFails(t) \/ \E r \in ToSet(t.comments) : rangesOverlap(target, r.range)

documentEndPosition(t) == position(t.index, Size(t.index))

Formatting(t) ==
  LET stmts == ParseStatements(t)
      formatted == FlattenSeq([i \in DOMAIN stmts |->
                     formatStatement(t, stmts[i]) \o << Semicolon, LineBreak >>])
  IN IF \/ documentHasComments(t) \/ stmts = << >> \/ \E i \in DOMAIN stmts : ~stmts[i].sql
        \/ formatted = t.pieces
     THEN << >>
     ELSE << [range |-> [start |-> [line |-> 0, character |-> 0], end |-> documentEndPosition(t)],
              new |-> formatted] >>

\* The statements of a range without comments, each as an edit of its own.
rangeFormattingEdits(t, target) ==
  LET stmts == ParseStatements(t)
      formatted == Sifted(stmts, {i \in DOMAIN stmts :
                     stmts[i].sql /\ rangeContains(target, rangeByNode(t, stmts[i]))})
  IN IF rangeHasComments(t, target) THEN << >>
     ELSE [i \in DOMAIN formatted |-> [range |-> rangeByNode(t, formatted[i]),
                                       new |-> formatStatement(t, formatted[i])]]

\* A mutant: a statement is formatted for every range it is in.
FormattingOfEach(t, targets) ==
  FlattenSeq([i \in DOMAIN targets |-> rangeFormattingEdits(t, targets[i])])

\* The edits of several ranges; a statement in two of them is edited once.
RangesFormatting(t, targets) ==
  LET edits == FlattenSeq([i \in DOMAIN targets |-> rangeFormattingEdits(t, targets[i])])
  IN Sifted(edits, {i \in DOMAIN edits : \A j \in 1..(i - 1) : edits[j].range # edits[i].range})

\* After a semicolon: the last statement before it that can be formatted.
OnTypeFormatting(t, pos) ==
  LET stmts == ParseStatements(t)
      ended == Sifted(stmts, {i \in DOMAIN stmts :
                 stmts[i].sql /\ NotAfter(rangeByNode(t, stmts[i]).end, pos)})
  IN IF ended = << >> \/ rangeHasComments(t, rangeByNode(t, Last(ended))) THEN << >>
     ELSE << [range |-> rangeByNode(t, Last(ended)), new |-> formatStatement(t, Last(ended))] >>

(***************************************************************************)
(* Selections                                                              *)
(***************************************************************************)
\* A node is visited if the one it is in contains the position.
findNodesByPos(t, pos) ==
  LET nodes == Syntax[t.syntax].nodes
      includes(i) == rangeIncludesPosition(rangeByNode(t, nodes[i]), pos)
      visited[i \in 0..Len(nodes)] == i = 0 \/ (includes(i) /\ visited[nodes[i].up])
  IN Sifted(nodes, {i \in DOMAIN nodes : visited[i]})

\* A mutant: a node that is not in the selection before it is one, too.
EverySelection(t, pos) ==
  LET widen(ranges, node) ==
        LET r == rangeByNode(t, node)
        IN IF ranges # << >> /\ r = Last(ranges) THEN ranges ELSE Append(ranges, r)
  IN FoldLeft(widen, << >>, findNodesByPos(t, pos))

\* The ranges around a position, from the widest.
selectionRangeAtPosition(t, pos) ==
  LET found == findNodesByPos(t, pos)
      narrowed(ranges, r) ==
        IF ranges # << >> /\ (r = Last(ranges) \/ ~rangeContains(Last(ranges), r))
        THEN ranges ELSE Append(ranges, r)
      ranges[n \in 0..Len(found)] ==
        IF n = 0 THEN << >> ELSE narrowed(ranges[n - 1], rangeByNode(t, found[n]))
  IN IF found = << >> THEN << [start |-> pos, end |-> pos] >> ELSE ranges[Len(found)]

(***************************************************************************)
(* Signature help                                                          *)
(***************************************************************************)
NoCall == [name |-> "", parameter |-> 0]

\* A mutant: the first call around the position.
OutermostCall(t, pos) ==
  LET at == byteOffset(t.index, pos)
      around == SelectSeq(Syntax[t.syntax].calls, LAMBDA c :
                  t.tokens[c.func].end <= at.offset /\ at.offset <= t.tokens[c.close].start)
      call == around[1]
      reached(i) == at.offset <= NodeEnd(t, call.args[i])
      i == SelectInSeq([k \in DOMAIN call.args |-> reached(k)], LAMBDA b : b)
  IN IF ~at.ok \/ around = << >> THEN NoCall
     ELSE [name |-> t.tokens[call.func].piece.name,
           parameter |-> IF i = 0 THEN Len(call.args) ELSE i - 1]

\* The call of the tree whose arguments begin last before the position, and the
\* first of its arguments that ends there or later.
activeASTFunctionCall(t, pos) ==
  LET at == byteOffset(t.index, pos)
      start(c) == t.tokens[c.func].end
      around == {c \in ToSet(Syntax[t.syntax].calls) :
                   start(c) <= at.offset /\ at.offset <= t.tokens[c.close].start}
      call == CHOOSE c \in around : \A d \in around : start(d) <= start(c)
      i == SelectInSeq(call.args, LAMBDA a : at.offset <= NodeEnd(t, a))
  IN IF ~at.ok \/ around = {} THEN NoCall
     ELSE [name |-> t.tokens[call.func].piece.name,
           parameter |-> IF i = 0 THEN Len(call.args) ELSE i - 1]

\* The parenthesis that is open at the position, with the token before it and the
\* commas since.
activeIncompleteFunctionCall(t, pos) ==
  LET before == SelectSeq(LexerSeq(t), LAMBDA r : Before(r.range.start, pos))
      counted(frames) == Append(Front(frames), [Last(frames) EXCEPT !.parameter = @ + 1])
      next(state, r) ==
        LET name == r.piece.name
        IN [previous |-> name,
            frames |-> CASE name = "(" -> Append(state.frames, [NoCall EXCEPT !.name = state.previous])
                         [] name = "," /\ state.frames # << >> -> counted(state.frames)
                         [] name = ")" /\ state.frames # << >> -> Front(state.frames)
                         [] OTHER -> state.frames]
      frames == FoldLeft(next, [previous |-> "", frames |-> << >>], before).frames
  IN IF frames = << >> \/ Last(frames).name = "" THEN NoCall ELSE Last(frames)

\* The signature and the parameter at a position, the last one for any further.
SignatureHelp(t, pos) ==
  LET ast == activeASTFunctionCall(t, pos)
      call == IF ast # NoCall THEN ast ELSE activeIncompleteFunctionCall(t, pos)
  IN IF call.name \notin DOMAIN Signatures THEN NoCall
     ELSE [call EXCEPT !.parameter = IF Signatures[call.name] > 0
                                     THEN Min({@, Signatures[call.name] - 1}) ELSE @]

(***************************************************************************)
(* The word at the cursor                                                  *)
(***************************************************************************)
\* The start of the run of ASCII letters, digits and underscores before an offset.
WordStart(t, offset) ==
  LET n == RunesBefore(t.index, offset)
      start == CHOOSE m \in 0..n :
                 /\ \A k \in (m + 1)..n : t.index.runes[k] \in WordRunes
                 /\ m = 0 \/ t.index.runes[m] \notin WordRunes
  IN t.index.bytes[start]

\* The range of the prefix that completion filters by at a position.
completionPrefixAt(t, pos) ==
  LET at == byteOffset(t.index, pos)
  IN IF ~at.ok THEN [start |-> 0, end |-> 0] ELSE [start |-> WordStart(t, at.offset), end |-> at.offset]

\* The identifier at a position, of two that touch the first.
identifierAtPositionWithRange(t, pos) ==
  LET tokens == LexerSeq(t)
  IN Sifted(tokens, {k \in DOMAIN tokens :
       tokens[k].piece.kind = "ident" /\ rangeIncludesPosition(tokens[k].range, pos)})

(***************************************************************************)
(* Sessions                                                                *)
(***************************************************************************)
Init == /\ \E d \in Documents : text = newLexer(d.syntax, d.pieces)
        /\ asked = [count |-> 0, last |-> "none"]

\* The pieces after edits, made by the editor: each replaces the pieces, one at
\* least, that are between two positions of its own text.
Applied(pieces, edits) ==
  LET ends == Ends(pieces)
      positions == EditorPositions(Runes(pieces))
      after(n) == 1 + Max({i \in DOMAIN ends : ends[i] <= n})
      upTo(n) == Min({i \in DOMAIN ends : ends[i] >= n})
      spans == {[first |-> after(EditorOffset(positions, e.range.start)),
                 last |-> upTo(EditorOffset(positions, e.range.end)),
                 new |-> e.new] : e \in ToSet(edits)}
      over(i) == {s \in spans : i \in s.first..s.last}
      from(i) == {s \in spans : s.first = i}
  IN FlattenSeq([i \in DOMAIN pieces |->
       IF over(i) = {} THEN << pieces[i] >>
       ELSE IF from(i) = {} THEN << >>
       ELSE (CHOOSE s \in from(i) : TRUE).new])

\* The editor asks, applies the edits, and sends the new text.
Format(request, edits) ==
  /\ asked.count < MaxFormats
  /\ edits # << >>
  /\ text' = newLexer(text.syntax, Applied(text.pieces, edits))
  /\ asked' = [count |-> asked.count + 1, last |-> request]

\* The ranges that are asked for: they begin and end where a statement does, or
\* where a comment begins.
Targets(t) ==
  LET places == {0, Size(t.index)} \cup {c.start : c \in ToSet(t.comments)}
                  \cup UNION {{NodeStart(t, s), NodeEnd(t, s)} :
                                s \in ToSet(Syntax[t.syntax].statements)}
  IN {rangeByByteOffsets(t.index, p[1], p[2]) : p \in {q \in places \X places : q[1] < q[2]}}

FormatDocument == Format("document", Formatting(text))
FormatRange(target) == Format("range", rangeFormattingEdits(text, target))
FormatRanges ==
  \E edits \in {RangesFormatting(text, << a, b >>) : a, b \in Targets(text)} : Format("range", edits)
FormatOnType(r) == Format("type", OnTypeFormatting(text, r.range.end))

Next ==
  \/ FormatDocument
  \/ \E target \in Targets(text) : FormatRange(target)
  \/ FormatRanges
  \/ \E r \in {q \in ToSet(text.tokens) : q.piece = Semicolon} : FormatOnType(r)

Spec == Init /\ [][Next]_vars

(***************************************************************************)
(* Properties                                                              *)
(***************************************************************************)
Boundaries == 0..Len(text.index.runes)

\* A byte offset between two runes is the position where the editor sees them and
\* back; any other position, also between the units of a rune or past the end of a
\* line, is refused, with the offset of what the editor takes it for.
PositionsAreTheEditors ==
  LET positions == EditorPositions(text.index.runes)
      end == position(text.index, Size(text.index))
      places == {positions[n] : n \in Boundaries}
      grid == [line : 0..(end.line + 1), character : 0..(Max({p.character : p \in places}) + 1)]
  IN /\ \A n \in Boundaries : position(text.index, text.index.bytes[n]) = positions[n]
     /\ \A pos \in grid :
          LET at == byteOffset(text.index, pos)
          IN /\ at.ok <=> pos \in places
             /\ at.offset = text.index.bytes[EditorOffset(positions, pos)]

\* The tokens that the editor should show: those on one line, of the types it has.
ShownTokens ==
  LET positions == EditorPositions(text.index.runes)
      at(offset) == positions[RunesBefore(text.index, offset)]
  IN {[line |-> at(s.start).line, character |-> at(s.start).character,
       length |-> at(s.end).character - at(s.start).character, type |-> s.type] :
        s \in {q \in ToSet(TokenSources(text)) : q.type \in TokenTypes /\ at(q.start).line = at(q.end).line}}

\* The editor reads off the list the tokens that are to be shown, in order; of a
\* range, those that share a character with it.
TokensDecode ==
  LET shown == ShownTokens
      full == Decode(SemanticTokensFull(text))
      start(k) == [line |-> k.line, character |-> k.character]
      end(k) == [line |-> k.line, character |-> k.character + k.length]
  IN /\ ToSet(full) = shown /\ Len(full) = Cardinality(shown)
     /\ \A i \in 1..(Len(full) - 1) : ~Before(start(full[i + 1]), start(full[i]))
     /\ \A target \in Targets(text) :
          ToSet(Decode(SemanticTokensRange(text, target)))
            = {k \in shown : Before(start(k), target.end) /\ Before(target.start, end(k))}

\* The edits for several ranges replace whole statements without a comment, each
\* one within a range asked for, and no two overlap: the editor can apply them.
FormattingEditsFit ==
  \A a, b \in Targets(text) :
    LET edits == RangesFormatting(text, << a, b >>)
        statements == {rangeByNode(text, s) : s \in ToSet(Syntax[text.syntax].statements)}
    IN \A i \in DOMAIN edits :
         LET r == edits[i].range
         IN /\ r \in statements /\ (rangeContains(a, r) \/ rangeContains(b, r))
            /\ \A c \in ToSet(text.comments) : ~rangesOverlap(r, c.range)
            /\ \A j \in 1..(i - 1) : ~rangesOverlap(edits[j].range, r)

\* Formatting, in whatever order it is asked for, loses no token and no comment,
\* adds nothing but the last semicolon, and a document that has been formatted as
\* a whole is left alone.
FormattingKeepsText ==
  [][/\ Code(text'.pieces) \in {Code(text.pieces), Append(Code(text.pieces), Semicolon)}
     /\ Comments(text'.pieces) = Comments(text.pieces)
     /\ asked'.last = "document" => Formatting(text') = << >>]_vars

\* The selections at a position, from the widest, each contain the next and the
\* position, and no node that is wider than the position on both sides is missed.
SelectionsNest ==
  \A pos \in Range(EditorPositions(text.index.runes)) :
    LET ranges == selectionRangeAtPosition(text, pos)
    IN /\ \A i \in DOMAIN ranges : rangeIncludesPosition(ranges[i], pos)
       /\ \A i \in 1..(Len(ranges) - 1) :
            ranges[i] # ranges[i + 1] /\ rangeContains(ranges[i], ranges[i + 1])
       /\ \A node \in ToSet(Syntax[text.syntax].nodes) :
            LET r == rangeByNode(text, node)
            IN Before(r.start, pos) /\ Before(pos, r.end) => r \in ToSet(ranges)

\* The help for a call that is complete, found in the tree, is the help there was
\* while it was typed, found by counting parentheses and commas: just after a
\* parenthesis, a comma or an argument, but for arguments with brackets.
HelpWhileTyping ==
  \A c \in ToSet(Syntax[text.syntax].calls) :
    LET name(k) == text.tokens[k].piece.name
        count(x, k) == Cardinality({j \in (c.func + 2)..k : name(j) = x})
        places == {c.func + 1} \cup {c.args[i].last : i \in DOMAIN c.args}
                    \cup {c.args[i].last + 1 : i \in 1..(Len(c.args) - 1)}
        typed(k) == SubSeq(text.pieces, 1, CHOOSE i \in DOMAIN text.pieces :
                      /\ IsCode(text.pieces[i])
                      /\ Len(Code(SubSeq(text.pieces, 1, i))) = k)
    IN \A k \in {j \in places : count("[", j) = 0 /\ count("(", j) = count(")", j)} :
         LET pos == text.tokens[k].range.end
         IN SignatureHelp(text, pos) = SignatureHelp(newLexer("typed", typed(k)), pos)

\* The prefix completion filters by is the part before the cursor of the identifier that
\* the other requests find there, unless that one is quoted.
WordAtCursor ==
  LET positions == EditorPositions(text.index.runes)
  IN \A n \in Boundaries :
    LET pos == positions[n]
        found == identifierAtPositionWithRange(text, pos)
    IN (found # << >> /\ ToSet(Head(found).piece.runes) \subseteq WordRunes) =>
         completionPrefixAt(text, pos) = [start |-> Head(found).start, end |-> text.index.bytes[n]]
================================================================================
