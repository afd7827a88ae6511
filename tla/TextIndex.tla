-------------------------------- MODULE TextIndex --------------------------------
(***************************************************************************)
(* Byte offsets and positions of a text (src/text_index.go).  memefish     *)
(* counts bytes of UTF-8; the editor counts lines and, in a line, units of *)
(* UTF-16.                                                                 *)
(*                                                                         *)
(* A text is a sequence of runes.                                          *)
(***************************************************************************)
EXTENDS Integers, Sequences, FiniteSets, SequencesExt

CONSTANTS
  Newline, (* The rune that ends a line.                                   *)
  Bytes,   (* rune -> the bytes of its UTF-8.                              *)
  Units    (* rune -> the units of its UTF-16.                             *)

ASSUME RuneAssumption ==
  /\ Bytes \in [DOMAIN Bytes -> 1..4] /\ Units \in [DOMAIN Bytes -> 1..2]
  /\ Newline \in DOMAIN Bytes /\ Bytes[Newline] = 1 /\ Units[Newline] = 1
  /\ \A r \in DOMAIN Bytes : Units[r] <= Bytes[r]

\* The sizes of the first n runes, for every n from 0.
Sizes(size, runes) ==
  LET sum[n \in 0..Len(runes)] == IF n = 0 THEN 0 ELSE sum[n - 1] + size[runes[n]]
  IN [n \in 0..Len(runes) |-> sum[n]]

newTextIndex(runes) ==
  LET bytes == Sizes(Bytes, runes)
      starts[n \in 0..Len(runes)] ==
        IF n = 0 THEN << 0 >>
        ELSE IF runes[n] = Newline THEN Append(starts[n - 1], bytes[n]) ELSE starts[n - 1]
  IN [runes |-> runes, bytes |-> bytes, units |-> Sizes(Units, runes),
      lineStarts |-> starts[Len(runes)]]

Size(index) == index.bytes[Len(index.runes)]

\* The runes that end at or before an offset.
RunesBefore(index, offset) == Max({n \in DOMAIN index.bytes : index.bytes[n] <= offset})

\* The units from the start of a line to an offset; the bytes of a part of a rune
\* are a unit each.
utf16Length(index, from, to) ==
  LET n == RunesBefore(index, to)
  IN index.units[n] - index.units[RunesBefore(index, from)] + to - index.bytes[n]

\* A mutant: the bytes of a line are counted.
BytePosition(index, offset) ==
  LET line == SelectLastInSeq(index.lineStarts, LAMBDA s : s <= offset)
  IN [line |-> line - 1, character |-> offset - index.lineStarts[line]]

position(index, offset) ==
  LET clamped == Min({Max({offset, 0}), Size(index)})
      line == SelectLastInSeq(index.lineStarts, LAMBDA s : s <= clamped)
  IN [line |-> line - 1, character |-> utf16Length(index, index.lineStarts[line], clamped)]

\* The offset of a position.  It is not ok past the last line, past the end of its
\* line or between the units of a rune; then it is the nearest one before.
byteOffset(index, pos) ==
  LET last == pos.line + 1 = Len(index.lineStarts)
      end == IF last THEN Size(index) ELSE index.lineStarts[pos.line + 2] - 1
      first == RunesBefore(index, index.lineStarts[pos.line + 1])
      units(n) == index.units[n] - index.units[first]
      reached == Max({n \in first..RunesBefore(index, end) : units(n) <= pos.character})
  IN IF pos.line >= Len(index.lineStarts) THEN [offset |-> Size(index), ok |-> FALSE]
     ELSE [offset |-> index.bytes[reached], ok |-> units(reached) = pos.character]

rangeByByteOffsets(index, start, end) ==
  [start |-> position(index, start), end |-> position(index, end)]

Before(a, b) == a.line < b.line \/ (a.line = b.line /\ a.character < b.character)

\* The place of a range of one line; anything else is not ok.
singleLineUTF16Range(index, start, end) ==
  LET r == rangeByByteOffsets(index, start, end)
  IN IF start < 0 \/ end < start \/ end > Size(index) \/ r.start.line # r.end.line
     THEN [ok |-> FALSE]
     ELSE [ok |-> TRUE, line |-> r.start.line, character |-> r.start.character,
           length |-> r.end.character - r.start.character]

(***************************************************************************)
(* The same as the editor sees it: it has the text in lines.               *)
(***************************************************************************)
\* The position after the first n runes, for every n from 0.
EditorPositions(runes) ==
  LET next(pos, r) == IF r = Newline THEN [line |-> pos.line + 1, character |-> 0]
                      ELSE [pos EXCEPT !.character = @ + Units[r]]
      positions[n \in 0..Len(runes)] ==
        IF n = 0 THEN [line |-> 0, character |-> 0] ELSE next(positions[n - 1], runes[n])
  IN [n \in 0..Len(runes) |-> positions[n]]

\* The runes before a position, the last of its line if it is past the end.
EditorOffset(positions, pos) == Max({n \in DOMAIN positions : ~Before(pos, positions[n])})
================================================================================
