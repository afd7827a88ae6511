CONSTANTS
  Newline = "newline"
  Bytes <- MCBytes
  Units <- MCUnits
  Documents <- MCDocuments
  Syntax <- MCSyntax
  Signatures <- MCSignatures
  Blank = " "
  Semi = ";"
  WordRunes = {"w"}
  TokenTypes <- MCTokenTypes
  MaxFormats = 2

SPECIFICATION Spec

INVARIANTS
  PositionsAreTheEditors
  TokensDecode
  FormattingEditsFit
  SelectionsNest
  HelpWhileTyping
  WordAtCursor

PROPERTY
  FormattingKeepsText

CHECK_DEADLOCK FALSE
