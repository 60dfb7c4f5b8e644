SPECIFICATION ParserSpec
CONSTANTS
  Files <- ParserFiles
INVARIANTS
  ParserTypeOK
  ParsedAsEncoded
  CursorMeetsSectionEnd
  CutNoticed
PROPERTIES
  ParsingEnds
CHECK_DEADLOCK FALSE
