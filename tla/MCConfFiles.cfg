SPECIFICATION FilesSpec
CONSTANTS
  arest = arest
  proline = proline
  cpu = cpu
  url = url
  accented = accented
  ampersand = ampersand
  conf = conf
  other = other
  third = third
  FileNames <- McFileNames
  cstrConfFile = conf
  NoFile = NoFile
  MaxRecentFiles = 2
  Null = Null
  Empty = Empty
  Blank = Blank
  Texts <- McTexts
  ToAscii <- McToAscii
  Malformed = {ampersand}
  NoTable = NoTable
  Tables <- McTables
  MaxEdits = 1
INVARIANTS FilesTypeOK RecentFiles SaveTarget PlainReadsBack
