CONSTANTS
  Width = 5
  IntWidth = 4
  ByteWidth = 3
  NestMax = 64
  Numbers <- MCNumbers
  Characters <- MCCharacters
  Names <- MCNames
  Spellings <- MCSpellings
  Headers <- MCHeaders
  Escapes <- MCEscapes
  Attributes = {"packed"}
  Builtins = {"f"}
  FilesMax = 4
  RootsMax = 3
  GroupMax = 3
  IncludeMax = 3
SPECIFICATION MCSpec
INVARIANTS PutsOutStandard EvaluatesStandard
CHECK_DEADLOCK FALSE
