SPECIFICATION HashSpec
CONSTANTS
  Chunk = 2
  MaxBytes = 5
  Attempts = 3
  IkmBytes = 5
  WideBytes = 3
  Lengths <- MCLengths
  Block = 5
  LenBytes = 2
  ByteBits = 4
  MaxFed = 16
  BLOCK = 3
  DIGEST = 2
  ByteBase = 5
  H2C_L = 2
  INFO_MAX = 2
  MaxAsked = 12
  Messages <- ShortStrings
  Tags <- SomeTags
  Keys <- SomeKeys
  Infos <- SomeKeys
INVARIANTS
  StreamIsStandard ExpansionIsStandard DomainsAreApart AllOrNothing
  KeyIsTheFirstNonzero SecretsAreHandled
PROPERTY RequestsAreAnswered
