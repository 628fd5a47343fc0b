SPECIFICATION Spec
CONSTANTS
  Key = {k1}
  Burst = 2
  Rate = 1
  IdleEviction = 2
  NoEntry = NoEntry
  Width = 6
  Chunk = 2
  Buffer = 3
  Blank = Blank
  Size = {0, 1, 2, 3, 4}
  Number <- MCNumber
  Lexeme <- MCLexeme
  MaxLexemes = 4
  Id = {1}
  Database = {"d1"}
  Credential <- MCCredential
  Identity <- MCIdentity
  NoCredential = NoCredential
  IdemKey = {"k"}
  NoKey = NoKey
  Submission <- MCSubmission
  MaxConcurrent = 1
  Second = 4
  DefaultTTL = 8
INVARIANTS OwnRecordsOnly   RangeIsServed GuardIsExact 
