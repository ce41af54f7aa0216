\* Two master keys, every shape of an answer, texts around the block's length.
SPECIFICATION FairSpec
CONSTANTS
  MasterKey = {m1, m2}
  Secret <- TwoSecrets
  Text <- BlockTexts
  Item = {i1, i2}
  Code = {c1}
  OBJECT = OBJECT
  NULL = NULL
INVARIANTS
  TypeOK
  RowsArrive
  RefusalsReported
  TestMeansReadable
PROPERTIES
  PushArrives
  Recovers
CHECK_DEADLOCK FALSE
