SPECIFICATION FairSpec
CONSTANTS
  Keys <- MCKeys
  Buf = 3
  MaxData = 1
CHECK_DEADLOCK FALSE
INVARIANTS TypeOK CipherSync Agreement NoGarbledData
PROPERTIES Completes Settles
