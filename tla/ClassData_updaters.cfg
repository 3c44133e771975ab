SPECIFICATION FairSpec
CONSTANTS
  NFiles = 2
  v1 = v1
  v2 = v2
  junk = junk
  Contents <- OneVersion
  Parsable <- OneParsable
  Absent = absent
  Directory = directory
  Main = main
  Updaters = {u1, u2, u3}
  Nobody = nobody
INVARIANTS TypeOK AnswersParse Validated ClassesStay Guarded
PROPERTIES IsClassStore UpdateReturns
