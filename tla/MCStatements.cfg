SPECIFICATION MCSpec
CONSTANTS
  Sql = {s1, s2}
  Addr = {a1, a2, a3}
  STMT_CACHE = 1
  Value = {Null, v1}
  Null = Null
  parameterCount = 2
  Object = {p1, p2}
  Thread = {t1, t2}
  Nothing = Nothing
  SharedObject = FALSE
  Writer = {w1, w2}
  NoWriter = NoWriter
  Text <- MCText
  Retries = 3
INVARIANTS StatementsOwned StepsWithOwnValues StepsOwnStatement RetryEffects
PROPERTY RunEnds
