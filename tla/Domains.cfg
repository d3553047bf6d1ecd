SPECIFICATION Spec
CONSTANTS
  t1 = t1
  t2 = t2
  ex = ex
  exex = exex
  junk = junk
  Tab = {t1, t2}
  Domain <- Domains
  Junk = junk
  Starts <- StartsWith
  Ends <- EndsWith
  Holds <- Contains
  Tags <- OneTag
  Texts <- OneText
  BatchSize = 2
  MaxKills = 1
SYMMETRY Tabs
INVARIANTS Reported ResolverFollows
PROPERTIES LossAccounted
