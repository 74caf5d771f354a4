SPECIFICATION FairSpec
CONSTANT Services = {a, b}
INVARIANTS
  TypeOK
  PreparedStays
  AtMostOneInstance
PROPERTIES
  LostRuntimeEndsMd2
  ModeProgramEnds
