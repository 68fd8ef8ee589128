SPECIFICATION Spec
CONSTANTS
  Lines <- SomeLines
  Texts <- SomeTexts
  Absent = Absent
  DirSize = 3
  LineSize = 12
  MethodSize = 3
  MaxEdits = 2
INVARIANT TypeOK
INVARIANT Routed
INVARIANT QueryKept
INVARIANT PageWhole
INVARIANT MissingOnly
