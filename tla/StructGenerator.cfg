SPECIFICATION Generate
CONSTANTS
  None = None
  Structures <- AbiStructures
  Included = {"iovec", "ciovec", "fd"}
  Inputs <- MCInputs
  Nesting = 2
  TypesFor <- MCTypesFor
CHECK_DEADLOCK FALSE
INVARIANTS NamesResolve AssertsCoverMembers DefinedBeforeUse AbiAsCheckedIn NamesDeclarable TypesDeclared
