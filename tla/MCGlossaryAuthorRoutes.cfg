CONSTANTS
  AuthorURL <- MCAuthorURL
  Guids <- MCGuids
  Others <- MCOthers
  MaxTail = 3

SPECIFICATION Spec

INVARIANT RoutesAsDeclared
