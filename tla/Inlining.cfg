SPECIFICATION Spec
CONSTANT Programs <- MCPrograms
INVARIANTS
  GraphClosed
  ListsIntact
  UsersAgree
  SameMeaning
  StopsExplained
