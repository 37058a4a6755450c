CONSTANTS
  SIZE = 11
  Requests = {1, 2, 3, 5}
  Reservable <- MCReservable
SPECIFICATION Spec
INVARIANTS
  BlocksSeparate
  AssertionsHold
  AccountsExact
