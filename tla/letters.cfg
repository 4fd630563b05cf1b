SPECIFICATION Spec
CONSTANTS
  l1 = l1
  l2 = l2
  l3 = l3
  l4 = l4
  Letters = {l1, l2, l3, l4}
  Cap = 2
  Lifetime = 2
  Limit = 1
  MaxNow = 3
SYMMETRY AnyLetter
CHECK_DEADLOCK FALSE
INVARIANTS LettersInv FreshLettersSurvive CountConfirmsLook
