CONSTANTS
  WordBits = 7
  HalfBits = 3
  PP = 79
  NN = 67
  BB = 7
  G <- MCG
  Sha <- MCSha
  PrivateKeys = {2, 19, 40, 66}
  Alphas = {1, 2, 3}
  Nonces = {1, 5, 12, 23, 33, 34, 47, 58, 66}
SPECIFICATION Spec
INVARIANTS
  ArithmeticIsRight
  ProofsVerify
  FastVerifyAgrees
CHECK_DEADLOCK FALSE
