\* prodcons.c: two consumers, three items of two values
CONSTANTS
  N = 2
  T = 3
  Values = {100, 999}
SPECIFICATION Spec
INVARIANT TypeOK
INVARIANT ItemCountsAgree
PROPERTY Termination
