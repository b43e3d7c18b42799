CONSTANTS
  Producer = {t1, t2}
  Consumer = {t2, t3}
  Item = {a, b}
  N = 2
  Width = 8
  Starts = {126, 254}
  Extra = 3
  Nothing = Nothing
SPECIFICATION Spec
PROPERTY ImplementsQueue
PROPERTY GivesUpRightly
PROPERTY CallsReturn
