CONSTANTS
  A = A  F1 = F1  F9 = F9  Brk = Brk  Ctl = Ctl  Ent = Ent  Ret = Ret
  Codes = {Ent, Brk, F9}
  Break = Brk  Ctrl = Ctl  Enter = Ent  Return = Ret
  ModeKeys = {}  RequestKeys = {F9}  Silent = {}  Foldable = {}
  Watched = {Ret}
  NumWords = 1  WordOf <- MCWordOf
  FifoSize = 1  RingSize = 2  DrainMax = 2
SPECIFICATION Spec
PROPERTY CatchesUp
