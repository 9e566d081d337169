CONSTANTS
  A = A  F1 = F1  F9 = F9  Brk = Brk  Ctl = Ctl  Ent = Ent  Ret = Ret
  Codes = {A, F1, Ctl}
  Break = Brk  Ctrl = Ctl  Enter = Ent  Return = Ret
  ModeKeys = {F1}  RequestKeys = {}  Silent = {}  Foldable = {A}
  Watched = {A, F1}
  NumWords = 2  WordOf <- MCWordOf
  FifoSize = 1  RingSize = 2  DrainMax = 1
SPECIFICATION Spec
INVARIANT TypingSound
PROPERTY ImplementsKeyView
