\* Two sends of the same text race on one branch, with a removal and a restart.
SPECIFICATION Spec
CONSTANTS
  s1 = s1
  s2 = s2
  f1 = f1
  c1 = c1
  c2 = c2
  t1 = t1
  t2 = t2
  p1 = p1
  p2 = p2
  Sends = {s1, s2}
  Forks = {}
  Callers = {c1, c2}
  TextOf <- MCText
  ProviderOf <- MCProvider
  Plans = {p1}
  MaxProcess = 4
  MaxConversation = 2
  MaxProvider = 2
  MaxProposals = 0
  MaxChanges = 1
  MaxRemovals = 1
  MaxRestarts = 1
SYMMETRY DispatchSymmetry
INVARIANTS
    ReplyIsHead
    AnswersWhatWasAsked
