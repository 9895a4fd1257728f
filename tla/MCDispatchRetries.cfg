\* A send and a fork of its message, retried by two callers at once, with
\* approvals, two prompt plans and a restart.
SPECIFICATION Spec
CONSTANTS
  s1 = s1
  s2 = s2
  f1 = f1
  c1 = c1
  c2 = c2
  t1 = t1
  t2 = t2
  p1 = p1
  p2 = p2
  Sends = {s1}
  Forks = {f1}
  Callers = {c1, c2}
  TextOf <- MCText
  ProviderOf <- MCProvider
  Plans = {p1, p2}
  MaxProcess = 4
  MaxConversation = 1
  MaxProvider = 1
  MaxProposals = 2
  MaxChanges = 0
  MaxRemovals = 0
  MaxRestarts = 1
SYMMETRY DispatchSymmetry
INVARIANTS
    DispatchInv
    LaunchedOnce
    EntryHasOneOwner
    RunningIsServed
