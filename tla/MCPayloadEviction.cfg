\* Any three of two evictions, by the hook or by "cleanup cache", and two
\* readers, who may evaluate what they loaded; two dense components, a retained
\* mask, one lost file, one crash, one QA review that goes back, two policies.
CONSTANTS
  e1 = e1
  e2 = e2
  rd1 = rd1
  rd2 = rd2
  own = own
  k2 = k2
  a = a
  b = b
  mask = mask
  low = low
  mid = mid
  high = high
  Evictor = {e1, e2}
  Reader = {rd1, rd2}
  Component = {a, b, mask}
  Target = {a, b}
  Kind = {own, k2}
  Own = own
  Main = a
  Measure = {low, mid, high}
  NoFact = NoFact
  Unset = Unset
  Policies <- MCPolicies
  MaxLosses = 1
  MaxCrashes = 1
  MaxReviews = 1
SPECIFICATION ReviewedSpec
SYMMETRY Symmetry
CONSTRAINT FewCallers
INVARIANTS
  NothingPresentDestroyed
  DestroyedOnlyWithEvidence
  NothingLeftAside
  VerdictFollowsFacts
\* Callers end; nothing is left to do then.
CHECK_DEADLOCK FALSE
