\* Four label sets in any order, matchers in lists of up to three.
SPECIFICATION FairSpec
CONSTANTS
  host = host
  job = job
  none = none
  x = x
  y = y
  Names = {host, job}
  Values = {none, x, y}
  Empty = none
  LabelSets <- SmallLabelSets
  MatcherLists <- SmallMatcherLists
INVARIANTS
  IndexExact
  MergeExact
  ResolveExact
PROPERTIES
  ResolveEnds
