\* Three threads; a frame that fills the cache, two that fill it together, one
\* that is never cached.  Three IFUs: with the right side of the table reversed,
\* with two fibers swapped, and with a table of its own, reversed.
CONSTANTS
  r1 = r1
  r2 = r2
  r3 = r3
  a = a
  b = b
  c = c
  big = big
  NoReader = NoReader
  reversed = reversed
  swapped = swapped
  own = own
  Ifu = {reversed, swapped, own}
  PerAmp = 2
  Amps <- MCAmps
  Alternate = {own}
  Contents <- MCContents
  Reversals <- MCReversals
  Swaps <- MCSwaps
  Reader = {r1, r2, r3}
  Frame = {a, b, c, big}
  Size <- Sizes
  Limit = 2
  MaxLoads = 4
SPECIFICATION FairCaches
INVARIANTS
  CacheBounded
  GeometryOfIfu
PROPERTIES
  LoadsEnd
\* The run ends when its cache is cleared.
CHECK_DEADLOCK FALSE
