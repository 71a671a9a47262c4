\* Ring buffers of the sizes in use and small ones; bytes at the edges of the
\* ranges, around the offsets 16 and 128, and in between.
SPECIFICATION Spec
CONSTANTS
  Sizes = {2, 4, 8, 128, 256}
  Samples = {0, 1, 15, 16, 17, 101, 127, 128, 129, 235, 254, 255}
INVARIANTS
  MaskIsWrap
  ConvertIsNear
