SPECIFICATION FileSpec
CONSTANTS
  Writers = {w1, w2}
  Versions = {v1}
INVARIANT NoTruncatedFile
