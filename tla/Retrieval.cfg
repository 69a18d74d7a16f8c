SPECIFICATION Spec
CONSTANTS
  MaxSize = 1
  MaxCount = 2
  BatchSize = 2
  Setups <- MCSetups
  Contents <- MCContents
  Queries <- MCQueries
  Samples <- MCSamples
  r1 = r1
  r2 = r2
  Readers = {r1, r2}
  w = w
  Writer = w
  MaxChunks = 2
INVARIANTS NothingLost ChunksFit CacheBounded EmbeddingOfText
PROPERTIES KeepsAligned
SYMMETRY Symmetry
CHECK_DEADLOCK FALSE
