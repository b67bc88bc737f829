SPECIFICATION Spec
CONSTANTS
  Octet <- AllOctets
  MaxLiteral = 6
  MaxSize = 20
  MaxQuoted = 3
  MaxResponse = 60
  MaxRead = 5
  Streams <- AllStreams
INVARIANTS TypeOK BufferBounded SplitInvariance LinesAsWhole Delivered LiteralAsAnnounced AsAdvertised
