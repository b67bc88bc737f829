SPECIFICATION SerialiseSpec
CONSTANTS
  Octet <- AllOctets
  MaxLiteral = 20
  MaxSize = 99
  MaxQuoted = 3
  MaxServed = 4
  Callers <- OpenCallers
INVARIANT RawCommandsClosed
