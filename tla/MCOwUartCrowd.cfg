SPECIFICATION LineFairSpec
CONSTANTS
  contender1 = contender1
  contender2 = contender2
  listener = listener
  Node = {contender1, contender2, listener}
  DataBits = 2
  HalfBit = 4
  MaxMsg = 1
  Aux = Aux
  Writes <- MCCrowdWrites
  MaxWrites = 1
  Dark = {{}}
  Late = {}
INVARIANT BuffersBounded
