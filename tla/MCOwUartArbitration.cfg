SPECIFICATION LineFairSpec
CONSTANTS
  contender1 = contender1
  contender2 = contender2
  listener = listener
  Node = {contender1, contender2, listener}
  DataBits = 2
  HalfBit = 4
  MaxMsg = 2
  Aux = Aux
  Writes <- MCWrites
  MaxWrites = 1
  Dark = {{}}
  Late = {}
INVARIANT HeardWasSent
