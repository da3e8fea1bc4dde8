CONSTANTS
  ping = ping
  fish = fish
  Programs <- TwoPrograms
  NBytes <- Lengths
SPECIFICATION Spec
PROPERTY WaitsForNextTick
