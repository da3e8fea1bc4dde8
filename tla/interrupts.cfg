CONSTANTS
  ping = "ping"
  fish = "fish"
  Programs <- TwoPrograms
  NBytes <- Lengths
SPECIFICATION SystemSpec
INVARIANTS PicTypeOK Acknowledged
PROPERTIES OneTickPerReturn ReadReturns Delivered
