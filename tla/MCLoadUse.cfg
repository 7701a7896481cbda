SPECIFICATION Spec
CONSTANTS
  Width = 2
  NumGPR = 3
  NumPRR = 2
  NumWords = 1
  Image = {2}
  Programs <- MisjudgedPrograms
  Bundles <- MisjudgedBundles
  ChecksExact = FALSE
  NoBundle = NoBundle
PROPERTIES LoadUseRefused
CHECK_DEADLOCK FALSE
