SPECIFICATION Spec
CONSTANTS
  Originals <- MCOriginals
  Characters <- MCCharacters
  Alphanumerics <- MCAlphanumerics
  Lower <- MCLower
  Digest <- MCDigest
  MaxLength = 5
  HashLength = 1
  MaxConverted = 2
INVARIANTS LabelsValid ValidNamesKept LostOnlyInGap
