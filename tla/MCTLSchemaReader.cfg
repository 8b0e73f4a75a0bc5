CONSTANTS
  Alphabet <- MCAlphabet
  MaxLines <- MCMaxLines
  NFiles = 2
  DescriptionTag <- MCDescription
  BotsOnlyEnding <- MCBotsOnly
  TagNames <- MCTagNames
  TypeIdExceptions <- MCExceptions
SPECIFICATION Spec
INVARIANTS
  TypeOK
  RegistryMatchesInput
