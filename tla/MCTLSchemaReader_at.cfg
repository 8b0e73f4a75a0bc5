CONSTANTS
  Alphabet <- AtAlphabet
  MaxLines <- MCMaxLines
  NFiles = 2
  DescriptionTag <- MCDescription
  BotsOnlyEnding <- MCBotsOnly
  TagNames <- MCTagNames
  TypeIdExceptions <- MCExceptions
SPECIFICATION Spec
INVARIANT
  RegistryMatchesInput
