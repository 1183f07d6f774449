SPECIFICATION Spec
CONSTANTS
  Word = 16
  Page = 32
  Margin = 2
  MaxFields <- MCMaxFields
  Fields <- MCFields
  Videos <- MCVideos
INVARIANTS InBuffer ReadBack
