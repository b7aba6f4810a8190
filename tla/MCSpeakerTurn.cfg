SPECIFICATION TurnSpec
CONSTANTS
  Names = {haruhi, kyon, yuki, stranger}
  Participants = {haruhi, kyon, yuki}
  Haruhi = haruhi
  MaxPlan = 2
  MaxListed = 5
  MaxAddressed = 2
  Batches = {b1, b2}
  Single = Single
  MaxTokens = 2
  MaxLength = 5
  MaxBudget = 6
  MaxMarks = 6
SYMMETRY Symmetry
INVARIANTS
  PlanIsUsable
  PlanFollowsList
  WindowIsLongest
  WordsAreTheCharacters
  ListedAsSent
