SPECIFICATION Spec
CONSTANTS
    Universes = {"run", "group", "rack", "gpt", "deepseek", "bench", "prompts"}
    MaxGroupTiles = 5
    MaxRackTiles = 6
    MaxRepeats = 2
INVARIANTS
    EngineKeepsTheRules
    ClientKeepsTheRules
    PlansKeepTheRules
    PromptsAreTrue
    VerdictsAreFair
CHECK_DEADLOCK FALSE
