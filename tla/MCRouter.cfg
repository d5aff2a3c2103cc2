CONSTANTS
    Served <- Modules
    MaxFlaws = 1
    Mistaken <- MCMistaken
    Declines <- MCDeclines
    Revocable = {"token_c"}
SPECIFICATION Spec
INVARIANTS OutcomeTold CallsLand NoMisread PatchAgrees Guarded StrangersTold
