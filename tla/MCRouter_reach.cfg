CONSTANTS
    Served <- Modules
    MaxFlaws = 1
    Mistaken <- MCMistaken
    Declines <- MCDeclines
    Revocable = {"token_c"}
SPECIFICATION Spec
INVARIANT DiscoveryIsServed
