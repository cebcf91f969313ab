CONSTANTS
    qwen = qwen
    oss = oss
    gpt = gpt
    dated = dated
    r1 = r1
    Null = Null
    Locals = {qwen, oss}
    Catalogue <- MCCatalogue
    SnapshotOf <- MCSnapshotOf
    Tooled = {qwen, oss}
    Accepting = {qwen}
    HandSeeded = {gpt}
    Roomy = {qwen}
    Sifted = {"openai"}
    Refreshers = {r1}
    MaxInstalls = 2
    MaxFlakes = 1
    MaxWishes = 1
SPECIFICATION RegistrySpec
INVARIANTS
    ChoiceKept
    MovedStaysOut
    MirrorsLastSync
PROPERTIES
    Tracks
    HealsWithNextSync
CHECK_DEADLOCK FALSE
