CONSTANTS
    forge = forge
    prime = prime
    new = new
    createShell = createShell
    createFlag = createFlag
    own = own
    flagCreate = flagCreate
    apiGet = apiGet
    Shells = {forge, prime, new}
    Skills = {createShell, createFlag, own}
    Tools = {flagCreate, apiGet}
    Forge = forge
    ExpPrime = prime
    Shipped = {createShell, createFlag}
    ForgeSkills = {createShell}
    Requires <- MCRequires
SPECIFICATION Spec
INVARIANTS
    SkillsBringTools
CHECK_DEADLOCK FALSE
