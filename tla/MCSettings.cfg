SPECIFICATION Spec
CONSTANTS
    p = p
    q = q
    r = r
    s = s
    x = x
    y = y
    home = home
    opt = opt
    maybe = maybe
    Process = {p, q}
    Repository = {r, s}
    Package = {x, y}
    None = None
    Unset = Unset
    Scalar <- MCScalar
    Values <- MCValues
    Default <- MCDefault
    Argument <- MCArgument
    Command <- MCCommand
    Offers <- MCOffers
    MaxRuns = 4
SYMMETRY Symmetry
CHECK_DEADLOCK FALSE
INVARIANTS
    TypeOK
    KeysAreIndependent
    RepositoriesKept
    BuildsystemAllowed
PROPERTIES
    InstallSucceeds
