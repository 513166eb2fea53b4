CONSTANTS
    pin = pin
    pout = pout
    pphi = pphi
    preg = preg
    proot = proot
    pgit = pgit
    a1 = a1
    a2 = a2
    none = none
    u1 = u1
    b1 = b1
    b2 = b2
    pctl = pctl
    pprb = pprb
    pnul = pnul
    pown = pown
    plog = plog
    pvar = pvar
    pups = pups
    url1 = url1
    url2 = url2
    url3 = url3
    d1 = d1
    d2 = d2
    d3 = d3
    s1 = s1
    s2 = s2
    Path <- MCPath
    Outside <- MCOutside
    Protected <- MCProtected
    RegistryPath <- MCRegistryPath
    LedgerPath <- MCLedgerPath
    Unscoped <- MCUnscoped
    Surface <- MCSurface
    Url <- MCUrl
    Unresolved <- MCUnresolved
    Control <- MCControl
    Probe <- MCProbe
    Domain <- MCDomain
    NoDomain = none
    DomainOf <- MCDomainOf
    Internal <- MCInternal
    Boundary <- MCBoundary
    GitExec <- MCGitExec
    Climbing <- MCClimbing
    Custom <- MCCustom
    Variable <- MCVariable
    Loopback <- MCLoopback
    PublicBind <- MCPublicBind
    NoGateway = none
    RoadGuarded <- MCRoadGuarded
    Recipe <- MCRecipe
    RecipeEffects <- MCRecipeEffects
    Lane <- MCLane
    Skill <- MCSkill
    PassRoad <- MCPassRoad
    NoManifest = none
    GateQuestion <- MCGateQuestion
    WallQuestion <- MCWallQuestion
    CourtQuestion <- MCCourtQuestion
    Actor <- MCActor
    NoActor = none
    Branch = {b1, b2}
    Registered <- MCRegistered
    User = {u1}
    NoUser = none
    Envelope <- MCEnvelope
    FreezeAfterKills = 2
    BugcheckAfterCritical = 2
    TerminateAfterKills = 2
    TerminateAfterHolds = 3
    TerminateOnCritical = FALSE
    MaxEnvelopes = 6
    MaxTokens = 2
SPECIFICATION MCSpec
INVARIANTS Unanimous DeleteScoped PassedIsWithin DeletesDoNotDrift PassedIsPlain EgressStays DeletesAreOrdinary OpaqueIsVouched RoadsAreWalked TypeOK NoOverrun OneNormalKill
PROPERTIES NeverRelaxed AllowedActorIsFit AllowedBranchIsClean
CHECK_DEADLOCK FALSE
