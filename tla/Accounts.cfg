SPECIFICATION Spec
CONSTANTS
    Parts = {"staff", "console", "upgrades", "pin", "links", "lists", "sessions", "insights", "deliveries", "allowance"}
    ann = ann
    ben = ben
    eve = eve
    big = big
    cut = cut
    nobody = nobody
    User = {ann, ben}
    Founder = {ann}
    Nobody = nobody
    Editor = {p1, p2}
    Granted = {"USER", "FINANCE", "OWNER"}
    Adj = {big, cut}
    Small = {cut}
    Debit = {cut}
    Of <- OfAdj
    Handler = {h1, h2}
    Upgrade = {1, 2, 3}
    Applicant = {ann, ben}
    From <- FromUpgrade
    Reviewer = {ben, eve}
    Review = {p1, p2}
    Guesser = {p1, p2}
    MaxAttempts = 3
    MaxLost = 1
    ResetLink = {r1, r2}
    VerifyLink = {v1}
    Mailer = {h1, h2}
    DailyLimit = 1
    Rows = 6
    PageSize = 2
    CursorLeaves = FALSE
    Token = {x1, x2}
    NoToken = x0
    Visitor = {p1, p2}
    Life = 2
    MaxTime = 3
    Spend = {x1, x2}
    Asker = {p1, p2}
    MaxRefreshes = 1
    RefreshAttempts = 2
    Hook = {k1}
    Run = {1, 2}
    HookAttempts = 2
    MailAttempts = 2
    MaxDeaths = 2
    Payment = {x1, x2}
    NoPayment = x0
    Amount = {1, 2}
    Tier = {1, 2}
    PerTransaction <- PerTier
    DailyOut <- OutTier
    Days = 1
    Faults = FALSE
INVARIANTS TypeOK GuessesBounded NothingMissed SignOutExact RecordsTrue
PROPERTIES AdjustmentsDecidedOnce TwoPersonRule LastOwnerKept UpgradesDecidedOnce ChangeNotUndone UserChoiceStands AllowanceKept
CONSTRAINTS TwoRequests LoneDeath LoneVisit LoneApplicant
SYMMETRY Symmetry
CHECK_DEADLOCK FALSE
