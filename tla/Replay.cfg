SPECIFICATION Spec
CONSTANTS
    open = open
    search = search
    pay = pay
    back = back
    home = home
    detail = detail
    offline = offline
    noScreen = noScreen
    unseen = unseen
    Intents = {open, search, pay, back}
    Risky = {pay}
    Unsafe = {back}
    Identified = {open, pay}
    Launching = {back}
    Texted = {search}
    Views <- MCViews
    Canned = unseen
    Screen <- MCScreen
    Phase <- MCPhase
    Readiness <- MCReadiness
    RiskyScreens = {"checkout"}
    NoScreen = noScreen
    MaxHistory = 3
    MaxListed = 3
    MaxSteps = 2
INVARIANTS TypeOK ReplaysOnlySafe ReportsAreTrue
