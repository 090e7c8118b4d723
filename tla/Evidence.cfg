SPECIFICATION Spec
CONSTANTS
    tap = tap
    wait = wait
    launch = launch
    home = home
    detail = detail
    detailMore = detailMore
    loading = loading
    slow = slow
    dialog = dialog
    signin = signin
    offline = offline
    Intents <- MCIntents
    Waits <- MCWaits
    Launches <- MCLaunches
    Texted <- MCTexted
    Views <- MCViews
    Follows <- MCFollows
    Readiness <- MCReadiness
    Drifts <- MCDrifts
    Blocked = {dialog}
    Handoffs = {signin}
    Interrupting = {dialog}
    Canned = unseen
    unseen = unseen
    RuleAttempts <- MCRuleAttempts
INVARIANTS TypeOK NoBlindRepeat RecordsAgree SuccessIsEarned
