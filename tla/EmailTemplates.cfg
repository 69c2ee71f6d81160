SPECIFICATION FairSpec
CONSTANTS
    t1 = t1
    t2 = t2
    system = system
    other = other
    Templates = {t1, t2}
    Titles <- MCTitles
    Slugs <- MCSlugs
    Slugify <- MCSlugify
    Seed <- MCSeed
    Accounts = {a1}
    Requests = {r1, r2}
    NoTitle = NoTitle
    NoSlug = NoSlug
INVARIANTS TypeOK DefaultsKept AccountsMailed
PROPERTIES MailAdvances MailSettles
