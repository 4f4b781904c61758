CONSTANTS
    Savers = {s1, s2}
    MaxConfig = 2
    MaxSaves = 3
    MaxFaults = 1
    Hosts = {"jira", "trello", "monday", "asana", "mailchimp", "zendesk", "calendly",
             "calcom", "acuity", "woocommerce", "sendgrid", "awx", "stripe", "shopify",
             "apollo", "freshsales", "heygen", "typeform", "quickbooks", "xero", "git",
             "intercom", "jotform", "surveymonkey"}
    Overlapping = {"awx", "calendly"}
SPECIFICATION Spec
INVARIANTS
    TypeOK
    OneRun
    SavedIsHeard
    NothingForgotten
SYMMETRY Symmetry
CHECK_DEADLOCK FALSE
