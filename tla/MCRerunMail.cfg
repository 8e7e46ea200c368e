\* Two actions and a single worker are enough for the race of the second mail.
CONSTANTS
    N = 2
    Concurrency = 1
SPECIFICATION MCSpec
INVARIANT
    RerunMailSaysFailed
