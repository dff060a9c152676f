SPECIFICATION Spec
CONSTANTS
    Mortals = {m1}
    GOD = GOD
    Things = {t1}
    NOTHING = NOTHING
    A_SEMAPHORE = 1
    Attrs = {1}
    QueueQuota = 1
    WaitCost = 2
    Surcharges = {1}
    Purse = 7
    Actors = {t1}
    Causes = {t1}
    Happens <- Managed
    Start = 2
    MaxNow = 5
    MaxWait = 3
    MaxAdded = 2
    MaxCredit = 1
INVARIANTS SemaphoreCovers WaitSorted NoOversleep
