SPECIFICATION FairSpec
CONSTANTS
    Mortals = {m1}
    GOD = GOD
    Things = {t1}
    NOTHING = NOTHING
    A_SEMAPHORE = 1
    Attrs = {1}
    QueueQuota = 1
    WaitCost = 2
    Surcharges = {1}
    Purse = 7
    Actors = {m1, t1}
    Causes = {t1}
    Happens <- Ordinary
    Start = 2
    MaxNow = 3
    MaxWait = 1
    MaxAdded = 2
    MaxCredit = 1
INVARIANTS QuotaRespected NoFreeMoney RunningAtHead
PROPERTY EventuallyDrained
