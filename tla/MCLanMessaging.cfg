CONSTANTS
    ann = ann
    bob = bob
    m1 = m1
    m2 = m2
    Node = {ann, bob}
    Msg = {m1,m2}
    From <- BothWaysFrom
    To <- BothWaysTo
    Attempt = {a1, a2}
    Flaky = {bob}
    MaxCrashes = 1
    MaxBreaks = 1
SPECIFICATION FairSpec
CHECK_DEADLOCK FALSE
INVARIANTS DeliveredIsTrue UnreadNeverOvercounts
PROPERTIES IsMailbox EventuallySettled
