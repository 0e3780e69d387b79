\* Up to two keys wait; the host's clock is set back by up to two seconds.
CONSTANTS
    g_passengerAlarmPeriodSeconds = 2
    MaxStepBack = 2
    MaxNudge = 1
    MaxWaiting = 1
SPECIFICATION FairSpec
INVARIANTS OnlyColdStartIsUntold
PROPERTIES KeepsTicking AlarmKeepsFlipping QuitIsObeyed
