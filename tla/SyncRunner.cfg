SPECIFICATION Spec
CONSTANTS
    MaxConnects = 1
    Budgets <- SomeBudgets
    Rates <- EveryRate
INVARIANTS RunningIsHeld SecretIsTheAccounts
PROPERTIES ParksAreKept AskedIsTried InFlightIsTried
