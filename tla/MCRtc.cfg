SPECIFICATION Spec
CONSTANTS
    TicksPerSecond = 2
    SecondsPerMinute = 2
    MinutesPerHour = 2
    HoursPerDay = 2
    DaysLow = 2
    Bytes = {0, 1, 3}
    MaxElapsed = 20
PROPERTIES
    ImplementsClock
