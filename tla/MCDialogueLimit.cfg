SPECIFICATION Spec
CONSTANTS
    cleaning = cleaning
    repair = repair
    installing = installing
    monday = monday
    noon = noon
    morning = morning
    home = home
    easy = easy
    hard = hard
    low = low
    brand = brand
    device = device
    some = some
    noFact = noFact
    Services <- CareServices
    Kind <- CareKind
    Asks <- CareAsks
    Contents <- CareContents
    Days = {monday}
    Hours = {noon}
    NoFact = noFact
    Sayable = {"property"}
    OldButtons = {"access"}
    MaxSurprises = 1
    MaxBookings = 1
PROPERTY LimitIsKept
CHECK_DEADLOCK FALSE
