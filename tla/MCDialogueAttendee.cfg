SPECIFICATION Spec
CONSTANTS
    cleaning = cleaning
    repair = repair
    installing = installing
    monday = monday
    noon = noon
    morning = morning
    home = home
    easy = easy
    hard = hard
    low = low
    brand = brand
    device = device
    some = some
    noFact = noFact
    Services <- RepairServices
    Kind <- RepairKind
    Asks <- RepairAsks
    Contents <- RepairContents
    Days = {monday}
    Hours = {noon}
    NoFact = noFact
    Sayable = {"attendee"}
    OldButtons = {}
    MaxSurprises = 1
    MaxBookings = 0
INVARIANT SettledBeforeConfirming
CHECK_DEADLOCK FALSE
