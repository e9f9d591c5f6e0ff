SPECIFICATION Spec
CONSTANTS
    cleaning = cleaning
    repair = repair
    installing = installing
    monday = monday
    noon = noon
    morning = morning
    home = home
    easy = easy
    hard = hard
    low = low
    brand = brand
    device = device
    some = some
    noFact = noFact
    Services <- CareServices
    Kind <- CareKind
    Asks <- CareAsks
    Contents <- CareContents
    Days = {monday}
    Hours = {noon}
    NoFact = noFact
    Sayable = {"property", "attendee"}
    OldButtons = {"access", "date"}
    MaxSurprises = 1
    MaxBookings = 1
INVARIANTS TypeOK SlotFitsPlan
PROPERTIES NothingIsSkipped BookedAsShown IntakeMovesForward
CHECK_DEADLOCK FALSE
