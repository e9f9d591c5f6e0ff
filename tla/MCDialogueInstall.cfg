SPECIFICATION Spec
CONSTANTS
    cleaning = cleaning
    repair = repair
    installing = installing
    monday = monday
    noon = noon
    morning = morning
    home = home
    easy = easy
    hard = hard
    low = low
    brand = brand
    device = device
    some = some
    noFact = noFact
    Services <- InstallServices
    Kind <- InstallKind
    Asks <- InstallAsks
    Contents <- InstallContents
    Days = {monday}
    Hours = {noon}
    NoFact = noFact
    Sayable = {"property", "request", "ownership"}
    OldButtons = {"mode", "date"}
    MaxSurprises = 1
    MaxBookings = 0
PROPERTIES NothingIsSkipped
CHECK_DEADLOCK FALSE
