SPECIFICATION Spec
CONSTANTS
    cleaning = cleaning
    repair = repair
    installing = installing
    monday = monday
    noon = noon
    morning = morning
    home = home
    easy = easy
    hard = hard
    low = low
    brand = brand
    device = device
    some = some
    noFact = noFact
    Services <- InstallServices
    Kind <- InstallKind
    Asks <- InstallAsks
    Contents <- InstallContents
    Days = {monday}
    Hours = {noon}
    NoFact = noFact
    Sayable = {"property"}
    OldButtons = {"mode", "property"}
    MaxSurprises = 1
    MaxBookings = 0
PROPERTY ChosenDeviceIsKept
CHECK_DEADLOCK FALSE
