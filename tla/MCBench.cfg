CONSTANTS
    ModesTried = {"paced", "waitall", "timer", "listen"}
    AiLevels = {0, 2}
    KeyTime = 2
    MaxSeconds = 11
    MaxFaults = 1
    MaxWaiting = 2
    Freqs = {0, 1}
    ModeNames = {"CW", "USB", "C4FM", "PSK31"}
    MaxShown = 2
    Models = {"TS590", "K4", "FT991", "FTDX10", "IC7300", "IC7000", "TS890", "TS990", "HL-TS450"}
    MaxSent = 2
    MaxKeys = 1
    Lockout = TRUE
    Cases = {"connect", "spot", "qso", "burst", "edit", "disc", "dup", "serial", "time", "hello", "resend", "catchup", "restock"}
    Faults = {"none", "refuses the password", "an id of its own", "no duplicate check", "relays what it holds", "anonymous ids are a key", "a letter in 8260", "takes any id", "keeps the id of a station that left", "replays the first contest", "speaks any protocol", "drops a protocol in silence", "announces a refused station", "echoes a hello", "asks for no hello", "forgets to store", "no confirmation", "frames a spot at 98 bytes", "relays the clock", "frames a time sync wrongly", "appends an edit", "relays a restock", "echoes a QSO", "a reserved serial is given again", "a cap on the messages of a read", "no answer on the sync port"}
    TwoRecords = TRUE
    Lines = TRUE
SPECIFICATION MCSpec
VIEW MCView
INVARIANTS  KeyedForABoundedTime AiLevelComesBack StaleOnlyIfTakenBack SetsReadBack NoFalseAlarm FaultsAreFound RecordsReadBack
