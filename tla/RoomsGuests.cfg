\* Two clients, one private room.
SPECIFICATION GuestSpec
CONSTANTS
    Clients = {a, b}
    MaxRoom = 1
    Entities = 1
    EntitiesPerTick = 1
    OneGameType = FALSE
    SvLock = TRUE
    SvInvite = TRUE
PROPERTY GuestsWereInvited
