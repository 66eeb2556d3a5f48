\* Two clients, two rooms beside the lobby, with locks and invitations; ticks go on.
SPECIFICATION LiveSpec
CONSTANTS
    Clients = {a, b}
    MaxRoom = 2
    Entities = 2
    EntitiesPerTick = 1
    OneGameType = TRUE
    SvLock = TRUE
    SvInvite = TRUE
INVARIANTS TypeOK RoomSizes RoomsFollowMembers ControllersKnowMembers
PROPERTIES LobbyStaysReady RoomsSettle
