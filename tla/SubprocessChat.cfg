CONSTANTS
    USER_LIMIT = 2
    MaxWaiting = 1
    MaxInputs = 2
SPECIFICATION Spec
INVARIANTS
    NoOwnText
    AnnouncedTextThere
PROPERTIES
    MessagesForwarded
    LeaverStopsHandler
    HandlersFollowMain
    TermStopsHandlers
CHECK_DEADLOCK FALSE
