\* Every widget, with two or three of what it handles.
CONSTANTS
    Pages <- AnyPage
    MaxPending = 4
    Overflows = TRUE
    MaxShows = 3
    Count = 3
    Wraps = TRUE
    HasInterval = TRUE
    MaxClicks = 4
    Panels = {1, 2, 3}
    LoadedOpen = {{}, {2}}
    Triggers <- AnyTrigger
    Delays = {TRUE, FALSE}
    Tabs = {1, 2, 3}
SPECIFICATION Spec
INVARIANTS TypeOK ModalSettles OneItemShown OnePanelOpen PanelsSettle
           NoTipLeftBehind ActiveTabHasItsPane ToldOnceClosed
PROPERTIES PausedStaysPut EveryJumpIsMade
CHECK_DEADLOCK FALSE
