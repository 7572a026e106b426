CONSTANTS
    Items <- MCItems
    NoItem = "top"
    Parent <- MCParent
    Order <- MCOrder
    MaxQueue = 2
SPECIFICATION PageSpec
INVARIANTS
    PageTypeOK
    OpenTabsAreStored
    ActiveRemembered
    IdsAreUnique
    PopupNamesTab
    MaskMeansNav
PROPERTY ClickShowsPage
