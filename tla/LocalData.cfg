SPECIFICATION Spec
CONSTANTS
    Products = {"shoe", "boot"}
    Pictured = {"shoe"}
    None = None
    NotLoaded = NotLoaded
INVARIANTS
    FavoritesAgree
    CartHidesNothing
    FailuresLoseNothing
    CartComesWithDraft
