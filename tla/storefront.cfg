CONSTANTS
    None = None
    Products = {1, 2, 3}
    Made <- MCMade
    Categories = {"shirts", "shoes", "polo"}
    Brands = {"acme", "other"}
    Variants = {"v"}
    Pages = {"home"}
    ProductRows <- MCProductRows
    VariantRows <- MCVariantRows
    Tiers <- MCTiers
    Zones <- MCZones
    Methods <- MCMethods
    PromoRows <- MCPromos
    Rates = {5, 7}
    Opening <- MCOpening
    Carts <- MCCarts
    Queries <- MCQueries
    PageSize = 2
    Aspects = {"cart", "catalogue", "pages"}
    Editors = {e1, e2}
    MaxEdits = 3
SPECIFICATION StorefrontSpec
INVARIANTS QuoteIsExplained CountsLeadToPages
PROPERTIES StampSurvivesRepublish
CHECK_DEADLOCK FALSE
