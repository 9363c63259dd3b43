SPECIFICATION FairSpec
CONSTANTS
    Companies = {1, 2, 3}
    Workers = {0, 1}
    Rich = {"api", "sitemap", "static", "url_param", "page", "link", "mixed"}
    Blocked <- Blocklisted
    Offers <- Sites
    Liked = {3}
    Limit = 2
    Threshold = 2
    Window = 2
    MaxKills = 1
INVARIANTS Inv
 
CHECK_DEADLOCK FALSE
