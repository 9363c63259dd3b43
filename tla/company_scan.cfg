SPECIFICATION MCSpec
CONSTANTS
    c1 = c1  c2 = c2  b1 = b1  b2 = b2  NoBoard = NoBoard b3 = b3
    Companies = {c1, c2}
    Boards = {b1, b2, b3}
    Kind <- Kinds  UrlBoard <- Sites  Guesses <- Names
    Famous = {}  WithUrl = {c1}  Homepages = {c1, c2}  Relevant = {c1}
    Scans = {s1}  Requests = {s1}
    Extensions = TRUE
    DormancyThreshold = 0
INVARIANTS ScanInv
PROPERTIES BoardIsRead
