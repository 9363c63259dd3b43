\* One folder that is recreated, two overlapping runs, a credential re-set at any time.
SPECIFICATION FairSpec
CONSTANTS
    Boxes = {"b1"}
    Runs = {r1, r2}
    MaxMail = 2
    MaxEpoch = 1
    Validity <- Distinct
    NoBox = NoBox
INVARIANTS NothingSkipped
PROPERTIES MailIsFetched
