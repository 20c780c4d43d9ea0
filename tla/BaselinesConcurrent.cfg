\* Three uploads at once, two features, registered meanwhile, and a reader.
CONSTANTS
    None = None
    Unread = Unread
    Uploads = {u1, u2, u3}
    Features = {f1, f2}
    Readers = {r1}
SPECIFICATION UseSpec
INVARIANTS TypeOK UseTypeOK BaselinesComeFromUploads OnlyOverlapsLoseBaselines
    ReportsAreReproducible ReadersFindWhatWasBrought
SYMMETRY UploadSymmetry
CHECK_DEADLOCK FALSE
