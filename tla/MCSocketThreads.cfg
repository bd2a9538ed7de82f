SPECIFICATION ThreadsSpec
CONSTANTS
    ann = ann
    ben = ben
    Key = {ann}
    ID = {1, 2}
    Hold = 1
    MaxTime = 4
PROPERTIES
    OldMeansFiveSeconds
