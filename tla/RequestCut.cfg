\* Requests of every shape, cut off anywhere or spoiled anywhere.
SPECIFICATION RequestSpec
CONSTANTS
    Requests <- MCRequests
    Spoilers = {"ctl", "space", "tab", "cr", ":"}
INVARIANTS BackIsThere KeepsABeginning GoodWhenTheHeadIs
