SPECIFICATION MCSpec
CONSTANTS
    OBJTYPE = {p, q, r}
    Zero = p
    Junk = Junk
    NUL = NUL
    Key <- MCKey
    Chars = {p, q}
    AlignBy = 4
    SizeTX = 2
    ElementsPerVector = 2
    Addresses <- MCAddresses
    Granule = 2
    Sizes = {0, 1, 2}
    MAXSIZE = 3
    AllocateSpace = 1
    MaxEntries = 3
    AllocateSpace1 = 1
    AllocateSpace2 = 1
    FewChars = {p}
    StringsS <- MCStringsS
    StringsW <- MCStringsW
    StringsL <- MCStringsL
    MaxLength = 2
    MaxLen = 2
    MaxStrings = 2
    LimitS = 8
    LimitW = 12
    LimitL = 13
    Rules = {"grow", "long", "self"}
PROPERTIES
    UnusedAreEmpty
CHECK_DEADLOCK FALSE
