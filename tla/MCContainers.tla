---------------------------- MODULE MCContainers ----------------------------
(***************************************************************************)
(* The container classes and string pools for TLC, side by side: one of    *)
(* them, the subject, chosen at the start, is used; the others stay new.   *)
(***************************************************************************)
EXTENDS SortedList, TLC

CONSTANTS
    Chars,          \* the objects of the classes other than the sorted list
    AlignBy, SizeTX, ElementsPerVector, Addresses,      \* AlignedArray
    Granule, Sizes,                                     \* MixedPool
    NUL, AllocateSpace1, AllocateSpace2,                \* the string pools
    FewChars,       \* the characters of StringPoolW and StringPoolL
    StringsS, StringsW, StringsL, MaxLength, MaxLen, MaxStrings,
    LimitS, LimitW, LimitL,
    Rules           \* the rules that clients of the string pools keep

ASSUME CharsAssumption == Zero \in Chars /\ Chars \subseteq OBJTYPE
ASSUME VectorAssumption == /\ SizeTX \in Nat \ {0} /\ ElementsPerVector \in Nat \ {0}
                           /\ AlignBy \in Nat \ {0}
                           /\ AlignBy % (ElementsPerVector * SizeTX) = 0
                           /\ Addresses \subseteq Nat
ASSUME GranuleAssumption == /\ Granule \in Nat \ {0}
                            /\ Sizes \subseteq Nat /\ 1 \in Sizes
\* No string holds the zero that ends strings.
ASSUME StringsAssumption ==
    /\ NUL \notin Chars \cup FewChars
    /\ StringsS \subseteq Seq(Chars) /\ StringsW \cup StringsL \subseteq Seq(FewChars)
    /\ AllocateSpace1 \in Nat /\ AllocateSpace2 \in Nat
    /\ MaxLength \in Nat /\ MaxLen \in Nat /\ MaxStrings \in Nat

VARIABLES
    subject,
    Buffer, head, tail, MaxNum, NumEntries, qResult, qStatus,       \* DynamicQueue
    fHead, fTail, fN, fList, fResult, fStatus,                      \* FIFOlist
    top, n, stack, sResult, sStatus,                                \* FILOlist
    dBuffer, dMaxNum, dNumEntries, dResult, dStatus,                \* DynamicArray
    bufferU, bufferA, data, allocated, aMaxNum, aNumEntries, aResult, aStatus,
    entries, eResult, eStatus,                                      \* SafeArray
    buffer, BufferSize, mNumEntries, DataSize, mResult, mStatus,    \* MixedPool
    zPool, zCall, zStatus,                                          \* StringPoolS
    wPool, wCall, wStatus,                                          \* StringPoolW
    lPool, lCall, lStatus                                           \* StringPoolL

queueVars == <<Buffer, head, tail, MaxNum, NumEntries, qResult, qStatus>>
listVars  == <<fHead, fTail, fN, fList, fResult, fStatus>>
stackVars == <<top, n, stack, sResult, sStatus>>
arrayVars == <<dBuffer, dMaxNum, dNumEntries, dResult, dStatus>>
alignVars == <<bufferU, bufferA, data, allocated, aMaxNum, aNumEntries, aResult, aStatus>>
safeVars  == <<entries, eResult, eStatus>>
mixedVars == <<buffer, BufferSize, mNumEntries, DataSize, mResult, mStatus>>
zVars     == <<zPool, zCall, zStatus>>
wVars     == <<wPool, wCall, wStatus>>
lVars     == <<lPool, lCall, lStatus>>

-----------------------------------------------------------------------------
\* Two of the objects of the sorted list are equal to operator < and are not
\* the same; two objects, and as many characters, do for the other classes.
MCKey == [y \in OBJTYPE |-> IF y = Zero THEN 0 ELSE 1]
a1 == Zero
b1 == CHOOSE y \in Chars : y # Zero

\* The empty string, one that fits anywhere and one that does not; a string
\* that is longer than the length word can tell.  With two characters a buffer
\* of 8 has to do, with one there is room for two strings at a time to be moved
\* by garbage collection.
MCStringsS == {<<>>, <<a1>>, <<b1, b1>>}
MCStringsW == {<<>>, <<a1>>, <<a1, a1>>}
MCStringsL == MCStringsW \cup {<<a1, a1, a1>>}

\* Where new[] finds memory: every remainder of the alignment.
MCAddresses == 8 .. 11

Queue == INSTANCE DynamicQueue WITH OBJTYPE <- Chars, result <- qResult, status <- qStatus
List  == INSTANCE FIFOlist WITH OBJTYPE <- Chars, head <- fHead, tail <- fTail,
            n <- fN, list <- fList, result <- fResult, status <- fStatus
Stack == INSTANCE FILOlist WITH OBJTYPE <- Chars, list <- stack,
            result <- sResult, status <- sStatus
Array == INSTANCE DynamicArray WITH OBJTYPE <- Chars, Buffer <- dBuffer, MaxNum <- dMaxNum,
            NumEntries <- dNumEntries, result <- dResult, status <- dStatus
Align == INSTANCE AlignedArray WITH OBJTYPE <- Chars, MaxNum <- aMaxNum,
            NumEntries <- aNumEntries, result <- aResult, status <- aStatus
Safe  == INSTANCE SafeArray WITH OBJTYPE <- Chars, a <- entries,
            result <- eResult, status <- eStatus
Mixed == INSTANCE MixedPool WITH OBJTYPE <- Chars, NumEntries <- mNumEntries, result <- mResult,
            status <- mStatus
PoolS == INSTANCE StringPoolS WITH pool <- zPool, call <- zCall, status <- zStatus,
            Strings <- StringsS, MaxNum <- MaxStrings, MemoryLimit <- LimitS
PoolW == INSTANCE StringPoolW WITH pool <- wPool, call <- wCall, status <- wStatus,
            Chars <- FewChars, Strings <- StringsW, MaxNum <- MaxStrings, MemoryLimit <- LimitW
PoolL == INSTANCE StringPoolL WITH pool <- lPool, call <- lCall, status <- lStatus,
            Chars <- FewChars, Strings <- StringsL, MaxNum <- MaxStrings, MemoryLimit <- LimitL

Subjects == {"SortedList", "DynamicQueue", "FIFOlist", "FILOlist", "DynamicArray",
             "AlignedArray", "SafeArray", "MixedPool", "StringPoolS", "StringPoolW",
             "StringPoolL"}

MCInit == /\ subject \in Subjects
          /\ Init
          /\ Queue!Init /\ List!Init
          /\ Stack!Init /\ Array!Init /\ Align!Init /\ Safe!Init /\ Mixed!Init
          /\ PoolS!Init /\ PoolW!Init /\ PoolL!Init

\* Only the variables of s may change.
Only(s) == /\ UNCHANGED subject
           /\ s # "SortedList" => UNCHANGED vars
           /\ s # "DynamicQueue" => UNCHANGED queueVars
           /\ s # "FIFOlist" => UNCHANGED listVars
           /\ s # "FILOlist" => UNCHANGED stackVars
           /\ s # "DynamicArray" => UNCHANGED arrayVars
           /\ s # "AlignedArray" => UNCHANGED alignVars
           /\ s # "SafeArray" => UNCHANGED safeVars
           /\ s # "MixedPool" => UNCHANGED mixedVars
           /\ s # "StringPoolS" => UNCHANGED zVars
           /\ s # "StringPoolW" => UNCHANGED wVars
           /\ s # "StringPoolL" => UNCHANGED lVars

MCNext ==
    \/ subject = "SortedList" /\ Next /\ Only("SortedList")
    \/ subject = "DynamicQueue" /\ Queue!Next /\ Only("DynamicQueue")
    \/ subject = "FIFOlist" /\ List!Next /\ Only("FIFOlist")
    \/ subject = "FILOlist" /\ Stack!Next /\ Only("FILOlist")
    \/ subject = "DynamicArray" /\ Array!Next /\ Only("DynamicArray")
    \/ subject = "AlignedArray" /\ Align!Next /\ Only("AlignedArray")
    \/ subject = "SafeArray" /\ Safe!Next /\ Only("SafeArray")
    \/ subject = "MixedPool" /\ Mixed!Next /\ Only("MixedPool")
    \/ subject = "StringPoolS" /\ PoolS!Next /\ Only("StringPoolS")
    \/ subject = "StringPoolW" /\ PoolW!NextW /\ Only("StringPoolW")
    \/ subject = "StringPoolL" /\ PoolL!Next /\ Only("StringPoolL")

MCvars == <<subject, vars, queueVars, listVars, stackVars, arrayVars, alignVars,
            safeVars, mixedVars, zVars, wVars, lVars>>

MCSpec == MCInit /\ [][MCNext]_MCvars

\* States that differ in the last call of a string pool only are explored once:
\* no action reads a call, and the properties read it in the step that makes it.
MCView == <<subject, vars, queueVars, listVars, stackVars, arrayVars, alignVars,
            safeVars, mixedVars, zPool, zStatus, wPool, wStatus, lPool, lStatus>>

-----------------------------------------------------------------------------
TypesOK == /\ TypeOK
           /\ Queue!TypeOK /\ List!TypeOK
           /\ Stack!TypeOK /\ Array!TypeOK /\ Align!TypeOK /\ Safe!TypeOK /\ Mixed!TypeOK
           /\ PoolS!TypeOK /\ PoolW!TypeOK /\ PoolL!TypeOK

\* DynamicQueue and FIFOlist are queues: what is got is what was put, in its
\* order (DynamicQueue.cpp 129-217, FIFOlist.cpp 43-66).  The stack, the arrays
\* and the pool of mixed objects are arrays that read back as written and grow
\* with zeroes (FILOlist.cpp 43-60, DynamicArray.cpp 101-228, AlignedArray.cpp
\* 124-207, SafeArray.cpp 43-52, MixedPool.cpp 127-260).  (The abstract
\* specifications, but with the steps of the subject: the others stutter.)
ListsImplement ==
    /\ Queue!Fifo!Init /\ List!Fifo!Init /\ Stack!Stack!Init
    /\ Array!Entries!Init /\ Align!Entries!Init /\ Safe!Entries!Init /\ Mixed!Bytes!Init
    /\ [][CASE subject = "DynamicQueue" -> [Queue!Fifo!Next]_(Queue!Fifo!vars)
            [] subject = "FIFOlist" -> [List!Fifo!Next]_(List!Fifo!vars)
            [] subject = "FILOlist" -> [Stack!Stack!Next]_(Stack!Stack!vars)
            [] subject = "DynamicArray" -> [Array!Entries!Next]_(Array!Entries!vars)
            [] subject = "AlignedArray" -> [Align!Entries!Next]_(Align!Entries!vars)
            [] subject = "SafeArray" -> [Safe!Entries!Next]_(Safe!Entries!vars)
            [] subject = "MixedPool" -> [Mixed!Bytes!Next]_(Mixed!Bytes!vars)
            [] OTHER -> TRUE]_MCvars

\* The string pools are tables of strings, through growth and garbage
\* collection (StringPoolS.cpp 241-502, StringPoolL.cpp 253-544).
PoolsImplement ==
    /\ PoolS!Table!Init /\ PoolW!Table!Init /\ PoolL!Table!Init
    /\ [][CASE subject = "StringPoolS" -> [PoolS!Table!Next]_(PoolS!Table!vars)
            [] subject = "StringPoolW" -> [PoolW!Table!Next]_(PoolW!Table!vars)
            [] subject = "StringPoolL" -> [PoolL!Table!Next]_(PoolL!Table!vars)
            [] OTHER -> TRUE]_MCvars

\* What is accessed without a check lies within its memory: the vectors of an
\* AlignedArray (AlignedArray.cpp 89-98), the data and garbage of the pools,
\* and the end that the length of a string says (StringPoolL.cpp 451-472).
AccessInMemory == /\ Align!VectorsInBuffer
                  /\ PoolS!WithinBuffer /\ PoolW!WithinBuffer /\ PoolL!WithinBuffer
                  /\ PoolL!LengthsMatchZeros

\* StringPoolS.cpp 471, StringPoolW.cpp 438: the string at Top "can grow
\* without overwriting other strings", whatever the others are.
TopGrowsAlone ==
    [][subject = "StringPoolW" /\ wStatus' = "running"
          /\ PoolW!AtTop(wPool, wCall'.i) /\ wCall'.op \in {"Set", "Concatenate"}
        => \A j \in 0 .. wPool.Num - 1 :
              j # wCall'.i => PoolW!Get(wPool', j) = PoolW!Get(wPool, j)]_MCvars

\* StringPoolS.cpp 43-44: "All unused string numbers below the highest used
\* number are set to empty strings": storing a string leaves the numbers empty
\* that read as empty before.
UnusedAreEmpty ==
    [][subject = "StringPoolS" /\ zStatus' = "running" /\ zCall'.op = "Set"
        => \A j \in 0 .. zPool.Num - 1 :
              j # zCall'.i /\ PoolS!Get(zPool, j) = <<>> => PoolS!Get(zPool', j) = <<>>]_MCvars
=============================================================================
