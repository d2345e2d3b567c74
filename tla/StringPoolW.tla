----------------------------- MODULE StringPoolW -----------------------------
(***************************************************************************)
(* StringPoolW.cpp: the string pool for wide characters.  Its functions    *)
(* are those of StringPoolS.cpp with wchar_t for char; two of them have    *)
(* another name.                                                           *)
(***************************************************************************)
EXTENDS StringPoolS

ResizeBuf(m, newsize) == ReserveBuf(m, newsize)
ResizeNum(m, newsize) == ReserveNum(m, newsize)

SetW(i, s) == Set(i, s)
ConcatenateW(i, s) == Concatenate(i, s)
ConcatenateFromW(i, j) == ConcatenateFrom(i, j)
SetToSubstringW(i, j, start, len) == SetFrom(i, j, start, len)
GetW(i) == Read(i)
SetCharW(i, k, c) == SetChar(i, k, c)
ClearW == Clear

Resize == /\ \/ Becomes(ResizeBuf(pool, 0))
             \/ Becomes(ResizeNum(pool, MaxNum))
          /\ Done(Call("Reserve", 0, <<>>))

NextW == /\ status = "running"
         /\ \/ \E i \in Slots(MaxNum) :
                  \/ \E s \in Strings : SetW(i, s) \/ ConcatenateW(i, s)
                  \/ \E j \in Slots(MaxNum) : ConcatenateFromW(i, j)
                  \/ \E j \in Slots(MaxNum), start, len \in 0 .. MaxLen :
                        SetToSubstringW(i, j, start, len)
                  \/ \E k \in 0 .. MaxLen, c \in Chars : SetCharW(i, k, c)
                  \/ GetW(i)
            \/ ClearW
            \/ Resize

SpecW == Init /\ [][NextW]_vars

=============================================================================
