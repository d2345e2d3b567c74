----------------------------- MODULE StringTable -----------------------------
(***************************************************************************)
(* What StringPoolS, StringPoolL and StringPoolW promise: strings found by *)
(* their number, each the one last stored under that number; the unused    *)
(* numbers below the highest used one are empty strings.                   *)
(***************************************************************************)
EXTENDS Integers, Sequences

VARIABLES
    text,           \* text[i + 1] is string number i
    call,           \* what the client last asked for: [op, i, s]
    status          \* "running"; "exited" by an error; "crashed" on a null pointer

vars == <<text, call, status>>

Init == text = <<>> /\ status = "running"

\* The table with s under number i.
With(i, s) == [k \in 1 .. IF i < Len(text) THEN Len(text) ELSE i + 1 |->
                  IF k = i + 1 THEN s
                  ELSE IF k <= Len(text) THEN text[k] ELSE <<>>]

Set(i, s) == text' = With(i, s)

Concatenate(i, s) == i < Len(text) /\ text' = With(i, text[i + 1] \o s)

Clear == text' = [k \in DOMAIN text |-> <<>>]

Next == /\ status = "running"
        /\ \/ /\ UNCHANGED status
              /\ CASE call'.op = "Set" -> Set(call'.i, call'.s)
                   [] call'.op = "Concatenate" -> Concatenate(call'.i, call'.s)
                   [] call'.op = "Clear" -> Clear
                   [] call'.op = "Reserve" -> UNCHANGED text
           \/ status' \in {"exited", "crashed"} /\ UNCHANGED <<text, call>>

Spec == Init /\ [][Next]_vars

=============================================================================
