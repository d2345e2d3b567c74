----------------------------- MODULE SortedList -----------------------------
(***************************************************************************)
(* SortedList.cpp: at most MAXSIZE objects in the order of their operator  *)
(* <, found by binary search.  A call that searches is a sequence of       *)
(* steps, one for each turn of the loop; nothing else runs between them.   *)
(* The argument is a reference: it may be a record of the list, which      *)
(* memmove then shifts before Put copies it.                               *)
(***************************************************************************)
EXTENDS Containers, FiniteSets

VARIABLES list, num,
          op,       \* the call under way, or "none"
          x,        \* its argument
          at,       \* the slot of the list that x is a reference to, or Elsewhere
          a, b,     \* the search interval: a .. b - 1
          result    \* what the last call returned (true and false are 1 and 0)

vars == <<list, num, op, x, at, a, b, result>>

Less(y, z) == Key[y] < Key[z]

Elsewhere == MAXSIZE

Init == /\ list = [s \in Slots(MAXSIZE) |-> Junk] /\ num = 0
        /\ op = "none" /\ x = Zero /\ at = Elsewhere
        /\ a = 0 /\ b = 0
        /\ result = <<>>

Return(value) == op' = "none" /\ at' = Elsewhere /\ result' = value

-----------------------------------------------------------------------------
\* Mutant: the last record is left out of the search.
Search_Short(o, y, p) == /\ op = "none"
                         /\ op' = o /\ x' = y /\ at' = p
                         /\ a' = 0 /\ b' = (IF num = 0 THEN 0 ELSE num - 1)
                         /\ UNCHANGED <<list, num, result>>

\* Search(y) on behalf of the call o, where p says whether y is a record.
Search(o, y, p) == /\ op = "none"
                   /\ op' = o /\ x' = y /\ at' = p
                   /\ a' = 0 /\ b' = num
                   /\ UNCHANGED <<list, num, result>>

\* Mutant: the middle is excluded also when it may be the answer.
Halve_Short ==
    LET c == (a + b) \div 2
    IN  /\ op # "none"
        /\ a < b
        /\ IF Less(list[c], x) THEN a' = c + 1 /\ UNCHANGED b
                               ELSE b' = (IF c = 0 THEN 0 ELSE c - 1) /\ UNCHANGED a
        /\ UNCHANGED <<list, num, op, x, at, result>>

Halve == LET c == (a + b) \div 2
         IN  /\ op # "none"
             /\ a < b
             /\ IF Less(list[c], x) THEN a' = c + 1 /\ UNCHANGED b
                                    ELSE b' = c /\ UNCHANGED a
             /\ UNCHANGED <<list, num, op, x, at, result>>

ListFull(y) == /\ op = "none"
               /\ num >= MAXSIZE
               /\ result' = <<0>>
               /\ UNCHANGED <<list, num, op, x, at, a, b>>

\* What the reference reads after memmove: a record from a up has moved, and the
\* one before it stands in its place (but for a's own, which is still there too).
Shifted == IF at # Elsewhere /\ at > a THEN list[at - 1] ELSE x

\* Mutant: the records are moved from the first one up.
Insert_Up == /\ list' = [s \in Slots(MAXSIZE) |->
                            IF s = a THEN Shifted
                            ELSE IF a < s /\ s <= num THEN list[a] ELSE list[s]]
             /\ num' = num + 1
             /\ Return(<<1>>)
             /\ UNCHANGED <<x, a, b>>

\* Make room at a and copy what x refers to into it.
Insert == /\ list' = [s \in Slots(MAXSIZE) |->
                         IF s = a THEN Shifted
                         ELSE IF a < s /\ s <= num THEN list[s - 1] ELSE list[s]]
          /\ num' = num + 1
          /\ Return(<<1>>)
          /\ UNCHANGED <<x, a, b>>

\* The record at a is not bigger than x: they are equal.
Found == a < num /\ ~Less(x, list[a])

Put(y, p) == ListFull(y) \/ (num < MAXSIZE /\ Search("Put", y, p))
PutUnique(y, p) == ListFull(y) \/ (num < MAXSIZE /\ Search("PutUnique", y, p))
Exists(y, p) == Search("Exists", y, p)

PutEnds == op = "Put" /\ a >= b /\ Insert

PutUniqueEnds == /\ op = "PutUnique" /\ a >= b
                 /\ \/ Found /\ Return(<<1>>) /\ UNCHANGED <<list, num, x, a, b>>
                    \/ ~Found /\ Insert

ExistsEnds == /\ op = "Exists" /\ a >= b
              /\ Return(IF a >= num \/ Less(x, list[a]) THEN <<0>> ELSE <<1, a>>)
              /\ UNCHANGED <<list, num, x, a, b>>

Remove(i) == /\ op = "none"
             /\ \/ i >= num /\ UNCHANGED <<list, num>>
                \/ /\ i < num
                   /\ list' = [s \in Slots(MAXSIZE) |->
                                  IF i <= s /\ s < num - 1 THEN list[s + 1] ELSE list[s]]
                   /\ num' = num - 1
             /\ result' = <<>>
             /\ UNCHANGED <<op, x, at, a, b>>

\* Arguments: an object of the caller, or operator[](p).
Passed(y, p) == p # Elsewhere => y = list[p]

Next == \/ \E y \in OBJTYPE, p \in Slots(num) \cup {Elsewhere} :
              Passed(y, p) /\ (Put(y, p) \/ PutUnique(y, p) \/ Exists(y, p))
        \/ Halve
        \/ PutEnds \/ PutUniqueEnds \/ ExistsEnds
        \/ \E i \in Slots(MAXSIZE) : Remove(i)

Spec == Init /\ [][Next]_vars

-----------------------------------------------------------------------------
TypeOK == /\ list \in [Slots(MAXSIZE) -> Cell]
          /\ num \in 0 .. MAXSIZE
          /\ op \in {"none", "Put", "PutUnique", "Exists"}
          /\ x \in OBJTYPE /\ at \in Slots(num) \cup {Elsewhere}
          /\ a \in 0 .. MAXSIZE /\ b \in 0 .. MAXSIZE

\* The records are objects, in their order, after any sequence of calls.
Sorted == /\ \A s \in Slots(num) : list[s] \in OBJTYPE
          /\ \A s, t \in Slots(num) : s < t => Key[list[s]] <= Key[list[t]]

\* The binary search leaves behind what is smaller than x and ahead what is
\* not: when it ends, a is the first entry that is not smaller than x.
LowerBound == op # "none" =>
    /\ a <= b /\ b <= num
    /\ \A s \in Slots(a) : Less(list[s], x)
    /\ \A s \in b .. num - 1 : ~Less(list[s], x)

\* How many records are the object y.
Count(y) == Cardinality({s \in Slots(num) : list[s] = y})
AnyEqual == \E s \in Slots(num) : Key[list[s]] = Key[x]
Adds(z) == \A y \in OBJTYPE : Count(y)' = Count(y) + (IF y = z THEN 1 ELSE 0)
Keeps == \A y \in OBJTYPE : Count(y)' = Count(y)

\* The record that Put adds: its argument, but for a record of the list itself
\* that has an equal one before it.  Then that one is stored once more.
Stored == IF at # Elsewhere /\ at > 0 /\ Key[list[at - 1]] = Key[x] THEN list[at - 1] ELSE x

\* A call does what it returns: Put adds one record and loses none, and that is
\* its argument but for the case in Stored; PutUnique adds its argument exactly
\* if no record is equal, Exists tells whether one is and where the first is, and
\* Remove takes one record or nothing.
CallsAreRight ==
    [][/\ op = "Put" /\ op' = "none" => Adds(Stored)
       /\ op = "PutUnique" /\ op' = "none" => IF AnyEqual THEN Keeps ELSE Adds(x)
       /\ op = "Exists" /\ op' = "none" =>
             /\ Keeps
             /\ (result' # <<0>>) <=> AnyEqual
             /\ AnyEqual => \A s \in Slots(num) :
                   Key[list[s]] = Key[x] => result'[2] <= s
       /\ op = "none" /\ op' = "none" /\ num' # num =>
             \E z \in OBJTYPE : \A y \in OBJTYPE :
                 Count(y)' = Count(y) - (IF y = z THEN 1 ELSE 0)]_vars

=============================================================================
