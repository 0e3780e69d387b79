----------------------------- MODULE NameLookup -----------------------------
(***************************************************************************)
(* LookUpIdName: the binary search that turns an object type or a property *)
(* identifier into its name for the log.  The two tables it is called with *)
(* are constant arrays whose comment says they are sorted by id; here any  *)
(* table is searched that is.  One turn of the while loop is one step.     *)
(***************************************************************************)
EXTENDS Naturals, Sequences

CONSTANTS Tables,  \* the ids of a table's rows, from row 0
          Ids      \* what is looked up

ASSUME NameLookupAssumption ==
    /\ Ids \subseteq Nat
    /\ \A t \in Tables : t \in Seq(Nat) /\ \A i, j \in 1..Len(t) : i < j => t[i] < t[j]

VARIABLES table, id, lo, hi,
          result,  \* "search", what was returned ("name" or "NULL"), or "none" yet
          row      \* the row looked at last

lookUp == <<table, id, lo, hi, result, row>>

-----------------------------------------------------------------------------
count == Len(table)
\* Arrays count from 0.  What lies behind the last row is no row; RowsAreInTable
\* excludes reading it.
Row(i) == IF i < count THEN table[i + 1] ELSE 0

mid == lo + (hi - lo) \div 2

Found ==
    /\ result = "search" /\ lo < hi
    /\ Row(mid) = id
    /\ result' = "name"
    /\ row' = mid
    /\ UNCHANGED <<table, id, lo, hi>>

\* Mutant: the row just looked at stays in the range.
GoRightAgain ==
    /\ result = "search" /\ lo < hi
    /\ Row(mid) < id
    /\ lo' = mid
    /\ row' = mid
    /\ UNCHANGED <<table, id, hi, result>>

GoRight ==
    /\ result = "search" /\ lo < hi
    /\ Row(mid) < id
    /\ lo' = mid + 1
    /\ row' = mid
    /\ UNCHANGED <<table, id, hi, result>>

\* Mutant: hi is taken for the last row of the range.
GoLeftInclusive ==
    /\ result = "search" /\ lo < hi
    /\ Row(mid) > id
    /\ hi' = IF mid > lo THEN mid - 1 ELSE mid
    /\ row' = mid
    /\ UNCHANGED <<table, id, lo, result>>

GoLeft ==
    /\ result = "search" /\ lo < hi
    /\ Row(mid) > id
    /\ hi' = mid
    /\ row' = mid
    /\ UNCHANGED <<table, id, lo, result>>

NotFound ==
    /\ result = "search" /\ ~(lo < hi)
    /\ result' = "NULL"
    /\ UNCHANGED <<table, id, lo, hi, row>>

LookUpInit ==
    /\ table = <<>> /\ id = 0
    /\ lo = 0 /\ hi = 0
    /\ result = "none" /\ row = 0

\* The call: the whole table is searched.
LookUpIdName(t, i) ==
    /\ result # "search"
    /\ table' = t /\ id' = i
    /\ lo' = 0 /\ hi' = Len(t)
    /\ result' = "search" /\ row' = 0

Turn == Found \/ GoRight \/ GoLeft \/ NotFound

LookUpNext == Turn \/ \E t \in Tables, i \in Ids : LookUpIdName(t, i)

LookUpSpec == LookUpInit /\ [][LookUpNext]_lookUp

-----------------------------------------------------------------------------
(***************************************************************************)
(* Properties.                                                             *)
(***************************************************************************)
\* Every variable has its type, and the rows looked at are rows of the table:
\* table[mid] is never read past the end of the array.
RowsAreInTable ==
    /\ table \in Tables \cup {<<>>} /\ id \in Ids \cup {0}
    /\ lo \in 0..count /\ hi \in 0..count
    /\ result \in {"none", "search", "name", "NULL"}
    /\ row \in Nat /\ (count > 0 => row < count)

\* The search returns the name of exactly the id it was asked for, and NULL only
\* if no row of the whole table has that id.
FindsExactlyTheId ==
    /\ result = "name" => row < count /\ Row(row) = id
    /\ result = "NULL" => \A i \in 1..count : table[i] # id
=============================================================================
