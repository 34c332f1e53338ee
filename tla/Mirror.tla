------------------------------- MODULE Mirror -------------------------------
(***************************************************************************)
(* What a source of the sync promises of its rows, for a single writer: a  *)
(* row only moves forward along the versions its record has had, and what  *)
(* the cursor claims to have seen is in the rows as it is upstream.        *)
(* "Cursors only advance after success" (docs/DESIGN.md:263) is how.       *)
(***************************************************************************)
EXTENDS Naturals

CONSTANT Keys

VARIABLES latest,  \* latest[k]: the version of record k upstream, 0 if there is none
          rows,    \* rows[k]: the version the row holds, 0 without a row
          claimed  \* the records whose version upstream the cursor claims

vars == <<latest, rows, claimed>>

InStep == {k \in Keys : rows[k] = latest[k]}

Init ==
    /\ latest \in [Keys -> Nat]
    /\ rows = [k \in Keys |-> 0]
    /\ claimed = {}

\* A version that is newer than the cursor.
Change(k) ==
    /\ latest[k] < latest'[k]
    /\ latest' = [latest EXCEPT ![k] = latest'[k]]
    /\ claimed' = claimed \ {k}
    /\ UNCHANGED rows

\* A row catches up, maybe not to the end: the record may have changed since it was read.
Write(k) ==
    /\ rows[k] < rows'[k] /\ rows'[k] <= latest[k]
    /\ rows' = [rows EXCEPT ![k] = rows'[k]]
    /\ UNCHANGED <<latest, claimed>>

\* The cursor is saved, or lost.
Claim ==
    /\ claimed' \subseteq InStep
    /\ UNCHANGED <<latest, rows>>

Next == Claim \/ \E k \in Keys : Change(k) \/ Write(k)

Spec == Init /\ [][Next]_vars
=============================================================================
