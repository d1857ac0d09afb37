------------------------------ MODULE AuditLog ------------------------------
(***************************************************************************)
(* What the receipt chain promises its readers: a hash that some receipt   *)
(* once had can always be found again, so that a link to it still          *)
(* verifies.  The one exception the store has is two processes that put    *)
(* the same receipt id at the same time: that may lose hashes, and from    *)
(* then on nothing is promised.                                            *)
(***************************************************************************)
EXTENDS Naturals

CONSTANT Hashes  \* hashes of receipt versions

VARIABLES
  known,  \* the hashes that can be found in the store
  raced   \* whether a version was replaced that its writer had not read

Init ==
  /\ known = {}
  /\ raced = FALSE

Record ==
  /\ \E h \in Hashes \ known : known' = known \cup {h}
  /\ UNCHANGED raced

Race ==
  /\ known' \in SUBSET Hashes
  /\ raced' = TRUE

Next == Record \/ Race

Spec == Init /\ [][Next]_<<known, raced>>
=============================================================================
