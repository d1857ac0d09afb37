-------------------------- MODULE MCHumanDecisions --------------------------
(***************************************************************************)
(* An instance of HumanDecisions: a task locked to docs/ whose last step   *)
(* needs a file of docs/ and a file of src/.                               *)
(***************************************************************************)
EXTENDS HumanDecisions, TLC

S == INSTANCE Scopes

docs  == S!Item(<<"docs">>, TRUE)
guide == S!Item(<<"docs", "guide.md">>, FALSE)
main  == S!Item(<<"src", "main.py">>, FALSE)

MCItems == {docs, guide, main}
MCOverlaps == {p \in MCItems \X MCItems : S!ItemsOverlap(p[1], p[2])}
MCInScope == {docs}
MCDiscovered == [s \in Steps |-> IF s = NSteps THEN {guide, main} ELSE {guide}]
MCNoBudget == NoBudget

\* OutsideOf with the abstract overlap relation is Scopes!OutsideScope.
ASSUME
  \A granted \in SUBSET MCItems, found \in SUBSET MCItems, out \in SUBSET {guide, main} :
    S!OutsideScope([inScope |-> MCInScope \cup granted, outOfScope |-> out], found)
      = {i \in found :
           \/ \E o \in out : <<i, o>> \in MCOverlaps
           \/ ~\E a \in MCInScope \cup granted : <<i, a>> \in MCOverlaps}

ASSUME NothingOutOfScope

OpSymm == Permutations(Ops)
=============================================================================
