------------------------------- MODULE Scopes -------------------------------
(***************************************************************************)
(* Intent-lock scopes.  A scope item is a repository path; an item written *)
(* with a trailing slash stands for the whole directory.  A path is the    *)
(* sequence of its components; the blank item is the directory <<>>, which *)
(* covers everything, as the code's early return says.                     *)
(***************************************************************************)
EXTENDS SequencesExt

Item(path, dir) == [path |-> path, dir |-> dir]
Blank == Item(<<>>, TRUE)

\* coordination/intent_locks.py and coordination/scope_changes.py hold the same
\* helper: equal items overlap, and a directory overlaps whatever it is a
\* proper prefix of ("src/" covers "src/a.py" but not the file "src").
ItemsOverlap(a, b) ==
  \/ a = b
  \/ a.dir /\ IsStrictPrefix(a.path, b.path)
  \/ b.dir /\ IsStrictPrefix(b.path, a.path)

\* Two locks overlap; a lock with no in-scope item claims everything.
ScopesOverlap(left, right) ==
  \/ left = {}
  \/ right = {}
  \/ \E a \in left, b \in right : ItemsOverlap(a, b)

\* check_intent_lock_coordination, for two runs that both carry a lock: they
\* conflict when their tasks belong to one project and their scopes overlap.
LocksConflict(a, b) == a.project = b.project /\ ScopesOverlap(a.inScope, b.inScope)

\* The discovered items a lock does not allow: those its out_of_scope list
\* touches and, when it names an in_scope at all, those that list misses.
OutsideScope(lock, discovered) ==
  {item \in discovered \ {Blank} :
     \/ \E o \in lock.outOfScope : ItemsOverlap(item, o)
     \/ /\ lock.inScope # {}
        /\ ~ \E i \in lock.inScope : ItemsOverlap(item, i)}
=============================================================================
