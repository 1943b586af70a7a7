----------------------------- MODULE ProjectsMC -----------------------------
(***************************************************************************)
(* Small sets of configuration files for Projects.                         *)
(***************************************************************************)
EXTENDS Projects

\* The files that name one chain of objects, with any of their groups.
Chain(p, e, t) ==
  {[project |-> IF "p" \in G THEN p ELSE None,
    engine  |-> IF "e" \in G THEN <<p, e>> ELSE None,
    task    |-> IF "t" \in G THEN <<p, e, t>> ELSE None] : G \in SUBSET {"p", "e", "t"}}

\* Page scan projects use slide and cslide, region scan projects use damon.
FittingFiles ==
  Chain("p1", "slide", "t1") \cup Chain("p1", "slide", "t2") \cup
  Chain("p1", "cslide", "t1") \cup Chain("r1", "damon", "t1")

Groups(f) == {g \in {"project", "engine", "task"} : f[g] # None}

\* Files of one group or of all three, with damon also in a page scan project
\* and slide also in a region scan project.
MixedFiles ==
  {f \in Chain("p1", "slide", "t1") \cup Chain("r1", "damon", "t1") :
     Cardinality(Groups(f)) \in {1, 3}} \cup
  {f \in Chain("p1", "slide", "t2") : Groups(f) = {"task"}} \cup
  {f \in Chain("p1", "damon", "t1") \cup Chain("r1", "slide", "t1") :
     Groups(f) = {"engine"}}
=============================================================================
