------------------------------ MODULE Conflicts ------------------------------
(***************************************************************************)
(* checkConflicts of the plugin loader: a depth-first search through the   *)
(* dependencies of the registered plugins.  A plugin brings its            *)
(* dependencies with it when it is registered; a dependency may name a     *)
(* plugin that is registered later, or never.                              *)
(***************************************************************************)
EXTENDS SequencesExt

CONSTANTS
  Names,    \* what a plugin or a dependency may be called
  Strangers \* the names no plugin has

VARIABLE catalogue  \* the registered plugins, each with its dependencies

(* bound: a plugin names at most two dependencies *)
Dependencies == {s \in SeqOf(Names, 2) : IsInjective(s)}

ConInit == catalogue = <<>>

GetAll == DOMAIN catalogue

(* register throws when the name is taken. *)
RegisterPlugin(p, deps) ==
  /\ p \notin GetAll
  /\ catalogue' = [q \in GetAll \cup {p} |-> IF q = p THEN deps ELSE catalogue[q]]

UnregisterPlugin(p) ==
  /\ p \in GetAll
  /\ catalogue' = [q \in GetAll \ {p} |-> catalogue[q]]

-----------------------------------------------------------------------------
(* The dependencies of p one after the other, until search finds a cycle;  *)
(* visited is handed on from one to the next.                              *)
EachDependency(p, visited, search) ==
  LET after[n \in 0 .. Len(catalogue[p])] ==
        IF n = 0 THEN [found |-> FALSE, visited |-> visited]
        ELSE IF after[n - 1].found \/ catalogue[p][n] \notin GetAll THEN after[n - 1]
        ELSE search[catalogue[p][n]][after[n - 1].visited]
  IN after[Len(catalogue[p])]

(* checkCircularDependencies of p with the names on the stack.             *)
SearchByVisited(p, stack, visited) ==
  LET from[on \in SUBSET GetAll] == [q \in GetAll |-> [seen \in SUBSET GetAll |->
        IF q \in seen THEN [found |-> TRUE, visited |-> seen]
        ELSE EachDependency(q, seen \cup {q}, from[on \cup {q}])]]
  IN from[stack][p][visited]

Search(p, stack, visited) ==
  LET from[on \in SUBSET GetAll] == [q \in GetAll |-> [seen \in SUBSET GetAll |->
        IF q \in on THEN [found |-> TRUE, visited |-> seen]
        ELSE IF q \in seen THEN [found |-> FALSE, visited |-> seen]
        ELSE EachDependency(q, seen \cup {q}, from[on \cup {q}])]]
  IN from[stack][p][visited]

MissingOf(p) == {d \in Range(catalogue[p]) : d \notin GetAll}

(* An entry for what is missing and one for a cycle, for each plugin.      *)
CheckConflicts ==
  {[plugin |-> p, conflicts |-> MissingOf(p), circular |-> FALSE] :
     p \in {q \in GetAll : MissingOf(q) # {}}}
  \cup
  {[plugin |-> p, conflicts |-> {p}, circular |-> TRUE] :
     p \in {q \in GetAll : catalogue[q] # <<>> /\ Search(q, {}, {}).found}}

ConNext ==
  \E p \in Names \ Strangers :
    (\E deps \in Dependencies : RegisterPlugin(p, deps)) \/ UnregisterPlugin(p)

ConSpec == ConInit /\ [][ConNext]_catalogue

-----------------------------------------------------------------------------
(* What p leads to through registered plugins, by as many dependencies as  *)
(* there are plugins. *)
LeadsTo(p) ==
  LET next(S) == S \cup UNION {Range(catalogue[q]) \cap GetAll : q \in S}
      reached[n \in 0 .. Cardinality(GetAll)] ==
        IF n = 0 THEN Range(catalogue[p]) \cap GetAll ELSE next(reached[n - 1])
  IN reached[Cardinality(GetAll)]

(* checkConflicts reports exactly the dependencies that are not registered *)
(* and the plugins that lead into a cycle: a diamond is no cycle, a plugin *)
(* that is itself on none is reported when its dependencies run into one,  *)
(* and a cycle through a missing plugin is none yet.                       *)
ConflictsExact ==
  /\ \A p \in GetAll, d \in Names :
       d \in Range(catalogue[p]) \ GetAll
         <=> \E e \in CheckConflicts : e.plugin = p /\ ~e.circular /\ d \in e.conflicts
  /\ \A p \in GetAll :
       (\E q \in {p} \cup LeadsTo(p) : q \in LeadsTo(q))
         <=> \E e \in CheckConflicts : e.plugin = p /\ e.circular
=============================================================================
