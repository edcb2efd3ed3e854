------------------------------- MODULE Config -------------------------------
(***************************************************************************)
(* The configuration of libs/config: the defaults, the current one that    *)
(* defineConfig merges into and resetConfig gives up, and the copy a       *)
(* ConfigService takes when it is made.  They share objects, so an object  *)
(* has an identity here: heap[o] is the object o, a function of its keys.  *)
(* A string, an array or a class is a setting and is assigned as it is.    *)
(*                                                                         *)
(* defineConfig awaits what it has merged before it makes it the current   *)
(* one: calls that are made together merge into the same configuration.    *)
(***************************************************************************)
EXTENDS Naturals, Functions, FiniteSetsExt, SequencesExt

CONSTANTS
  Sections,  \* the keys whose values are objects; all other keys are settings
  Defaults,  \* defaultConfiguration, as a tree of sections
  Provided,  \* the trees that callers pass to defineConfig
  Unset,     \* undefined, as a value in one of these trees
  MaxDefines, \* bound: the calls of defineConfig
  Vacant     \* '', which isEmpty takes for nothing

VARIABLES
  heap,      \* the objects that somebody still holds
  current,   \* currentAppConfig
  calls,     \* how often defineConfig was called
  merged,    \* results that calls of defineConfig await, the oldest first
  service    \* the config of the ConfigService, or 0 before it is made

cfgVars == <<heap, current, calls, merged, service>>

-----------------------------------------------------------------------------
Assign(object, key, value) == (key :> value) @@ object
Without(object, key) == Restrict(object, DOMAIN object \ {key})
SectionsOf(object) == DOMAIN object \cap Sections

\* A new object: its name, and the heap with it.
Make(h, object) ==
  LET n == CHOOSE n \in 1 .. Cardinality(DOMAIN h) + 1 : n \notin DOMAIN h
  IN [heap |-> (n :> object) @@ h, made |-> n]

IsEmpty(object) == \A k \in DOMAIN object : k \notin Sections /\ object[k] = Vacant

CopyOfTheRoot(h, o) == Make(h, h[o])

\* An object with nothing in it is not copied: the clone holds the same one.
RECURSIVE DeepClone(_, _)
DeepClone(h, o) ==
  IF IsEmpty(h[o]) THEN [heap |-> h, made |-> o]
  ELSE LET copied == FoldSet(
             LAMBDA k, acc : LET c == DeepClone(acc.heap, h[o][k])
                             IN [heap |-> c.heap, object |-> Assign(acc.object, k, c.made)],
             [heap |-> h, object |-> h[o]], SectionsOf(h[o]))
       IN Make(copied.heap, copied.object)

\* The heap once source has been written into o and the sections below it.
RECURSIVE DeepMerge(_, _, _)
DeepMerge(h, o, source) ==
  FoldSet(
    LAMBDA k, acc :
      IF source[k] = Unset THEN [acc EXCEPT ![o] = Without(@, k)]
      ELSE IF k \notin Sections THEN [acc EXCEPT ![o] = Assign(@, k, source[k])]
      ELSE LET new == Make(acc, <<>>)
               there == IF k \in DOMAIN acc[o] THEN acc
                        ELSE [new.heap EXCEPT ![o] = Assign(@, k, new.made)]
           IN DeepMerge(there, there[o][k], source[k]),
    h, DOMAIN source)

DefaultConfiguration == 1

RECURSIVE Below(_, _)
Below(h, o) == {o} \cup UNION {Below(h, h[o][k]) : k \in SectionsOf(h[o])}

\* The objects of h that one of the roots holds.
Held(h, roots) == Restrict(h, UNION {Below(h, r) : r \in roots \ {0}})

CfgInit ==
  LET defaults == DeepMerge(1 :> <<>>, DefaultConfiguration, Defaults)
      copy == CopyOfTheRoot(defaults, DefaultConfiguration)
  IN /\ heap = copy.heap
     /\ current = copy.made
     /\ calls = 0
     /\ merged = <<>>
     /\ service = 0

DefineConfig(source) ==
  /\ calls < MaxDefines
  /\ calls' = calls + 1
  /\ LET clone == DeepClone(heap, current) IN
     /\ heap' = DeepMerge(clone.heap, clone.made, source)
     /\ merged' = Append(merged, clone.made)
  /\ UNCHANGED <<current, service>>

\* The await of the oldest call is over.
ConfigDefined ==
  /\ merged # <<>>
  /\ current' = Head(merged)
  /\ merged' = Tail(merged)
  /\ heap' = Held(heap, {DefaultConfiguration, current', service} \cup Range(merged'))
  /\ UNCHANGED <<calls, service>>

ResetConfig ==
  LET copy == CopyOfTheRoot(heap, DefaultConfiguration) IN
  /\ current' = copy.made
  /\ heap' = Held(copy.heap, {DefaultConfiguration, current', service} \cup Range(merged))
  /\ UNCHANGED <<calls, merged, service>>

\* The constructor of ConfigService keeps what getConfig gives it.
ConfigServiceMade ==
  /\ service = 0
  /\ LET copy == CopyOfTheRoot(heap, current) IN heap' = copy.heap /\ service' = copy.made
  /\ UNCHANGED <<calls, current, merged>>

CfgNext ==
  \/ \E source \in Provided : DefineConfig(source)
  \/ ConfigDefined \/ ResetConfig \/ ConfigServiceMade

CfgSpec == CfgInit /\ [][CfgNext]_cfgVars

-----------------------------------------------------------------------------
\* The configuration that begins at o, whatever objects it is made of.
RECURSIVE Tree(_, _)
Tree(h, o) == [k \in DOMAIN h[o] |-> IF k \in Sections THEN Tree(h, h[o][k]) ELSE h[o][k]]

\* tree where source says nothing, and source where it does.
RECURSIVE Overlay(_, _)
Overlay(tree, source) ==
  LET unset == {k \in DOMAIN source : source[k] = Unset}
      below(k) == IF k \in DOMAIN tree THEN tree[k] ELSE <<>>
  IN [k \in (DOMAIN tree \cup DOMAIN source) \ unset |->
        IF k \notin DOMAIN source THEN tree[k]
        ELSE IF k \in Sections THEN Overlay(below(k), source[k]) ELSE source[k]]

\* What defineConfig makes is the configuration there was, overlaid with what
\* it was given, however deep; and whoever holds another configuration (the
\* defaults, a service, a call in flight) keeps every object with something
\* in it as it is (deep-merge.ts:23-57, deep-clone.ts:13-41).
MergesACopy ==
  [][\A source \in Provided :
       DefineConfig(source) =>
         /\ Tree(heap', Last(merged')) = Overlay(Tree(heap, current), source)
         /\ \A o \in DOMAIN heap : ~IsEmpty(heap[o]) => heap'[o] = heap[o]]_cfgVars
=============================================================================
