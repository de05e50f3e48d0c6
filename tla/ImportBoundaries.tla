--------------------------- MODULE ImportBoundaries ---------------------------
(***************************************************************************)
(* scripts/check-import-boundaries.mjs, which keeps the layers of the      *)
(* console apart (app -> features -> entities -> shared), and the baseline *)
(* of tolerated violations, while the sources and the baseline change.     *)
(*                                                                         *)
(* A path is the sequence of its segments below src/, without extension    *)
(* (which the check strips before every rule but one that allows it).  How *)
(* the imports are found in the syntax tree is left out.                   *)
(***************************************************************************)
EXTENDS Naturals, Sequences, FiniteSets

CONSTANTS
  SourceFiles,   \* the paths of the files
  ClientFiles,   \* those that begin with "use client"
  ImportedPaths,      \* the paths that may be imported
  Legacy,        \* uses that a project may begin with
  MaxUses        \* bound on the uses in the tree

\* Specifiers; and the one text that browser code must not hold, as if it were one.
Specifiers == [form : {"alias", "relative"}, to : ImportedPaths]
Packages == [form : {"package"}, to : {<<"next/headers">>, <<"server-only">>}]
BackendHost == [form |-> "text", to |-> <<"NEXT_PUBLIC_BACKEND_API_HOST">>]
Uses == [file : SourceFiles, spec : Specifiers \cup Packages \cup {BackendHost}]

ASSUME BoundariesAssumption ==
  /\ ClientFiles \subseteq SourceFiles /\ SourceFiles \cup ImportedPaths \subseteq Seq(STRING)
  /\ Legacy \subseteq Uses /\ IsFiniteSet(Legacy) /\ MaxUses \in Nat

\* A layer is a directory, not a file, and has no index of its own, which the check would
\* not take for a part of it.
ASSUME LayersAreDirectories ==
  \A path \in SourceFiles \cup ImportedPaths :
    /\ path # <<>> /\ \A i \in DOMAIN path : path[i] # ""
    /\ path[1] \in {"shared", "entities", "features", "app"} => Len(path) > 1

VARIABLES
  uses,          \* what the sources import
  baseline,      \* the lines of import-boundary-baseline.txt
  accepted,      \* the violations of the last tree that passed
  verdict,       \* what the check says of the tree: see BoundariesInit
  slipped        \* whether a tree has passed with a violation that was gone

boundaryVars == <<uses, baseline, accepted, verdict, slipped>>

-----------------------------------------------------------------------------
(* checkImport.                                                            *)

\* startsWith(dir + "/")
Under(path, dir) == Len(path) > Len(dir) /\ SubSeq(path, 1, Len(dir)) = dir

Retired(path) == path[1] \in {"application", "infrastructure", "domain", "presentation"}

\* featureName or entityName; "" if there is none.
NameIn(layer, path) == IF Under(path, <<layer>>) THEN path[2] ELSE ""

BrowserFacing(file) ==
  \/ file \in ClientFiles
  \/ (Under(file, <<"features">>) /\ Len(file) > 3 /\ file[3] = "ui")
  \/ Under(file, <<"shared", "ui">>)

ServerOnly ==
  {<<"shared", "config", "server">>, <<"shared", "http", "server">>,
   <<"shared", "http", "bff">>, <<"shared", "http", "session-cookies">>}

PublicEntry(path) == Len(path) = 2 \/ (Len(path) = 3 /\ path[3] = "index")

PrivatePart(path) == Len(path) > 3 /\ path[3] \in {"api", "model", "ui"}

\* Of another slice of the same layer, around its public API.
AcrossSlices(layer, file, to) ==
  /\ "" \notin {NameIn(layer, file), NameIn(layer, to)}
  /\ NameIn(layer, file) # NameIn(layer, to) /\ ~PublicEntry(to)

\* Those rules for what is in the tree that a file breaks by importing it.
PathRules(file, to) ==
  {rule \in {"retired", "shared", "entity", "entity API", "feature", "feature API",
             "app", "requests"} :
     \/ (rule = "retired" /\ Retired(to))
     \/ /\ rule = "shared" /\ Under(file, <<"shared">>)
        /\ \E layer \in {"entities", "features", "app"} : Under(to, <<layer>>)
     \/ /\ rule = "entity" /\ Under(file, <<"entities">>)
        /\ \E layer \in {"features", "app"} : Under(to, <<layer>>)
     \/ /\ rule = "entity API"
        /\ \/ AcrossSlices("entities", file, to)
           \/ (Under(file, <<"features">>) /\ Under(to, <<"entities">>) /\ ~PublicEntry(to))
     \/ (rule = "feature" /\ Under(file, <<"features">>) /\ Under(to, <<"app">>))
     \/ (rule = "feature API" /\ AcrossSlices("features", file, to))
     \/ /\ rule = "app" /\ Under(file, <<"app">>) /\ ~Under(file, <<"app", "api">>)
        /\ to[1] \in {"features", "entities"} /\ PrivatePart(to)
     \/ (rule = "requests" /\ BrowserFacing(file) /\ to = <<"shared", "http", "requests">>)}

\* What a use breaks; a specifier that is neither an alias nor relative is a package.
Broken(file, spec) ==
  (IF BrowserFacing(file) /\ (spec.form \in {"package", "text"} \/ spec.to \in ServerOnly)
     THEN {"server"} ELSE {})
    \cup (IF spec.form = "relative" THEN {"relative"} ELSE {})
    \cup (IF spec.form \in {"alias", "relative"} THEN PathRules(file, spec.to) ELSE {})

\* The uniqueViolations of a tree.
Violations(tree) ==
  (UNION {{[file |-> u.file, spec |-> u.spec, rule |-> r] : r \in Broken(u.file, u.spec)} :
            u \in tree})
    \cup {[file |-> f, spec |-> BackendHost, rule |-> "place"] :
             f \in {g \in SourceFiles : Retired(g)}}

-----------------------------------------------------------------------------

\* A project begins with its violations in the baseline.
BoundariesInit ==
  /\ \E legacy \in SUBSET Legacy : uses = legacy
  /\ Cardinality(uses) =< MaxUses
  /\ baseline = Violations(uses)
  /\ accepted = baseline
  /\ verdict = "pass"            \* "pass", "fail", or "stale" when the tree has changed
  /\ slipped = FALSE

WriteImport ==
  /\ Cardinality(uses) < MaxUses
  /\ \E u \in Uses \ uses : uses' = uses \cup {u}
  /\ verdict' = "stale"
  /\ UNCHANGED <<baseline, accepted, slipped>>

RemoveImport ==
  /\ \E u \in uses : uses' = uses \ {u}
  /\ verdict' = "stale"
  /\ UNCHANGED <<baseline, accepted, slipped>>

\* The baseline is only ever shortened here; to lengthen it is to accept a violation.
DropBaseline ==
  /\ \E line \in baseline : baseline' = baseline \ {line}
  /\ verdict' = "stale"
  /\ UNCHANGED <<uses, accepted, slipped>>

\* Error: lines of the baseline that nothing needs any more are let be.
PassesUnlessNew(found) == found \subseteq baseline

\* newViolations and staleBaseline are both empty.
Passes(found) == found \subseteq baseline /\ baseline \subseteq found

RunCheck ==
  /\ verdict = "stale"
  /\ LET found == Violations(uses) IN
     IF Passes(found)
     THEN /\ verdict' = "pass" /\ accepted' = found
          /\ slipped' = (slipped \/ ~(found \subseteq accepted))
     ELSE verdict' = "fail" /\ UNCHANGED <<accepted, slipped>>
  /\ UNCHANGED <<uses, baseline>>

BoundariesNext == WriteImport \/ RemoveImport \/ DropBaseline \/ RunCheck

BoundariesSpec == BoundariesInit /\ [][BoundariesNext]_boundaryVars

BoundariesTypeOK ==
  /\ uses \subseteq Uses /\ Cardinality(uses) =< MaxUses
  /\ verdict \in {"pass", "fail", "stale"} /\ slipped \in BOOLEAN
  /\ \A v \in baseline \cup accepted : [file |-> v.file, spec |-> v.spec] \in Uses

-----------------------------------------------------------------------------

\* Reference: the rank of a layer, and the slice of a file with its own name for "none".
Rank(path) ==
  CASE path[1] = "shared" -> 1 [] path[1] = "entities" -> 2
    [] path[1] = "features" -> 3 [] path[1] = "app" -> 4 [] OTHER -> 0

SliceOf(path) == IF Rank(path) \in {2, 3} THEN SubSeq(path, 1, 2) ELSE <<path[1]>>

\* The file that an import of a slice itself gives.
Target(path) == IF Rank(path) \in {2, 3} /\ Len(path) = 2 THEN Append(path, "index") ELSE path

\* What a file of a layer reaches in two imports that the baseline does not excuse, both
\* by files of layers.
Reaches(file) ==
  LET excused == {[file |-> line.file, spec |-> line.spec] : line \in baseline}
      Direct(f) == {Target(u.spec.to) : u \in
                      {w \in uses \ excused :
                         w.file = f /\ w.spec.form \in {"alias", "relative"}}}
  IN Direct(file) \cup UNION {Direct(f) : f \in {g \in Direct(file) : Rank(g) > 0}}

\* A tree that passes keeps its layers.  (arquitectura-frontend.md:50-53, "each layer only
\* imports from the layers to its right" and "nobody imports the internals of another
\* slice".)  Along imports by files of layers that the baseline does not name, such a file
\* reaches no higher layer, only what is in no slice, in its own slice, or in one that it
\* or a file between imports by the public API; and a violation that one tree that passed
\* no longer had comes back in no later one.
LayersHold ==
  /\ verdict = "pass" =>
       \A f \in {u.file : u \in uses} : Rank(f) > 0 =>
         \A to \in Reaches(f) : Rank(to) > 0 =>
           /\ Rank(to) =< Rank(f)
           /\ \/ Rank(f) = 4 \/ Rank(to) = 1 \/ SliceOf(to) = SliceOf(f)
              \/ PublicEntry(to)
              \/ \E g \in Reaches(f) : SliceOf(g) = SliceOf(to) /\ PublicEntry(g)
  /\ ~slipped

\* What makes that inductive: the baseline is just what a tree that passes breaks, and
\* what it still excuses was excused in the last one that passed.
BoundariesInv ==
  /\ BoundariesTypeOK /\ IsFiniteSet(uses)
  /\ verdict = "pass" => Violations(uses) = baseline
  /\ baseline \subseteq accepted
  /\ ~slipped
=============================================================================
