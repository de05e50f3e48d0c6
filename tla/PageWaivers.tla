----------------------------- MODULE PageWaivers -----------------------------
(***************************************************************************)
(* live-browser-ignores.js: which of the project's waivers hold for the    *)
(* page that Detect scans.  A waiver names files of the project, by globs; *)
(* the page knows only the path of its URL, the roots of the globs of the  *)
(* files that are served and, if the helper could tell, those files.       *)
(*                                                                         *)
(* A path is the sequence of its segments, and NameEnds says which of      *)
(* these end with another.  A glob is a file, dir/*, dir/** or **/name;    *)
(* globs that split a name are left out, and so are configurations of the  *)
(* wrong shape.                                                            *)
(***************************************************************************)
EXTENDS Naturals, Sequences, FiniteSets, SequencesExt

CONSTANTS
  PageFiles,     \* files that may be served
  RootDirs,      \* directories that a glob of the inject config may begin with
  NameEnds,      \* names with a shorter one that they end with: <<"barfoo", "foo">>
  Globs,         \* [kind : {"file", "in", "below", "named"}, path : a path]
  MaxServed      \* bound on the files that are served

ASSUME WaiversAssumption ==
  /\ IsFiniteSet(PageFiles) /\ MaxServed \in Nat
  /\ PageFiles \cup RootDirs \subseteq Seq(STRING) \ {<<>>}
  /\ \A g \in Globs : g.kind \in {"file", "in", "below", "named"} /\ g.path # <<>>

\* An entry of ignoreFiles, or of ignoreValues with a value or with "*".  ignoreRules
\* need no page.
Waivers == [what : {"file", "value", "any value"}, globs : {{}} \cup {{g} : g \in Globs}]

VARIABLES
  site,          \* what is served, and from where: see WaiversInit
  pageFile,      \* the file that the page is
  waiver,        \* the waiver of the project
  answer         \* what resolveDetectIgnores said at the last scan of this page

waiverVars == <<site, pageFile, waiver, answer>>

NotAsked == [skip |-> FALSE, applies |-> FALSE, asked |-> FALSE]

-----------------------------------------------------------------------------

\* addSuffixes
Endings(path) == {SubSeq(path, i, Len(path)) : i \in 1..Len(path)}

\* What a glob names, as globs are read: **/ stands for directories.
Names(glob, path) ==
  CASE glob.kind = "file"  -> path = glob.path
    [] glob.kind = "in"    -> IsStrictPrefix(glob.path, path) /\ Len(path) = Len(glob.path) + 1
    [] glob.kind = "below" -> IsStrictPrefix(glob.path, path)
    [] OTHER               -> IsSuffix(glob.path, path)

\* An ending of a path whose first name is longer than that of the glob and ends with it.
LongerName(glob, path) ==
  \E e \in Endings(path) :
    <<e[1], glob.path[1]>> \in NameEnds /\ Tail(e) = Tail(glob.path)

\* Glob by glob, what globToRegex matches: it makes of **/ a ".*" that may end within a
\* name.
Matches(glob, path) ==
  Names(glob, path) \/ (glob.kind = "named" /\ LongerName(glob, path))

MatchesScope(globs, candidates) == \E g \in globs, c \in candidates : Matches(g, c)

\* The longest path that all the roots begin with; <<>> if there is none.
CommonRoot(roots) ==
  LET shared == {d \in UNION {{SubSeq(r, 1, n) : n \in 0..Len(r)} : r \in roots} :
                   \A r \in roots : IsPrefix(d, r)}
  IN IF roots = {} THEN <<>> ELSE CHOOSE d \in shared : \A e \in shared : Len(e) =< Len(d)

\* Error: each root lends its own path to the page.
CandidatesOfEveryRoot(path, roots, known) ==
  Endings(path) \cup UNION {Endings(r \o path) : r \in roots}

\* pageCandidates, of a path that names its index.
Candidates(path, roots, known) ==
  LET pages == {f \in known : IsSuffix(path, f)} IN
  Endings(path) \cup
    IF Cardinality(pages) = 1 THEN UNION {Endings(f) : f \in pages}
    ELSE Endings(CommonRoot(roots) \o path)

\* resolveDetectIgnores.  A wildcard that names no file waives nothing; neither does an
\* entry of ignoreFiles.
Resolve(w, candidates) ==
  LET named == MatchesScope(w.globs, candidates) IN
  [skip |-> w.what = "file" /\ named,
   applies |-> \/ w.what = "any value" /\ named
               \/ w.what = "value" /\ (w.globs = {} \/ named),
   asked |-> TRUE]

-----------------------------------------------------------------------------

\* The part of a file's path that its URL has.
UrlPath(f) == SubSeq(f, Len(site.docs[f]) + 1, Len(f))

\* Every file that is served lies below a root.  One document root is at or above all the
\* roots, or they are disjoint and each file has its own ("a single document root must
\* sit at or above every configured page").
WaiversInit ==
  /\ \E served \in SUBSET PageFiles, roots \in SUBSET RootDirs, told \in BOOLEAN :
       /\ served # {} /\ Cardinality(served) =< MaxServed
       /\ roots # {}
       /\ \A r \in roots : \E f \in served : IsStrictPrefix(r, f)
       /\ \A f \in served : \E r \in roots : IsStrictPrefix(r, f)
       /\ \E docs \in [served -> {<<>>} \cup roots] :
            /\ \A f \in served : IsStrictPrefix(docs[f], f)
            /\ \/ \A f \in served, r \in roots : IsPrefix(docs[f], r)
               \/ CommonRoot(roots) = <<>> /\ <<>> \notin {docs[f] : f \in served}
            /\ CommonRoot(roots) # <<>> => Cardinality({docs[f] : f \in served}) = 1
            /\ site = [docs |-> docs, roots |-> roots, known |-> IF told THEN served ELSE {}]
  /\ pageFile \in DOMAIN site.docs
  /\ waiver \in Waivers
  /\ answer = NotAsked

\* requestDetectScan asks for the page that it is on.
AskWaivers ==
  /\ ~answer.asked
  /\ answer' = Resolve(waiver, Candidates(UrlPath(pageFile), site.roots, site.known))
  /\ UNCHANGED <<site, pageFile, waiver>>

GoToPage ==
  /\ \E f \in DOMAIN site.docs \ {pageFile} : pageFile' = f
  /\ answer' = NotAsked
  /\ UNCHANGED <<site, waiver>>

WaiversNext == AskWaivers \/ GoToPage

WaiversSpec == WaiversInit /\ [][WaiversNext]_waiverVars

WaiversTypeOK ==
  /\ DOMAIN site.docs \subseteq PageFiles /\ site.roots \subseteq RootDirs
  /\ site.known \subseteq PageFiles
  /\ pageFile \in DOMAIN site.docs /\ waiver \in Waivers
  /\ answer \in [skip : BOOLEAN, applies : BOOLEAN, asked : {TRUE}] \cup {NotAsked}

-----------------------------------------------------------------------------

\* A waiver hides findings of the files it names, and of no others.  (live-browser-ignores.js,
\* 140-145: "/foo.html must not borrow src/foo.html's waivers while actually serving
\* public/foo.html".)  What is waived on a page is scoped to no file, or a glob names the
\* end of the path of the file that the page is; and every waiver that names the file is
\* found where the helper tells which files are served and no other ends like the URL, or
\* where the document root is the common root.  Two exceptions.  The glob **/name also
\* waives what is in a file, or below a directory, with a longer name that ends like it
\* (66-68: **/foo.html and barfoo.html).  And a page may borrow: under a
\* document root above the common one its URL has the common root already, and without an
\* only file that ends like it the code puts that root before it again (168), which may
\* make the path of another file (src/src/foo.html).
WaiversNameThePage ==
  answer.asked =>
    LET named == \E g \in waiver.globs, e \in Endings(pageFile) : Names(g, e)
        longer == \E g \in waiver.globs, e \in Endings(pageFile) :
                    g.kind = "named" /\ LongerName(g, e)
        common == CommonRoot(site.roots)
        alone == {f \in site.known : IsSuffix(UrlPath(pageFile), f)} = {pageFile}
        borrowed == /\ ~alone /\ common # <<>> /\ site.docs[pageFile] # common
                    /\ MatchesScope(waiver.globs, Endings(common \o UrlPath(pageFile)))
    IN /\ answer.skip \/ answer.applies =>
            named \/ longer \/ (waiver.what = "value" /\ waiver.globs = {}) \/ borrowed
       /\ named /\ (alone \/ site.docs[pageFile] = common) => answer.skip \/ answer.applies

\* What makes that inductive: the page is one of the files that are served, all of which
\* the helper tells or none, and the answer is the one for this page.
WaiversInv ==
  /\ WaiversTypeOK
  /\ site.known \in {{}, DOMAIN site.docs}
  /\ \A f \in DOMAIN site.docs :
       site.docs[f] \in {<<>>} \cup RootDirs /\ IsPrefix(site.docs[f], f)
  /\ answer.asked =>
       answer = Resolve(waiver, Candidates(UrlPath(pageFile), site.roots, site.known))
=============================================================================
