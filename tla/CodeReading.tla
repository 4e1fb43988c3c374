------------------------------- MODULE CodeReading -------------------------------
(***************************************************************************)
(* The code tools over a repository: a directory that somebody works in, a *)
(* snapshot of one commit that GitLab or GitHub serves and that is cached, *)
(* or the snapshot with the directory as its fallback.                     *)
(*                                                                         *)
(* Paths are numbers in the order in which a search meets them.  Of a line *)
(* it matters whether it, or the name of its file, has the words of the    *)
(* query, and of which revision it is.  Links are not modelled.            *)
(***************************************************************************)
EXTENDS Lists

CONSTANTS
  Readers,      \* the calls of code__search and code__read
  Uses,         \* the repository that each was given
  Paths, Outside, \* paths of files, and one that leaves the repository
  LocalPaths, SnapshotPaths, \* those with an extension that is searched, in no ignored directory
  NoFile,
  Deployed,     \* the files of the commit, which nothing changes
  Checkout,     \* those of the directory at first
  MaxFiles,     \* of the tree that are looked at
  MaxReadLines,
  Contents,     \* what somebody may write into a file
  MatchLimits, CodeRanges,
  MaxEdits      \* bound

VARIABLES
  local,   \* the directory
  cache,   \* _cache of the snapshot
  state,   \* where each call is
  wants,   \* its arguments
  left,    \* the paths that its search has still to look at
  matches, \* what its search has found
  excerpt, \* what it has read
  edits

readVars == <<local, cache, state, wants, left, matches, excerpt, edits>>

CodeLine(revision) == [hit : BOOLEAN, of : {revision}]
CodeFile(revision) == [large : BOOLEAN, lines : Seq(CodeLine(revision))]
FilesOf(revision) == [Paths -> CodeFile(revision) \union {NoFile}]

ASSUME ReadingAssumption ==
  /\ Uses \in [Readers -> {"local", "snapshot", "fallback"}]
  /\ Paths \subseteq Nat /\ IsFiniteSet(Paths) /\ Outside \notin Paths
  /\ LocalPaths \subseteq Paths /\ SnapshotPaths \subseteq Paths
  /\ NoFile \notin CodeFile("commit") \union CodeFile("working-tree")
  /\ Deployed \in FilesOf("commit") /\ Checkout \in FilesOf("working-tree")
  /\ Contents \subseteq CodeFile("working-tree") /\ MatchLimits \subseteq Nat \ {0} /\ CodeRanges \subseteq Nat \X Nat
  /\ MaxFiles \in Nat /\ MaxReadLines \in Nat /\ MaxEdits \in Nat

NoExcerpt == [revision |-> "none"]

ReadingInit ==
  /\ local = Checkout
  /\ cache = [p \in Paths |-> NoFile]
  /\ state = [r \in Readers |-> "new"]
  /\ wants = [r \in Readers |-> [limit |-> 0]]
  /\ left = [r \in Readers |-> << >>]
  /\ matches = [r \in Readers |-> << >>]
  /\ excerpt = [r \in Readers |-> NoExcerpt]
  /\ edits = 0

Present(files) == { p \in DOMAIN files : files[p] # NoFile }
Go(r, to) == state' = [state EXCEPT ![r] = to]

-----------------------------------------------------------------------------
(* The arguments *)

SearchCode(r, limit) ==
  /\ state[r] = "new"
  /\ wants' = [wants EXCEPT ![r] = [limit |-> limit]]
  /\ Go(r, IF Uses[r] = "local" THEN "list" ELSE "tree")
  /\ UNCHANGED <<local, cache, left, matches, excerpt, edits>>

\* A range that is none or too long, and a path that leaves the repository, are refused.
Valid(p, range) == p # Outside /\ 1 <= range[1] /\ range[1] <= range[2]
                     /\ range[2] - range[1] + 1 <= MaxReadLines

ReadCode(r, p, range) ==
  /\ state[r] = "new"
  /\ wants' = [wants EXCEPT ![r] = [path |-> p, range |-> range]]
  /\ Go(r, CASE ~Valid(p, range) -> "failed"
             [] Valid(p, range) /\ Uses[r] = "local" -> "open"
             [] Valid(p, range) /\ Uses[r] # "local" -> "fetch")
  /\ UNCHANGED <<local, cache, left, matches, excerpt, edits>>

-----------------------------------------------------------------------------
(* What is found in a file, and cut from it *)

InFile(p, file) == [i \in DOMAIN file.lines |-> [path |-> p, line |-> i, text |-> file.lines[i]]]
OnlyHits(found) == Filter(found, LAMBDA m : m.text.hit)

\* The hits of a file, as far as the limit allows.
Scan(found, p, file, limit) ==
  LET all == found \o OnlyHits(InFile(p, file))
  IN  SubSeq(all, 1, IF Len(all) < limit THEN Len(all) ELSE limit)

CutRange(file, range) == SubSeq(file.lines, range[1], IF range[2] < Len(file.lines) THEN range[2] ELSE Len(file.lines))

Answer(r, revision, file) ==
  LET lines == CutRange(file, wants[r].range) IN
  IF lines = << >>
  THEN Go(r, "failed") /\ UNCHANGED excerpt
  ELSE /\ excerpt' = [excerpt EXCEPT ![r] =
            [revision |-> revision, path |-> wants[r].path, first |-> wants[r].range[1], lines |-> lines]]
       /\ Go(r, "done")

Sought(r) == left[r] = << >> \/ Len(matches[r]) >= wants[r].limit

EndSearch(r) ==
  /\ state[r] \in {"scan", "raw"} /\ Sought(r)
  /\ Go(r, "done")
  /\ UNCHANGED <<local, cache, wants, left, matches, excerpt, edits>>

LookAt(r, file) ==
  /\ matches' = [matches EXCEPT ![r] = Scan(@, Head(left[r]), file, wants[r].limit)]
  /\ left' = [left EXCEPT ![r] = Tail(@)]

-----------------------------------------------------------------------------
(* The directory: other programs may write to it between two files *)

Allowed(p) == local[p] # NoFile /\ p \in LocalPaths /\ ~local[p].large

ListFiles(r) ==
  /\ state[r] = "list"
  /\ left' = [left EXCEPT ![r] = Ascending(Present(local))]
  /\ Go(r, "scan")
  /\ UNCHANGED <<local, cache, wants, matches, excerpt, edits>>

ScanFile(r) ==
  /\ state[r] = "scan" /\ ~Sought(r)
  /\ IF Allowed(Head(left[r]))
     THEN LookAt(r, local[Head(left[r])])
     ELSE left' = [left EXCEPT ![r] = Tail(@)] /\ UNCHANGED matches
  /\ UNCHANGED <<local, cache, state, wants, excerpt, edits>>

ReadFile(r) ==
  /\ state[r] = "open"
  /\ IF Allowed(wants[r].path)
     THEN Answer(r, "working-tree", local[wants[r].path])
     ELSE Go(r, "failed") /\ UNCHANGED excerpt
  /\ UNCHANGED <<local, cache, wants, left, matches, edits>>

Edit(p, file) ==
  /\ edits < MaxEdits /\ local[p] # file
  /\ local' = [local EXCEPT ![p] = file]
  /\ edits' = edits + 1
  /\ UNCHANGED <<cache, state, wants, left, matches, excerpt>>

-----------------------------------------------------------------------------
(* The snapshot *)

\* Of the first entries of the tree those with an extension that is searched.
Searched(paths) == Filter(paths, LAMBDA p : p \in SnapshotPaths)
Tree ==
  LET entries == Ascending(Present(Deployed))
  IN  Searched(SubSeq(entries, 1, IF Len(entries) < MaxFiles THEN Len(entries) ELSE MaxFiles))

GetTree(r) ==
  /\ state[r] = "tree"
  /\ left' = [left EXCEPT ![r] = Tree]
  /\ Go(r, "raw")
  /\ UNCHANGED <<local, cache, wants, matches, excerpt, edits>>

\* What the commit holds, from the cache or from the server.
Raw(p) == IF cache[p] # NoFile THEN cache[p] ELSE Deployed[p]

\* A file that is too large fails the search.
ScanRaw(r) ==
  LET p == Head(left[r]) IN
  /\ state[r] = "raw" /\ ~Sought(r)
  /\ IF Raw(p).large
     THEN Go(r, "failed") /\ UNCHANGED <<cache, left, matches>>
     ELSE LookAt(r, Raw(p)) /\ cache' = [cache EXCEPT ![p] = Raw(p)] /\ UNCHANGED state
  /\ UNCHANGED <<local, wants, excerpt, edits>>

FetchRaw(r) ==
  LET p == wants[r].path IN
  /\ state[r] = "fetch" /\ Deployed[p] # NoFile
  /\ IF Raw(p).large
     THEN Go(r, "failed") /\ UNCHANGED <<cache, excerpt>>
     ELSE Answer(r, "commit", Raw(p)) /\ cache' = [cache EXCEPT ![p] = Raw(p)]
  /\ UNCHANGED <<local, wants, left, matches, edits>>

\* A request waits for the server: nothing is asked for what is in the cache.
Asks(r) ==
  \/ state[r] = "tree"
  \/ state[r] = "raw" /\ ~Sought(r) /\ cache[Head(left[r])] = NoFile
  \/ state[r] = "fetch" /\ cache[wants[r].path] = NoFile

\* Variant: the fallback goes on where the server failed.
ContinueLocally(r) ==
  /\ Asks(r)
  /\ Go(r, CASE Uses[r] = "snapshot" -> "failed"
             [] Uses[r] = "fallback" /\ state[r] = "fetch" -> "open"
             [] Uses[r] = "fallback" /\ state[r] = "tree" -> "list"
             [] Uses[r] = "fallback" /\ state[r] = "raw" -> "scan")
  /\ UNCHANGED <<local, cache, wants, left, matches, excerpt, edits>>

\* No answer in time, or an error status, which a missing file is too.
Unavailable(r) ==
  /\ Asks(r)
  /\ Go(r, CASE Uses[r] = "snapshot" -> "failed"
             [] Uses[r] = "fallback" /\ state[r] = "fetch" -> "open"
             [] Uses[r] = "fallback" /\ state[r] # "fetch" -> "list")
  /\ left' = [left EXCEPT ![r] = << >>]
  /\ matches' = [matches EXCEPT ![r] = << >>]
  /\ UNCHANGED <<local, cache, wants, excerpt, edits>>

\* An answer that is no tree or no file, or the time of the tool is up.
Fails(r) ==
  /\ Asks(r)
  /\ Go(r, "failed")
  /\ UNCHANGED <<local, cache, wants, left, matches, excerpt, edits>>

ReadingNext ==
  \/ \E r \in Readers :
       \/ \E limit \in MatchLimits : SearchCode(r, limit)
       \/ \E p \in Paths \union {Outside}, range \in CodeRanges : ReadCode(r, p, range)
       \/ ListFiles(r) \/ ScanFile(r) \/ ReadFile(r) \/ EndSearch(r)
       \/ GetTree(r) \/ ScanRaw(r) \/ FetchRaw(r) \/ Unavailable(r) \/ Fails(r)
  \/ \E p \in Paths, file \in Contents \union {NoFile} : Edit(p, file)

ReadingSpec == ReadingInit /\ [][ReadingNext]_readVars

-----------------------------------------------------------------------------
(* Properties *)

\* All that a search of the commit should find.
DeployedHits(limit) ==
  FoldLeft(LAMBDA found, p : Scan(found, p, Deployed[p], limit), << >>, Tree)

\* An excerpt that names the commit has its lines, one of the directory has none
\* of them, and a search answers from one of the two alone, from the commit with
\* all that there is.
OfItsRevision(r) ==
  IF excerpt[r] # NoExcerpt
  THEN LET e == excerpt[r]
       IN  IF e.revision = "commit" THEN e.lines = CutRange(Deployed[e.path], wants[r].range)
           ELSE \A i \in DOMAIN e.lines : e.lines[i].of = "working-tree"
  ELSE \/ Uses[r] # "local" /\ matches[r] = DeployedHits(wants[r].limit)
       \/ Uses[r] # "snapshot" /\ \A i \in DOMAIN matches[r] : matches[r][i].text.of = "working-tree"

\* Code is cited as what it is, although the server may fail at each file and
\* the fallback is asked in its place (gitlab_snapshot.py:115-132;
\* 2026-08-08-Phase4E, section 4).
CodeIsOfItsRevision == \A r \in Readers : state[r] = "done" => OfItsRevision(r)
=============================================================================
