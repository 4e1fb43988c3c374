----------------------------- MODULE KnowledgeSeeds -----------------------------
(***************************************************************************)
(* The first search of a process fills the knowledge base from the JSON    *)
(* files of its directory, under a lock of that process, while searches of *)
(* other processes do the same and curators create and retire entries.     *)
(* Later searches only read.                                               *)
(*                                                                         *)
(* SQLite begins no transaction for the SELECT before an insert, and the   *)
(* insert has a SAVEPOINT of its own: each seed is committed by itself.    *)
(* How requests to change one entry race with each other is in Curation;   *)
(* here such a request is one step.                                        *)
(***************************************************************************)
EXTENDS Integers, SequencesExt

CONSTANTS
  Ids,          \* of knowledge entries, as numbers in their order
  Searches,     \* the calls of search
  Servers, ServerOf, \* the processes, and which runs a search
  Directories,  \* what may be in the directory: a sequence of files
  Words,        \* the words of an entry by where they stand
  Queries, ResultLimits,
  MaxEntries,   \* of all files together
  MaxMishaps    \* bound

VARIABLES
  files,      \* the directory, read only
  base,       \* the status of the row of each id, or "none"
  seeded,     \* _initialized of each process
  seeder,     \* the search that holds _initialize_lock
  at,         \* the await at which each search is suspended
  seeds,      \* the entries that it has still to look for
  found,      \* what it answers
  mishaps

seedVars == <<files, base, seeded, seeder, at, seeds, found, mishaps>>

Status == { "candidate", "confirmed", "retired" }
Seed == [id : Ids, status : Status]
SeedFile == [sound : BOOLEAN, entries : Seq(Seed)]
NoSearch == "none"

ASSUME SeedsAssumption ==
  /\ Ids \subseteq Nat
  /\ Directories \subseteq Seq(SeedFile)
  /\ Words \in [Ids -> [title : SUBSET Nat, errors : SUBSET Nat, others : SUBSET Nat]]
  /\ Queries \subseteq SUBSET Nat /\ ResultLimits \subseteq Nat
  /\ ServerOf \in [Searches -> Servers] /\ NoSearch \notin Searches
  /\ MaxEntries \in Nat /\ MaxMishaps \in Nat

SeedsInit ==
  /\ files \in Directories
  /\ base = [id \in Ids |-> "none"]
  /\ seeded = [p \in Servers |-> FALSE]
  /\ seeder = [p \in Servers |-> NoSearch]
  /\ at = [s \in Searches |-> "new"]
  /\ seeds = [s \in Searches |-> << >>]
  /\ found = [s \in Searches |-> << >>]
  /\ mishaps = 0

-----------------------------------------------------------------------------
(* The files *)

\* All entries, file by file.
Entries(directory) == FoldLeft(LAMBDA all, file : all \o file.entries, << >>, directory)

\* A file that is no array of entries, too many entries, or an id twice: none is loaded.
Loads(directory) ==
  LET entries == Entries(directory) IN
  /\ \A i \in DOMAIN directory : directory[i].sound
  /\ Len(entries) <= MaxEntries
  /\ \A i, j \in DOMAIN entries : entries[i].id = entries[j].id => i = j

-----------------------------------------------------------------------------
(* A search *)

MoveTo(s, label) == at' = [at EXCEPT ![s] = label]
LeaveLock(s) == seeder' = [seeder EXCEPT ![ServerOf[s]] = NoSearch]

StartSearch(s) ==
  /\ at[s] = "new"
  /\ MoveTo(s, IF seeded[ServerOf[s]] THEN "list" ELSE "lock")
  /\ UNCHANGED <<files, base, seeded, seeder, seeds, found, mishaps>>

AcquireLock(s) ==
  /\ at[s] = "lock" /\ seeder[ServerOf[s]] = NoSearch
  /\ IF seeded[ServerOf[s]]
     THEN MoveTo(s, "list") /\ UNCHANGED seeder
     ELSE MoveTo(s, "load") /\ seeder' = [seeder EXCEPT ![ServerOf[s]] = s]
  /\ UNCHANGED <<files, base, seeded, seeds, found, mishaps>>

Load(s) ==
  /\ at[s] = "load"
  /\ IF Loads(files)
     THEN MoveTo(s, "get") /\ seeds' = [seeds EXCEPT ![s] = Entries(files)] /\ UNCHANGED seeder
     ELSE MoveTo(s, "failed") /\ LeaveLock(s) /\ UNCHANGED seeds
  /\ UNCHANGED <<files, base, seeded, found, mishaps>>

GetSeed(s) ==
  /\ at[s] = "get" /\ seeds[s] # << >>
  /\ IF base[Head(seeds[s]).id] = "none"
     THEN MoveTo(s, "insert") /\ UNCHANGED seeds
     ELSE seeds' = [seeds EXCEPT ![s] = Tail(@)] /\ UNCHANGED at
  /\ UNCHANGED <<files, base, seeded, seeder, found, mishaps>>

\* Variant: an entry that exists is replaced by the seed.
ReplaceSeed(s) ==
  /\ at[s] = "insert"
  /\ base' = [base EXCEPT ![Head(seeds[s]).id] = Head(seeds[s]).status]
  /\ seeds' = [seeds EXCEPT ![s] = Tail(@)]
  /\ MoveTo(s, "get")
  /\ UNCHANGED <<files, seeded, seeder, found, mishaps>>

\* The insert of an id that somebody took in between fails, and with it the search.
InsertSeed(s) ==
  LET seed == Head(seeds[s]) IN
  /\ at[s] = "insert"
  /\ IF base[seed.id] = "none"
     THEN /\ base' = [base EXCEPT ![seed.id] = seed.status]
          /\ seeds' = [seeds EXCEPT ![s] = Tail(@)]
          /\ MoveTo(s, "get") /\ UNCHANGED seeder
     ELSE MoveTo(s, "failed") /\ LeaveLock(s) /\ UNCHANGED <<base, seeds>>
  /\ UNCHANGED <<files, seeded, found, mishaps>>

\* Variant: the process remembers its attempt as soon as the files are read.
MarkEarly(s) ==
  /\ at[s] = "get"
  /\ seeded' = [seeded EXCEPT ![ServerOf[s]] = TRUE]
  /\ IF seeds[s] = << >> THEN LeaveLock(s) /\ MoveTo(s, "list") ELSE UNCHANGED <<seeder, at>>
  /\ UNCHANGED <<files, base, seeds, found, mishaps>>

EndSeeding(s) ==
  /\ at[s] = "get" /\ seeds[s] = << >>
  /\ seeded' = [seeded EXCEPT ![ServerOf[s]] = TRUE]
  /\ LeaveLock(s)
  /\ MoveTo(s, "list")
  /\ UNCHANGED <<files, base, seeds, found, mishaps>>

AllWords(id) == Words[id].title \union Words[id].errors \union Words[id].others

Score(id, query) ==
  LET Weight(term) == IF term \in Words[id].title THEN 3 ELSE IF term \in Words[id].errors THEN 2 ELSE 1
      terms == query \intersect AllWords(id)
      sum[left \in SUBSET terms] ==
        IF left = {} THEN 0
        ELSE LET t == CHOOSE t \in left : TRUE IN Weight(t) + sum[left \ {t}]
  IN  sum[terms]

\* Confirmed entries with a term of the query, the best first, up to the limit.
Matches(query, limit) ==
  LET hits == { id \in Ids : base[id] = "confirmed" /\ query \intersect AllWords(id) # {} }
      Before(i, j) == Score(i, query) > Score(j, query) \/ (Score(i, query) = Score(j, query) /\ i < j)
      rank == [id \in hits |-> 1 + Cardinality({ j \in hits : Before(j, id) })]
      all == [n \in 1..Cardinality(hits) |-> CHOOSE id \in hits : rank[id] = n]
  IN  SubSeq(all, 1, IF limit < Len(all) THEN limit ELSE Len(all))

List(s) ==
  /\ at[s] = "list"
  /\ \E query \in Queries, limit \in ResultLimits : found' = [found EXCEPT ![s] = Matches(query, limit)]
  /\ MoveTo(s, "done")
  /\ UNCHANGED <<files, base, seeded, seeder, seeds, mishaps>>

-----------------------------------------------------------------------------
(* Faults *)

\* A statement fails, or the time of the tool is up: the lock is left.
SearchFails(s) ==
  /\ mishaps < MaxMishaps /\ at[s] \notin {"new", "done", "failed"}
  /\ seeder' = [p \in Servers |-> IF seeder[p] = s THEN NoSearch ELSE seeder[p]]
  /\ MoveTo(s, "failed")
  /\ mishaps' = mishaps + 1
  /\ UNCHANGED <<files, base, seeded, seeds, found>>

ServerCrash(p) ==
  /\ mishaps < MaxMishaps
  /\ seeded' = [seeded EXCEPT ![p] = FALSE]
  /\ seeder' = [seeder EXCEPT ![p] = NoSearch]
  /\ at' = [s \in Searches |-> IF ServerOf[s] = p /\ at[s] \notin {"new", "done"} THEN "failed" ELSE at[s]]
  /\ mishaps' = mishaps + 1
  /\ UNCHANGED <<files, base, seeds, found>>

-----------------------------------------------------------------------------
(* Curators *)

CreateEntry(id) ==
  /\ base[id] = "none"
  /\ base' = [base EXCEPT ![id] = "candidate"]
  /\ UNCHANGED <<files, seeded, seeder, at, seeds, found, mishaps>>

\* KnowledgeEntry.with_status
MayChange == [candidate |-> {"confirmed", "retired"}, confirmed |-> {"retired"}, retired |-> {}]

ChangeEntry(id, status) ==
  /\ base[id] # "none" /\ status \in MayChange[base[id]]
  /\ base' = [base EXCEPT ![id] = status]
  /\ UNCHANGED <<files, seeded, seeder, at, seeds, found, mishaps>>

SeedsNext ==
  \/ \E s \in Searches :
       \/ StartSearch(s) \/ AcquireLock(s) \/ Load(s) \/ GetSeed(s) \/ InsertSeed(s)
       \/ EndSeeding(s) \/ List(s) \/ SearchFails(s)
  \/ \E p \in Servers : ServerCrash(p)
  \/ \E id \in Ids : CreateEntry(id) \/ \E status \in Status : ChangeEntry(id, status)

SeedsSpec == SeedsInit /\ [][SeedsNext]_seedVars

-----------------------------------------------------------------------------
(* Properties *)

SeedsTypeOK ==
  /\ files \in Directories
  /\ base \in [Ids -> Status \union {"none"}]
  /\ seeded \in [Servers -> BOOLEAN]
  /\ seeder \in [Servers -> Searches \union {NoSearch}]
  /\ at \in [Searches -> {"new", "lock", "load", "get", "insert", "list", "done", "failed"}]
  /\ seeds \in [Searches -> Seq(Seed)]

\* A search that answers has seen all seeds: whatever crashed or failed half-way
\* and whoever seeded meanwhile, a process that will not look at the files again
\* finds each of their entries in the table (sqlite_search.py, _ensure_seeded).
SearchesSeeSeeds ==
  \A s \in Searches :
    at[s] \in {"list", "done"} \/ seeded[ServerOf[s]] =>
      \A i \in DOMAIN Entries(files) : base[Entries(files)[i].id] # "none"

\* No start of the system brings back what a curator retired, although the files
\* still hold it as confirmed (sqlite_search.py:74-76; phase0b-extension.md:393).
SeedsReviveNothing ==
  [][\A id \in Ids : base[id] = "retired" => base'[id] = "retired"]_base
=============================================================================
