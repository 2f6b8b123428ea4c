------------------------------ MODULE RangeDB ------------------------------
(***************************************************************************)
(* storage/pkg/filedb: a store of files named <index>/<key>, with a lower  *)
(* bound firstNonNilIndex on the indices in use so that Prune need not     *)
(* start from zero.  Nothing in it is locked: Set is two file-system steps *)
(* (create, then write), and Prune removes one index directory after       *)
(* another before it moves the bound.                                      *)
(***************************************************************************)
EXTENDS Integers

CONSTANTS
    Keys,      \* keys (KZG commitments) under one index
    NoPrune    \* no Prune call is running

VARIABLES
    files,             \* the files that exist, as <<index, key>>
    whole,             \* those whose content has been written completely
    firstNonNilIndex,  \* in memory: 0 after a restart
    prune              \* the running Prune: [from, to], or NoPrune

rangeVars == <<files, whole, firstNonNilIndex, prune>>

RangeInit ==
    /\ files = {}
    /\ whole = {}
    /\ firstNonNilIndex = 0
    /\ prune = NoPrune

\* Set up to the creation of the file, which truncates an existing one.
SetCreate(index, key) ==
    /\ firstNonNilIndex' = IF index < firstNonNilIndex THEN index ELSE firstNonNilIndex
    /\ files' = files \cup {<<index, key>>}
    /\ whole' = whole \ {<<index, key>>}
    /\ UNCHANGED prune

\* The write that ends Set: it succeeds on a file that was removed meanwhile too.
SetWrite(index, key) ==
    /\ whole' = whole \cup ({<<index, key>>} \cap files)
    /\ UNCHANGED <<files, firstNonNilIndex, prune>>

Has(index, key) == <<index, key>> \in files

\* Prune(start, end) reads the bound and begins DeleteRange.
PruneBegin(start, end) ==
    /\ prune = NoPrune
    /\ prune' = [from |-> IF start < firstNonNilIndex THEN firstNonNilIndex ELSE start,
                 to |-> end]
    /\ UNCHANGED <<files, whole, firstNonNilIndex>>

\* DeleteRange removes the next directory.
PruneStep ==
    /\ prune # NoPrune
    /\ prune.from < prune.to
    /\ files' = {f \in files : f[1] # prune.from}
    /\ whole' = {f \in whole : f[1] # prune.from}
    /\ prune' = [prune EXCEPT !.from = @ + 1]
    /\ UNCHANGED firstNonNilIndex

\* Mutant of PruneFail: a failed Prune moves the bound like a successful one.
PruneFailMovesBound ==
    /\ prune # NoPrune
    /\ prune.from < prune.to
    /\ firstNonNilIndex' = prune.to
    /\ prune' = NoPrune
    /\ UNCHANGED <<files, whole>>

\* RemoveAll fails after it has removed some files of the directory.
PruneFail ==
    /\ prune # NoPrune
    /\ prune.from < prune.to
    /\ \E gone \in SUBSET {f \in files : f[1] = prune.from} :
          /\ files' = files \ gone
          /\ whole' = whole \ gone
    /\ firstNonNilIndex' = 0
    /\ prune' = NoPrune

PruneEnd ==
    /\ prune # NoPrune
    /\ prune.from >= prune.to
    /\ firstNonNilIndex' = prune.to
    /\ prune' = NoPrune
    /\ UNCHANGED <<files, whole>>

\* NewRangeDB on the files of an earlier run.
RangeRestart ==
    /\ firstNonNilIndex' = 0
    /\ prune' = NoPrune
    /\ UNCHANGED <<files, whole>>

\* range_db.go:42, the comment on RangeDB: "Invariant: No index below
\* firstNonNilIndex should be populated."  Set and Prune are to preserve it,
\* and Prune relies on it when it starts from the bound.
NoIndexBelowFirst == \A f \in files : f[1] >= firstNonNilIndex
=============================================================================
