--------------------------- MODULE ExtractionRuns ---------------------------
(* Runs of scripts/extract.py of the book-to-skill skill: the batch loop of   *)
(* main and the files it leaves for the agent that polls for them. Each run   *)
(* is a process with a work directory; runs, kills, other users of the shared *)
(* temporary directory and the agents that clean up interleave. What happens  *)
(* inside one source is SourceExtraction's.                                   *)
EXTENDS Naturals, FiniteSets, SequencesExt

CONSTANTS
  Runs,       \* invocations of the program
  Pids,       \* process ids, each also the name of its own work directory
  Workdir,    \* the directory BOOK_SKILL_WORKDIR names when it is set
  Supported,  \* files with a supported extension; files are numbers, by path
  Arguments,  \* command lines: sequences of paths
  Nobody      \* the writer of a file that does not exist

ASSUME NamesDiffer == Workdir \notin Pids /\ Nobody \notin Runs

Dirs == Pids \cup {Workdir}
None == [by |-> Nobody, of |-> <<>>, seen |-> {}]
(* A file has its writer, the sources it holds, none while it is being        *)
(* written, and the sources whose inspection it records.                      *)
Written(r, docs, seen) == [by |-> r, of |-> docs, seen |-> seen]

VARIABLES
  at,         \* where each run is in main
  pid, dir,   \* its process id and OUTPUT_DIR
  asked,      \* its command line
  todo,       \* input_files it has not come to
  sources,    \* extracted_sources
  skipped,    \* errors
  inspected,  \* _INSPECTIONS
  kind,       \* of each directory: absent, own, or taken (a link, a plain
              \* file, another user's)
  latest,     \* the run that last made a directory its work directory
  reused,     \* and whether it found the directory there
  text, meta, \* full_text.txt and metadata.json
  tmp         \* metadata.json.tmp

runVars == <<pid, dir, asked>>
batchVars == <<todo, sources, skipped, inspected>>
dirVars == <<kind, latest, reused>>
fileVars == <<dirVars, text, meta, tmp>>
vars == <<at, pid, dir, asked, todo, sources, skipped, inspected, kind, latest,
          reused, text, meta, tmp>>

Init ==
  /\ at = [r \in Runs |-> "new"]
  /\ pid = [r \in Runs |-> Nobody]
  /\ dir = [r \in Runs |-> Nobody]
  /\ asked = [r \in Runs |-> <<>>]
  /\ todo = [r \in Runs |-> <<>>]
  /\ sources = [r \in Runs |-> <<>>]
  /\ skipped = [r \in Runs |-> <<>>]
  /\ inspected = [r \in Runs |-> {}]
  /\ kind = [d \in Dirs |-> "absent"]
  /\ latest = [d \in Dirs |-> Nobody]
  /\ reused = [d \in Dirs |-> FALSE]
  /\ text = [d \in Dirs |-> None]
  /\ meta = [d \in Dirs |-> None]
  /\ tmp = [d \in Dirs |-> None]

Live(r) == at[r] \notin {"new", "done", "failed"}
Go(r, to) == at' = [at EXCEPT ![r] = to]
-----------------------------------------------------------------------------
(* A path names one file, kept whatever its extension, or, when it is a       *)
(* directory or a pattern, the supported files it holds in the order of their *)
(* names.                                                                     *)
Expand(path) ==
  IF path.explicit THEN SetToSeq(path.files)
  ELSE SetToSortSeq(path.files \cap Supported, <)
Listed(paths) == FlattenSeq([i \in DOMAIN paths |-> Expand(paths[i])])
\* Mutant: a file that two arguments name is extracted twice.
KeepAll(files, file) == Append(files, file)
KeepFirst(files, file) ==
  IF Contains(files, file) THEN files ELSE Append(files, file)
ResolveInputFiles(paths) == FoldLeft(KeepFirst, <<>>, Listed(paths))

(* A command line is a list of paths, and each path a list of files.          *)
ASSUME ArgumentsAreLists ==
  \A paths \in Arguments :
    [i \in DOMAIN paths |-> Expand(paths[i])] \in Seq(Seq(Nat))

\* Mutant: runs share one directory.
OutputDirFixed(p, override) == IF override THEN Workdir ELSE CHOOSE q \in Pids : TRUE
OutputDir(p, override) == IF override THEN Workdir ELSE p

(* A command line is read, and refused when it finds no file. The process id  *)
(* is one no other live process has, perhaps one a finished run had.          *)
Start(r, p, override, paths) ==
  /\ UNCHANGED <<sources, skipped, inspected, fileVars>>
  /\ at[r] = "new"
  /\ \A q \in Runs : Live(q) => pid[q] # p
  /\ pid' = [pid EXCEPT ![r] = p]
  /\ dir' = [dir EXCEPT ![r] = OutputDir(p, override)]
  /\ asked' = [asked EXCEPT ![r] = paths]
  /\ todo' = [todo EXCEPT ![r] = ResolveInputFiles(paths)]
  /\ Go(r, IF todo'[r] = <<>> THEN "failed" ELSE "prepare")

(* prepare_output_dir refuses what is not a directory of this user's and      *)
(* otherwise takes it, with whatever an earlier run left in it.               *)
PrepareOutputDir(r) ==
  /\ UNCHANGED <<runVars, batchVars, text, meta, tmp>>
  /\ at[r] = "prepare"
  /\ IF kind[dir[r]] = "taken"
     THEN Go(r, "failed") /\ UNCHANGED dirVars
     ELSE /\ Go(r, "batch")
          /\ kind' = [kind EXCEPT ![dir[r]] = "own"]
          /\ latest' = [latest EXCEPT ![dir[r]] = r]
          /\ reused' = [reused EXCEPT ![dir[r]] = kind[dir[r]] = "own"]

(* One source is extracted, perhaps after pdf-inspector looked at it, or an   *)
(* ExtractionError skips it; the loop goes on.                                *)
Inspect(r, seen) ==
  inspected' = [inspected EXCEPT ![r] = IF seen THEN @ \cup {Head(todo[r])} ELSE @]
Extracted(r, seen) ==
  /\ UNCHANGED <<at, runVars, skipped, fileVars>>
  /\ at[r] = "batch" /\ todo[r] # <<>>
  /\ todo' = [todo EXCEPT ![r] = Tail(@)]
  /\ sources' = [sources EXCEPT ![r] = Append(@, Head(todo[r]))]
  /\ Inspect(r, seen)
Skip(r, seen) ==
  /\ UNCHANGED <<at, runVars, sources, fileVars>>
  /\ at[r] = "batch" /\ todo[r] # <<>>
  /\ todo' = [todo EXCEPT ![r] = Tail(@)]
  /\ skipped' = [skipped EXCEPT ![r] = Append(@, Head(todo[r]))]
  /\ Inspect(r, seen)
AllFailed(r) ==
  /\ UNCHANGED <<runVars, batchVars, fileVars>>
  /\ at[r] = "batch"
  /\ todo[r] = <<>> /\ sources[r] = <<>>
  /\ Go(r, "failed")
-----------------------------------------------------------------------------
(* write_text opens a file, which empties it, then writes it. It fails in a   *)
(* directory that is gone; a file removed while it is open takes the rest.    *)
Open(r, file) == file' = [file EXCEPT ![dir[r]] = Written(r, <<>>, {})]
Close(r, file) ==
  file' = [file EXCEPT ![dir[r]] = IF @.by = r THEN Written(r, sources[r], {}) ELSE @]

OpenText(r) ==
  /\ UNCHANGED <<runVars, batchVars, dirVars, meta, tmp>>
  /\ at[r] = "batch"
  /\ todo[r] = <<>> /\ sources[r] # <<>>
  /\ IF kind[dir[r]] = "own"
     THEN Go(r, "texting") /\ Open(r, text)
     ELSE Go(r, "failed") /\ UNCHANGED text
CloseText(r) ==
  /\ UNCHANGED <<runVars, batchVars, dirVars, meta, tmp>>
  /\ at[r] = "texting"
  /\ Go(r, "texted")
  /\ Close(r, text)
OpenMeta(r) ==
  /\ UNCHANGED <<runVars, batchVars, dirVars, text, tmp>>
  /\ at[r] = "texted"
  /\ IF kind[dir[r]] = "own"
     THEN Go(r, "describing") /\ Open(r, meta)
     ELSE Go(r, "failed") /\ UNCHANGED meta
CloseMeta(r) ==
  /\ UNCHANGED <<runVars, batchVars, dirVars, text, tmp>>
  /\ at[r] = "describing"
  /\ Go(r, "described")
  /\ Close(r, meta)

(* enrich_pdf_inspector_metadata reads metadata.json back and, when it holds  *)
(* sources this run inspected, replaces it by a copy that records them.       *)
Matched(r) == inspected[r] \cap ToSet(meta[dir[r]].of)
Report(r) ==
  /\ UNCHANGED <<runVars, batchVars, fileVars>>
  /\ at[r] = "described"
  /\ Matched(r) = {}
  /\ Go(r, "done")
WriteTmp(r) ==
  /\ UNCHANGED <<runVars, batchVars, dirVars, text, meta>>
  /\ at[r] = "described"
  /\ Matched(r) # {}
  /\ Go(r, "enriching")
  /\ tmp' = [tmp EXCEPT ![dir[r]] =
               Written(meta[dir[r]].by, meta[dir[r]].of, Matched(r))]
ReplaceMeta(r) ==
  /\ UNCHANGED <<runVars, batchVars, dirVars, text>>
  /\ at[r] = "enriching"
  /\ IF tmp[dir[r]] # None
     THEN /\ Go(r, "done")
          /\ meta' = [meta EXCEPT ![dir[r]] = tmp[dir[r]]]
          /\ tmp' = [tmp EXCEPT ![dir[r]] = None]
     ELSE Go(r, "failed") /\ UNCHANGED <<meta, tmp>>
-----------------------------------------------------------------------------
(* A run is killed, or an exception that is not an ExtractionError ends it.   *)
Abort(r) ==
  /\ UNCHANGED <<runVars, batchVars, fileVars>>
  /\ Live(r)
  /\ at' = [at EXCEPT ![r] = "failed"]

(* The agent of a finished run removes its work directory.                    *)
Clean(r) ==
  LET d == dir[r] IN
  /\ UNCHANGED <<at, runVars, batchVars, latest, reused>>
  /\ at[r] = "done" /\ kind[d] = "own"
  /\ kind' = [kind EXCEPT ![d] = "absent"]
  /\ text' = [text EXCEPT ![d] = None]
  /\ meta' = [meta EXCEPT ![d] = None]
  /\ tmp' = [tmp EXCEPT ![d] = None]

(* Somebody else's file or directory has the name first.                      *)
Occupy(d) ==
  /\ UNCHANGED <<at, runVars, batchVars, latest, reused, text, meta, tmp>>
  /\ kind[d] = "absent"
  /\ kind' = [kind EXCEPT ![d] = "taken"]

Next ==
  \/ \E r \in Runs, p \in Pids, override \in BOOLEAN, paths \in Arguments :
       Start(r, p, override, paths)
  \/ \E r \in Runs, seen \in BOOLEAN : Extracted(r, seen) \/ Skip(r, seen)
  \/ \E r \in Runs :
       \/ PrepareOutputDir(r) \/ AllFailed(r)
       \/ OpenText(r) \/ CloseText(r) \/ OpenMeta(r) \/ CloseMeta(r)
       \/ Report(r) \/ WriteTmp(r) \/ ReplaceMeta(r)
       \/ Abort(r) \/ Clean(r)
  \/ \E d \in Dirs : Occupy(d)

Spec == Init /\ [][Next]_vars
-----------------------------------------------------------------------------
(* What an agent that polls a per-run directory for metadata.json finds. The  *)
(* metadata is that of the directory's latest run, and full_text.txt is then  *)
(* that run's too, whole, with the sources the metadata names; or, only until *)
(* the run succeeds and only where it found the directory, the metadata is an *)
(* earlier run's, ended by then, whose text may be there or not. So a run     *)
(* that made its directory never shows another document, nor does one that    *)
(* succeeded, whatever runs at the same time and wherever one is killed; a    *)
(* run under a process id used before shows the other document meanwhile,     *)
(* for good if it fails.                                                      *)
Describes(p) ==
  meta[p].by = latest[p] /\ text[p].by = latest[p] /\ text[p].of = meta[p].of
LeftOver(p) ==
  /\ reused[p] /\ at[latest[p]] # "done"
  /\ meta[p].by # latest[p] /\ ~Live(meta[p].by)
MetadataFollowsText ==
  \A p \in Pids : meta[p].of # <<>> => Describes(p) \/ LeftOver(p)

(* A run that finished has accounted for every file its command line named,   *)
(* once, in the order it was named: as a source of the text or as skipped.    *)
Wanted(r) == Listed(asked[r])
Named(r, file) == SelectInSeq(Wanted(r), LAMBDA f : f = file)
InOrder(files, r) ==
  \A i, j \in DOMAIN files : i < j => Named(r, files[i]) < Named(r, files[j])
BatchesAreAccountedFor ==
  \A r \in Runs : at[r] = "done" =>
    /\ ToSet(sources[r]) \cup ToSet(skipped[r]) = ToSet(Wanted(r))
    /\ Len(sources[r]) + Len(skipped[r]) = Cardinality(ToSet(Wanted(r)))
    /\ InOrder(sources[r], r) /\ InOrder(skipped[r], r)
=============================================================================
