------------------------- MODULE BookToSkillProofs -------------------------
(* Proofs about the book-to-skill skill, for any runs, process ids, command   *)
(* lines, tools, sources and files of a skill, one part after another:        *)
(* metadata.json of a per-run directory follows the text it describes, or is  *)
(* an earlier run's in a directory used again; a batch accounts for each of   *)
(* its files; the text kept for a source is its own, but for a conversion     *)
(* Calibre only claims; every parser the machine has is tried before a source *)
(* is given up; the parsers of RTF, HTML and PDF drop no text; an EPUB is     *)
(* read in the order of its spine; code blocks add no chapter and nothing but *)
(* a block hides one; and a scan that passes has read what it does not name   *)
(* as left out. The last section puts the parts together.                     *)
EXTENDS BookToSkill, SequenceTheorems, FiniteSetTheorems, WellFoundedInduction,
        TLAPS

(* The runs of the extractor.                                                 *)
USE NamesDiffer

(* What each variable is a function of.                                       *)
Domains ==
  /\ DOMAIN at = Runs /\ DOMAIN pid = Runs /\ DOMAIN dir = Runs
  /\ DOMAIN sources = Runs
  /\ DOMAIN kind = Dirs /\ DOMAIN latest = Dirs /\ DOMAIN reused = Dirs
  /\ DOMAIN text = Dirs /\ DOMAIN meta = Dirs /\ DOMAIN tmp = Dirs

(* A run works in the directory of its process id or in the shared one, and   *)
(* no other live run has that process id.                                     *)
Placed ==
  \A r \in Runs : at[r] # "new" => pid[r] \in Pids /\ dir[r] \in {pid[r], Workdir}
OnePerPid ==
  \A q, r \in Runs : (Live(q) /\ Live(r) /\ pid[q] = pid[r]) => q = r
LatestIsLive ==
  \A r \in Runs :
    (Live(r) /\ at[r] # "prepare" /\ dir[r] \in Pids) => latest[dir[r]] = r

(* A directory that is gone, or another's, has none of the files.             *)
GoneIsEmpty ==
  \A d \in Dirs : kind[d] # "own" => text[d] = None /\ meta[d] = None /\ tmp[d] = None

(* From the moment a run opened its text, the text in its own directory is    *)
(* its own; once closed, whole.                                               *)
TextIsOwn ==
  \A r \in Runs :
    (dir[r] \in Pids /\ kind[dir[r]] = "own") =>
      /\ at[r] \in {"texting", "texted", "describing", "described", "enriching"} =>
           text[dir[r]].by = r
      /\ at[r] \in {"texted", "describing", "described", "enriching"} =>
           text[dir[r]].of = sources[r]

(* No metadata is a run's before it has written its text.                     *)
NotYetDescribed ==
  \A r \in Runs, d \in Dirs :
    at[r] \in {"new", "prepare", "batch", "texting", "texted"} =>
      meta[d].by # r /\ tmp[d].by # r

(* The latest run's metadata, and the copy that will replace it, follow the   *)
(* text.                                                                      *)
LatestFollowsText ==
  \A p \in Pids :
    (meta[p].of # <<>> /\ meta[p].by = latest[p]) =>
      (text[p].by = latest[p] /\ text[p].of = meta[p].of)
CopyFollowsText ==
  \A p \in Pids :
    (tmp[p].of # <<>> /\ tmp[p].by = latest[p]) =>
      (text[p].by = latest[p] /\ text[p].of = tmp[p].of)

IInv ==
  /\ Domains /\ Placed /\ OnePerPid /\ LatestIsLive /\ GoneIsEmpty
  /\ TextIsOwn /\ NotYetDescribed /\ CopyFollowsText /\ LatestFollowsText
-----------------------------------------------------------------------------
LEMMA InitIInv == Init => IInv
BY DEF Init, IInv, Domains, Placed, OnePerPid, LatestIsLive, GoneIsEmpty, TextIsOwn,
       NotYetDescribed, CopyFollowsText, LatestFollowsText, Live, None, Dirs

LEMMA NoneIsEmpty == None.by \notin Runs /\ ToSet(None.of) = {}
BY DEF None, ToSet

LEMMA NextIInv == IInv /\ [Next]_vars => IInv'
<1> SUFFICES ASSUME IInv, [Next]_vars PROVE IInv'
  OBVIOUS
<1> USE DEF runVars, batchVars, dirVars, fileVars
<1>1. ASSUME NEW r \in Runs, NEW p \in Pids, NEW override \in BOOLEAN, NEW paths \in Arguments,
             Start(r, p, override, paths)
      PROVE  IInv'
  <2>1. Domains' /\ Placed' /\ OnePerPid' /\ LatestIsLive'
    BY <1>1 DEF IInv, Domains, Placed, OnePerPid, LatestIsLive, Start,
       OutputDir, Go, Live, Dirs
  <2>2. GoneIsEmpty'
    BY <1>1 DEF IInv, Domains, Placed, GoneIsEmpty, Start, OutputDir, Go, Dirs
  <2>3. NotYetDescribed'
    BY <1>1 DEF IInv, Domains, Placed, NotYetDescribed, Start, OutputDir, Go,
       None, Dirs
  <2>4. TextIsOwn'
    BY <1>1 DEF IInv, Domains, Placed, OnePerPid, GoneIsEmpty, TextIsOwn,
       Start, OutputDir, Go, Live, None, Dirs
  <2>5. CopyFollowsText' /\ LatestFollowsText'
    BY <1>1 DEF IInv, Domains, Placed, LatestIsLive, GoneIsEmpty, TextIsOwn,
       NotYetDescribed, CopyFollowsText, LatestFollowsText, Start, OutputDir,
       Go, Live, None, Dirs
  <2> QED
    BY <2>1, <2>2, <2>3, <2>4, <2>5 DEF IInv
<1>2. ASSUME NEW r \in Runs, NEW seen \in BOOLEAN,
             \/ Extracted(r, seen) \/ Skip(r, seen)
             \/ AllFailed(r) \/ Report(r) \/ Abort(r)
      PROVE  IInv'
  <2>1. Domains' /\ Placed' /\ OnePerPid' /\ LatestIsLive'
    BY <1>2 DEF IInv, Domains, Placed, OnePerPid, LatestIsLive, Extracted,
       Skip, AllFailed, Report, Abort, Go, Live, Dirs
  <2>2. GoneIsEmpty'
    BY <1>2 DEF IInv, Domains, Placed, GoneIsEmpty, Extracted, Skip, AllFailed,
       Report, Abort, Go, Dirs
  <2>3. NotYetDescribed'
    BY <1>2 DEF IInv, Domains, Placed, NotYetDescribed, Extracted, Skip,
       AllFailed, Report, Abort, Go, None, Dirs
  <2>4. TextIsOwn'
    BY <1>2 DEF IInv, Domains, Placed, OnePerPid, GoneIsEmpty, TextIsOwn,
       Extracted, Skip, AllFailed, Report, Abort, Go, Live, None, Dirs
  <2>5. CopyFollowsText' /\ LatestFollowsText'
    BY <1>2 DEF IInv, Domains, Placed, LatestIsLive, GoneIsEmpty, TextIsOwn,
       NotYetDescribed, CopyFollowsText, LatestFollowsText, Extracted, Skip,
       AllFailed, Report, Abort, Go, Live, None, Dirs
  <2> QED
    BY <2>1, <2>2, <2>3, <2>4, <2>5 DEF IInv
<1>3. ASSUME NEW r \in Runs, PrepareOutputDir(r)
      PROVE  IInv'
  <2>1. Domains' /\ Placed' /\ OnePerPid' /\ LatestIsLive'
    BY <1>3 DEF IInv, Domains, Placed, OnePerPid, LatestIsLive,
       PrepareOutputDir, Go, Live, Dirs
  <2>2. GoneIsEmpty'
    BY <1>3 DEF IInv, Domains, Placed, GoneIsEmpty, PrepareOutputDir, Go, Dirs
  <2>3. NotYetDescribed'
    BY <1>3 DEF IInv, Domains, Placed, NotYetDescribed, PrepareOutputDir, Go,
       None, Dirs
  <2>4. TextIsOwn'
    BY <1>3 DEF IInv, Domains, Placed, OnePerPid, GoneIsEmpty, TextIsOwn,
       PrepareOutputDir, Go, Live, None, Dirs
  <2>5. CopyFollowsText' /\ LatestFollowsText'
    BY <1>3 DEF IInv, Domains, Placed, LatestIsLive, GoneIsEmpty, TextIsOwn,
       NotYetDescribed, CopyFollowsText, LatestFollowsText, PrepareOutputDir,
       Go, Live, None, Dirs
  <2> QED
    BY <2>1, <2>2, <2>3, <2>4, <2>5 DEF IInv
<1>4. ASSUME NEW r \in Runs, OpenText(r)
      PROVE  IInv'
  <2>1. Domains' /\ Placed' /\ OnePerPid' /\ LatestIsLive'
    BY <1>4 DEF IInv, Domains, Placed, OnePerPid, LatestIsLive, OpenText, Open,
       Written, Go, Live, Dirs
  <2>2. GoneIsEmpty'
    BY <1>4 DEF IInv, Domains, Placed, GoneIsEmpty, OpenText, Open, Written,
       Go, Dirs
  <2>3. NotYetDescribed'
    BY <1>4 DEF IInv, Domains, Placed, NotYetDescribed, OpenText, Open,
       Written, Go, None, Dirs
  <2>4. TextIsOwn'
    BY <1>4 DEF IInv, Domains, Placed, OnePerPid, GoneIsEmpty, TextIsOwn,
       OpenText, Open, Written, Go, Live, None, Dirs
  <2>5. CopyFollowsText' /\ LatestFollowsText'
    BY <1>4 DEF IInv, Domains, Placed, LatestIsLive, GoneIsEmpty, TextIsOwn,
       NotYetDescribed, CopyFollowsText, LatestFollowsText, OpenText, Open,
       Written, Go, Live, None, Dirs
  <2> QED
    BY <2>1, <2>2, <2>3, <2>4, <2>5 DEF IInv
<1>5. ASSUME NEW r \in Runs, CloseText(r)
      PROVE  IInv'
  <2>1. Domains' /\ Placed' /\ OnePerPid' /\ LatestIsLive'
    BY <1>5 DEF IInv, Domains, Placed, OnePerPid, LatestIsLive, CloseText,
       Close, Written, Go, Live, Dirs
  <2>2. GoneIsEmpty'
    BY <1>5, NoneIsEmpty DEF IInv, Domains, Placed, GoneIsEmpty, CloseText,
       Close, Written, Go, Dirs
  <2>3. NotYetDescribed'
    BY <1>5 DEF IInv, Domains, Placed, NotYetDescribed, CloseText, Close,
       Written, Go, None, Dirs
  <2>4. TextIsOwn'
    BY <1>5 DEF IInv, Domains, Placed, OnePerPid, GoneIsEmpty, TextIsOwn,
       CloseText, Close, Written, Go, Live, None, Dirs
  <2>5. CopyFollowsText' /\ LatestFollowsText'
    BY <1>5 DEF IInv, Domains, Placed, LatestIsLive, GoneIsEmpty, TextIsOwn,
       NotYetDescribed, CopyFollowsText, LatestFollowsText, CloseText, Close,
       Written, Go, Live, None, Dirs
  <2> QED
    BY <2>1, <2>2, <2>3, <2>4, <2>5 DEF IInv
<1>6. ASSUME NEW r \in Runs, OpenMeta(r)
      PROVE  IInv'
  <2>1. Domains' /\ Placed' /\ OnePerPid' /\ LatestIsLive'
    BY <1>6 DEF IInv, Domains, Placed, OnePerPid, LatestIsLive, OpenMeta, Open,
       Written, Go, Live, Dirs
  <2>2. GoneIsEmpty'
    BY <1>6 DEF IInv, Domains, Placed, GoneIsEmpty, OpenMeta, Open, Written,
       Go, Dirs
  <2>3. NotYetDescribed'
    BY <1>6 DEF IInv, Domains, Placed, NotYetDescribed, OpenMeta, Open,
       Written, Go, None, Dirs
  <2>4. TextIsOwn'
    BY <1>6 DEF IInv, Domains, Placed, OnePerPid, GoneIsEmpty, TextIsOwn,
       OpenMeta, Open, Written, Go, Live, None, Dirs
  <2>5. CopyFollowsText' /\ LatestFollowsText'
    BY <1>6 DEF IInv, Domains, Placed, LatestIsLive, GoneIsEmpty, TextIsOwn,
       NotYetDescribed, CopyFollowsText, LatestFollowsText, OpenMeta, Open,
       Written, Go, Live, None, Dirs
  <2> QED
    BY <2>1, <2>2, <2>3, <2>4, <2>5 DEF IInv
<1>7. ASSUME NEW r \in Runs, CloseMeta(r)
      PROVE  IInv'
  <2>1. Domains' /\ Placed' /\ OnePerPid' /\ LatestIsLive'
    BY <1>7 DEF IInv, Domains, Placed, OnePerPid, LatestIsLive, CloseMeta,
       Close, Written, Go, Live, Dirs
  <2>2. GoneIsEmpty'
    BY <1>7, NoneIsEmpty DEF IInv, Domains, Placed, GoneIsEmpty, CloseMeta,
       Close, Written, Go, Dirs
  <2>3. NotYetDescribed'
    BY <1>7 DEF IInv, Domains, Placed, NotYetDescribed, CloseMeta, Close,
       Written, Go, None, Dirs
  <2>4. TextIsOwn'
    BY <1>7 DEF IInv, Domains, Placed, OnePerPid, GoneIsEmpty, TextIsOwn,
       CloseMeta, Close, Written, Go, Live, None, Dirs
  <2>5. CopyFollowsText' /\ LatestFollowsText'
    BY <1>7 DEF IInv, Domains, Placed, LatestIsLive, GoneIsEmpty, TextIsOwn,
       NotYetDescribed, CopyFollowsText, LatestFollowsText, CloseMeta, Close,
       Written, Go, Live, None, Dirs
  <2> QED
    BY <2>1, <2>2, <2>3, <2>4, <2>5 DEF IInv
<1>8. ASSUME NEW r \in Runs, WriteTmp(r)
      PROVE  IInv'
  <2>1. Domains' /\ Placed' /\ OnePerPid' /\ LatestIsLive'
    BY <1>8 DEF IInv, Domains, Placed, OnePerPid, LatestIsLive, WriteTmp,
       Written, Matched, Go, Live, Dirs
  <2>2. GoneIsEmpty'
    BY <1>8, NoneIsEmpty DEF IInv, Domains, Placed, GoneIsEmpty, WriteTmp,
       Written, Matched, Go, Dirs
  <2>3. NotYetDescribed'
    BY <1>8 DEF IInv, Domains, Placed, NotYetDescribed, WriteTmp, Written,
       Matched, Go, None, Dirs
  <2>4. TextIsOwn'
    BY <1>8 DEF IInv, Domains, Placed, OnePerPid, GoneIsEmpty, TextIsOwn,
       WriteTmp, Written, Matched, Go, Live, None, Dirs
  <2>5. CopyFollowsText' /\ LatestFollowsText'
    BY <1>8 DEF IInv, Domains, Placed, LatestIsLive, GoneIsEmpty, TextIsOwn,
       NotYetDescribed, CopyFollowsText, LatestFollowsText, WriteTmp,
       Written, Matched, Go, Live, None, Dirs
  <2> QED
    BY <2>1, <2>2, <2>3, <2>4, <2>5 DEF IInv
<1>9. ASSUME NEW r \in Runs, ReplaceMeta(r)
      PROVE  IInv'
  <2>1. Domains' /\ Placed' /\ OnePerPid' /\ LatestIsLive'
    BY <1>9 DEF IInv, Domains, Placed, OnePerPid, LatestIsLive, ReplaceMeta,
       Go, Live, Dirs
  <2>2. GoneIsEmpty'
    BY <1>9 DEF IInv, Domains, Placed, GoneIsEmpty, ReplaceMeta, Go, Dirs
  <2>3. NotYetDescribed'
    BY <1>9 DEF IInv, Domains, Placed, NotYetDescribed, ReplaceMeta, Go, None,
       Dirs
  <2>4. TextIsOwn'
    BY <1>9 DEF IInv, Domains, Placed, OnePerPid, GoneIsEmpty, TextIsOwn,
       ReplaceMeta, Go, Live, None, Dirs
  <2>5. CopyFollowsText' /\ LatestFollowsText'
    BY <1>9 DEF IInv, Domains, Placed, LatestIsLive, GoneIsEmpty, TextIsOwn,
       NotYetDescribed, CopyFollowsText, LatestFollowsText, ReplaceMeta, Go,
       Live, None, Dirs
  <2> QED
    BY <2>1, <2>2, <2>3, <2>4, <2>5 DEF IInv
<1>10. ASSUME NEW r \in Runs, Clean(r)
      PROVE  IInv'
  <2>1. Domains' /\ Placed' /\ OnePerPid' /\ LatestIsLive'
    BY <1>10 DEF IInv, Domains, Placed, OnePerPid, LatestIsLive, Clean, Live,
       Dirs
  <2>2. GoneIsEmpty'
    BY <1>10 DEF IInv, Domains, Placed, GoneIsEmpty, Clean, Dirs
  <2>3. NotYetDescribed'
    BY <1>10 DEF IInv, Domains, Placed, NotYetDescribed, Clean, None, Dirs
  <2>4. TextIsOwn'
    BY <1>10 DEF IInv, Domains, Placed, OnePerPid, GoneIsEmpty, TextIsOwn,
       Clean, Live, None, Dirs
  <2>5. CopyFollowsText' /\ LatestFollowsText'
    BY <1>10 DEF IInv, Domains, Placed, LatestIsLive, GoneIsEmpty, TextIsOwn,
       NotYetDescribed, CopyFollowsText, LatestFollowsText, Clean, Live,
       None, Dirs
  <2> QED
    BY <2>1, <2>2, <2>3, <2>4, <2>5 DEF IInv
<1>11. ASSUME NEW d \in Dirs, Occupy(d)
      PROVE  IInv'
  <2>1. Domains' /\ Placed' /\ OnePerPid' /\ LatestIsLive'
    BY <1>11 DEF IInv, Domains, Placed, OnePerPid, LatestIsLive, Occupy, Live,
       Dirs
  <2>2. GoneIsEmpty'
    BY <1>11 DEF IInv, Domains, Placed, GoneIsEmpty, Occupy, Dirs
  <2>3. NotYetDescribed'
    BY <1>11 DEF IInv, Domains, Placed, NotYetDescribed, Occupy, None, Dirs
  <2>4. TextIsOwn'
    BY <1>11 DEF IInv, Domains, Placed, OnePerPid, GoneIsEmpty, TextIsOwn,
       Occupy, Live, None, Dirs
  <2>5. CopyFollowsText' /\ LatestFollowsText'
    BY <1>11 DEF IInv, Domains, Placed, LatestIsLive, GoneIsEmpty, TextIsOwn,
       NotYetDescribed, CopyFollowsText, LatestFollowsText, Occupy, Live,
       None, Dirs
  <2> QED
    BY <2>1, <2>2, <2>3, <2>4, <2>5 DEF IInv
<1>12. CASE UNCHANGED vars
  BY <1>12 DEF IInv, Domains, Placed, OnePerPid, LatestIsLive, GoneIsEmpty,
       TextIsOwn, NotYetDescribed, CopyFollowsText, LatestFollowsText, vars,
       Live
<1> QED
  BY <1>1, <1>2, <1>3, <1>4, <1>5, <1>6, <1>7, <1>8, <1>9, <1>10, <1>11, <1>12
     DEF Next

(* Metadata, and the copy that will replace it, belong to a run that took     *)
(* their directory; where no directory was found, to the latest one; and once *)
(* the latest run has begun to write its metadata, it is its own.             *)
WriterWasIn(d, file) == IF file.by \in Runs THEN dir[file.by] = d ELSE file = None
OwnersWereHere ==
  \A d \in Dirs :
    /\ latest[d] \in Runs => dir[latest[d]] = d /\ at[latest[d]] # "new"
    /\ latest[d] \notin Runs => ~reused[d]
    /\ WriterWasIn(d, meta[d]) /\ WriterWasIn(d, tmp[d])
FreshIsLatest ==
  \A d \in Pids : ~reused[d] =>
    /\ meta[d] # None => meta[d].by = latest[d]
    /\ tmp[d] # None => tmp[d].by = latest[d]
LatestDescribes ==
  \A r \in Runs :
    (dir[r] \in Pids /\ latest[dir[r]] = r /\ kind[dir[r]] = "own") =>
      /\ at[r] \in {"describing", "described", "enriching", "done"} =>
           meta[dir[r]].by = r
      /\ at[r] = "enriching" => tmp[dir[r]].by = r
OwnerInv == OwnersWereHere /\ FreshIsLatest /\ LatestDescribes

LEMMA InitOwnerInv == Init => OwnerInv
BY DEF Init, OwnerInv, OwnersWereHere, WriterWasIn, FreshIsLatest, LatestDescribes, None,
       Dirs

LEMMA NextOwnerInv == IInv /\ OwnerInv /\ [Next]_vars => OwnerInv'
<1> SUFFICES ASSUME IInv, OwnerInv, [Next]_vars PROVE OwnerInv'
  OBVIOUS
<1> USE DEF runVars, batchVars, dirVars, fileVars, Domains, Placed
<1>1. ASSUME NEW r \in Runs, NEW p \in Pids, NEW override \in BOOLEAN, NEW paths \in Arguments,
             Start(r, p, override, paths)
      PROVE  OwnerInv'
  <2>1. OwnersWereHere'
    <3> SUFFICES ASSUME NEW d \in Dirs
                 PROVE  /\ latest[d] \in Runs => dir'[latest[d]] = d /\ at'[latest[d]] # "new"
                        /\ latest[d] \notin Runs => ~reused[d]
                        /\ WriterWasIn(d, meta[d])' /\ WriterWasIn(d, tmp[d])'
      BY <1>1 DEF Start, OwnersWereHere
    <3>1. /\ meta' = meta /\ tmp' = tmp /\ at[r] = "new"
          /\ \A q \in Runs : q # r => dir'[q] = dir[q] /\ at'[q] = at[q]
      BY <1>1 DEF IInv, Start, Go
    <3>2. latest[d] # r /\ meta[d].by # r /\ tmp[d].by # r
      BY <3>1 DEF IInv, OwnerInv, OwnersWereHere, NotYetDescribed
    <3> QED
      BY <3>1, <3>2 DEF OwnerInv, OwnersWereHere, WriterWasIn
  <2>2. FreshIsLatest'
    BY <1>1 DEF IInv, OwnerInv, FreshIsLatest, Start, Dirs
  <2>3. LatestDescribes'
    BY <1>1 DEF IInv, OwnerInv, OwnersWereHere, LatestDescribes, Start, Go, OutputDir, Dirs
  <2> QED
    BY <2>1, <2>2, <2>3 DEF OwnerInv
<1>2. ASSUME NEW r \in Runs, NEW seen \in BOOLEAN,
             \/ Extracted(r, seen) \/ Skip(r, seen)
             \/ AllFailed(r) \/ Report(r) \/ Abort(r)
      PROVE  OwnerInv'
  <2>1. OwnersWereHere'
    BY <1>2 DEF IInv, OwnerInv, OwnersWereHere, Extracted, Skip, AllFailed, Report, Abort,
       Go, Live, WriterWasIn
  <2>2. FreshIsLatest'
    BY <1>2 DEF OwnerInv, FreshIsLatest, Extracted, Skip, AllFailed, Report, Abort
  <2>3. LatestDescribes'
    BY <1>2 DEF IInv, OwnerInv, LatestDescribes, Extracted, Skip, AllFailed, Report, Abort,
       Go, Live
  <2> QED
    BY <2>1, <2>2, <2>3 DEF OwnerInv
<1>3. ASSUME NEW r \in Runs, PrepareOutputDir(r)
      PROVE  OwnerInv'
  <2>1. OwnersWereHere'
    BY <1>3 DEF IInv, OwnerInv, OwnersWereHere, WriterWasIn, PrepareOutputDir, Go, Dirs
  <2>2. FreshIsLatest'
    BY <1>3 DEF IInv, GoneIsEmpty, OwnerInv, FreshIsLatest, PrepareOutputDir, Go, Dirs
  <2>3. LatestDescribes'
    BY <1>3 DEF IInv, OwnerInv, OwnersWereHere, LatestDescribes, PrepareOutputDir, Go, Dirs
  <2> QED
    BY <2>1, <2>2, <2>3 DEF OwnerInv
<1>4. ASSUME NEW r \in Runs, OpenText(r) \/ CloseText(r)
      PROVE  OwnerInv'
  <2>1. OwnersWereHere'
    BY <1>4 DEF IInv, OwnerInv, OwnersWereHere, WriterWasIn, OpenText, CloseText, Go
  <2>2. FreshIsLatest'
    BY <1>4 DEF OwnerInv, FreshIsLatest, OpenText, CloseText
  <2>3. LatestDescribes'
    BY <1>4 DEF IInv, OwnerInv, LatestDescribes, OpenText, CloseText, Go
  <2> QED
    BY <2>1, <2>2, <2>3 DEF OwnerInv
<1>5. ASSUME NEW r \in Runs, OpenMeta(r) \/ CloseMeta(r)
      PROVE  OwnerInv'
  <2>1. dir[r] \in Dirs /\ (dir[r] \in Pids => latest[dir[r]] = r)
    BY <1>5 DEF IInv, LatestIsLive, OpenMeta, CloseMeta, Live, Dirs
  <2>2. OwnersWereHere'
    BY <1>5, <2>1 DEF IInv, OwnerInv, OwnersWereHere, WriterWasIn, OpenMeta, CloseMeta, Open,
       Close, Written, Go, Dirs
  <2>3. FreshIsLatest'
    BY <1>5, <2>1 DEF IInv, OwnerInv, FreshIsLatest, OpenMeta, CloseMeta, Open, Close,
       Written, Dirs
  <2>4. LatestDescribes'
    BY <1>5, <2>1 DEF IInv, OwnerInv, LatestDescribes, OpenMeta, CloseMeta, Open, Close,
       Written, Go, Dirs
  <2> QED
    BY <2>2, <2>3, <2>4 DEF OwnerInv
<1>6. ASSUME NEW r \in Runs, WriteTmp(r) \/ ReplaceMeta(r)
      PROVE  OwnerInv'
  <2>1. dir[r] \in Dirs /\ (dir[r] \in Pids => latest[dir[r]] = r)
    BY <1>6 DEF IInv, LatestIsLive, WriteTmp, ReplaceMeta, Live, Dirs
  <2>2. OwnersWereHere'
    <3> SUFFICES ASSUME NEW d \in Dirs
                 PROVE  /\ latest[d] \in Runs => at'[latest[d]] # "new"
                        /\ WriterWasIn(d, meta[d])' /\ WriterWasIn(d, tmp[d])'
      BY <1>6 DEF OwnerInv, OwnersWereHere, WriteTmp, ReplaceMeta
    <3>1. latest[d] \in Runs => at'[latest[d]] # "new"
      BY <1>6 DEF IInv, OwnerInv, OwnersWereHere, WriteTmp, ReplaceMeta, Go
    <3>2. WriterWasIn(d, meta[d]) /\ WriterWasIn(d, tmp[d]) /\ dir' = dir
      BY <1>6 DEF OwnerInv, OwnersWereHere, WriteTmp, ReplaceMeta
    <3>3. CASE d # dir[r]
      <4>1. meta'[d] = meta[d] /\ tmp'[d] = tmp[d]
        BY <1>6, <3>3 DEF IInv, WriteTmp, ReplaceMeta
      <4> QED
        BY <3>1, <3>2, <4>1 DEF WriterWasIn
    <3>4. CASE d = dir[r] /\ WriteTmp(r)
      <4>1. meta[d].by \in Runs
        BY <3>2, <3>4, NoneIsEmpty DEF WriteTmp, Matched, WriterWasIn
      <4>2. meta' = meta /\ tmp'[d].by = meta[d].by
        BY <3>4 DEF IInv, WriteTmp, Written
      <4> QED
        BY <3>1, <3>2, <4>1, <4>2 DEF WriterWasIn
    <3>5. CASE d = dir[r] /\ ReplaceMeta(r)
      <4>1. \/ meta'[d] = meta[d] /\ tmp'[d] = tmp[d]
            \/ meta'[d] = tmp[d] /\ tmp'[d] = None
        BY <3>5 DEF IInv, ReplaceMeta
      <4> QED
        BY <3>1, <3>2, <4>1, NoneIsEmpty DEF WriterWasIn
    <3> QED
      BY <1>6, <3>3, <3>4, <3>5
  <2>3. FreshIsLatest'
    BY <1>6, <2>1, NoneIsEmpty DEF IInv, OwnerInv, FreshIsLatest, WriteTmp, ReplaceMeta,
       Matched, Written, Dirs
  <2>4. LatestDescribes'
    BY <1>6, <2>1 DEF IInv, OwnerInv, LatestDescribes, WriteTmp, ReplaceMeta, Written, Go,
       Dirs
  <2> QED
    BY <2>2, <2>3, <2>4 DEF OwnerInv
<1>7. ASSUME NEW d \in Dirs, (\E r \in Runs : d = dir[r] /\ Clean(r)) \/ Occupy(d)
      PROVE  OwnerInv'
  <2>1. OwnersWereHere'
    <3>1. UNCHANGED <<latest, reused, dir, at>>
      BY <1>7 DEF Clean, Occupy
    <3>2. ASSUME NEW e \in Dirs
          PROVE  /\ meta'[e] = meta[e] \/ meta'[e] = None
                 /\ tmp'[e] = tmp[e] \/ tmp'[e] = None
      BY <1>7 DEF IInv, Clean, Occupy
    <3>3. ASSUME NEW e \in Dirs
          PROVE  WriterWasIn(e, meta[e])' /\ WriterWasIn(e, tmp[e])'
      BY <3>1, <3>2, NoneIsEmpty DEF OwnerInv, OwnersWereHere, WriterWasIn
    <3> QED
      BY <3>1, <3>3 DEF OwnerInv, OwnersWereHere
  <2>2. FreshIsLatest'
    BY <1>7 DEF IInv, OwnerInv, FreshIsLatest, Clean, Occupy, Dirs
  <2>3. LatestDescribes'
    BY <1>7 DEF IInv, OwnerInv, LatestDescribes, Clean, Occupy, Dirs
  <2> QED
    BY <2>1, <2>2, <2>3 DEF OwnerInv
<1>8. CASE UNCHANGED vars
  BY <1>8 DEF OwnerInv, OwnersWereHere, WriterWasIn, FreshIsLatest, LatestDescribes, vars
<1>9. \A r \in Runs : Clean(r) => dir[r] \in Dirs
  BY DEF IInv, Clean, Dirs
<1> QED
  BY <1>1, <1>2, <1>3, <1>4, <1>5, <1>6, <1>7, <1>8, <1>9 DEF Next

LEMMA MetadataIsExplained == IInv /\ OwnerInv => MetadataFollowsText
<1> SUFFICES ASSUME IInv, OwnerInv, NEW p \in Pids, meta[p].of # <<>>, ~Describes(p)
             PROVE  LeftOver(p)
  BY DEF MetadataFollowsText
<1>1. p \in Dirs /\ meta[p] # None
  BY DEF Dirs, None
<1>2. meta[p].by \in Runs /\ dir[meta[p].by] = p /\ kind[p] = "own"
  BY <1>1 DEF IInv, GoneIsEmpty, OwnerInv, OwnersWereHere, WriterWasIn
<1>3. meta[p].by # latest[p]
  BY DEF IInv, LatestFollowsText, Describes
<1>4. reused[p]
  BY <1>1, <1>3 DEF OwnerInv, FreshIsLatest
<1>5. latest[p] \in Runs /\ dir[latest[p]] = p
  BY <1>1, <1>4 DEF OwnerInv, OwnersWereHere
<1>6. at[latest[p]] # "done"
  BY <1>2, <1>3, <1>5 DEF OwnerInv, LatestDescribes
<1>7. ~Live(meta[p].by)
  BY <1>1, <1>2, <1>3 DEF IInv, LatestIsLive, NotYetDescribed, Live
<1> QED
  BY <1>3, <1>4, <1>6, <1>7 DEF LeftOver
-----------------------------------------------------------------------------
(* Folds and sequences: what they give is found by induction over a set of    *)
(* naturals.                                                                  *)
LEMMA LeastNatural ==
  ASSUME NEW T \in SUBSET Nat, T # {}
  PROVE  \E n \in T : \A m \in T : n <= m
<1>1. PICK n \in T : \A m \in T : ~(<<m, n>> \in OpToRel(<, Nat))
  BY NatLessThanWellFounded, WFMin, Zenon
<1>2. \A m \in T : ~(m < n)
  BY <1>1 DEF OpToRel
<1> QED
  BY <1>2

LEMMA Induction ==
  ASSUME NEW T, 0 \in T, \A n \in Nat : n \in T => n + 1 \in T
  PROVE  \A n \in Nat : n \in T
<1> SUFFICES ASSUME Nat \ T # {} PROVE FALSE
  OBVIOUS
<1>1. PICK n \in Nat \ T : \A m \in Nat \ T : n <= m
  BY LeastNatural
<1>2. n # 0 /\ n - 1 \in Nat
  OBVIOUS
<1> QED
  BY <1>1, <1>2

(* The greatest and the least of some numbers.                                *)
LEMMA MaxIsGreatest ==
  ASSUME NEW n \in Nat, NEW S \in SUBSET (1 .. n), S # {}
  PROVE  Max(S) \in S /\ \A x \in S : Max(S) >= x
<1> DEFINE T == {m \in Nat : \A x \in S : x <= m}
<1>1. PICK m \in T : \A k \in T : m <= k
  <2>1. n \in T
    OBVIOUS
  <2> QED
    BY <2>1, LeastNatural
<1>2. m \in S
  <2>1. PICK x \in S : TRUE
    OBVIOUS
  <2>2. m >= 1 /\ m - 1 \in Nat
    BY <2>1
  <2>3. m - 1 \notin T
    BY <1>1, <2>2
  <2> QED
    BY <2>2, <2>3
<1> QED
  BY <1>1, <1>2 DEF Max

LEMMA MinIsLeast ==
  ASSUME NEW S \in SUBSET Nat, S # {}
  PROVE  Min(S) \in S /\ \A x \in S : Min(S) <= x
BY LeastNatural DEF Min

(* A fold goes through the numbers 1 to n; what it reaches from an index and  *)
(* what it had is a function, and its values stay in a set.                   *)
Folded(g, A, base, step, n) ==
  /\ g \in [SUBSET (1 .. n) -> A]
  /\ g[{}] = base
  /\ \A s \in SUBSET (1 .. n) : s # {} => g[s] = step[<<g[s \ {Max(s)}], Max(s)>>]

LEMMA FoldExists ==
  ASSUME NEW A, NEW base \in A, NEW n \in Nat, NEW step \in [A \X (1 .. n) -> A]
  PROVE  \E g : Folded(g, A, base, step, n)
<1> DEFINE T == {m \in Nat : m <= n => \E g : Folded(g, A, base, step, m)}
<1>1. 0 \in T
  <2> DEFINE g == [s \in SUBSET (1 .. 0) |-> base]
  <2>1. \A s \in SUBSET (1 .. 0) : s = {}
    OBVIOUS
  <2>2. Folded(g, A, base, step, 0)
    BY <2>1 DEF Folded
  <2> QED
    BY <2>2
<1>2. ASSUME NEW m \in Nat, m \in T, m + 1 <= n PROVE \E g : Folded(g, A, base, step, m + 1)
  <2>1. PICK g : Folded(g, A, base, step, m)
    BY <1>2
  <2> DEFINE h == [s \in SUBSET (1 .. m + 1) |->
                     IF m + 1 \in s THEN step[<<g[s \ {m + 1}], m + 1>>] ELSE g[s]]
  <2>2. \A s \in SUBSET (1 .. m + 1) : s \ {m + 1} \in SUBSET (1 .. m)
    OBVIOUS
  <2>3. \A s \in SUBSET (1 .. m + 1) : m + 1 \notin s => s \in SUBSET (1 .. m)
    OBVIOUS
  <2>4. h \in [SUBSET (1 .. m + 1) -> A]
    BY <1>2, <2>1, <2>2, <2>3 DEF Folded
  <2>5. h[{}] = base
    BY <2>1 DEF Folded
  <2>6. ASSUME NEW s \in SUBSET (1 .. m + 1), s # {}
        PROVE  h[s] = step[<<h[s \ {Max(s)}], Max(s)>>]
    <3>1. Max(s) \in s /\ \A x \in s : Max(s) >= x
      <4>1. m + 1 \in Nat
        OBVIOUS
      <4> QED
        BY <2>6, <4>1, MaxIsGreatest
    <3>2. s \ {Max(s)} \in SUBSET (1 .. m + 1)
      OBVIOUS
    <3>3. CASE m + 1 \in s
      <4>1. Max(s) = m + 1
        <5>1. Max(s) >= m + 1 /\ Max(s) \in 1 .. m + 1
          BY <3>1, <3>3
        <5> QED
          BY <5>1
      <4>2. h[s] = step[<<g[s \ {m + 1}], m + 1>>]
        BY <3>3
      <4>3. h[s \ {m + 1}] = g[s \ {m + 1}]
        BY <3>2, <4>1
      <4> QED
        BY <4>1, <4>2, <4>3
    <3>4. CASE m + 1 \notin s
      <4>1. s \in SUBSET (1 .. m) /\ h[s] = g[s]
        BY <2>3, <3>4
      <4>2. h[s \ {Max(s)}] = g[s \ {Max(s)}]
        BY <3>2, <3>4
      <4> QED
        BY <2>1, <2>6, <4>1, <4>2 DEF Folded
    <3> QED
      BY <3>3, <3>4
  <2> QED
    BY <2>4, <2>5, <2>6 DEF Folded
<1>3. \A m \in Nat : m \in T
  <2>1. \A m \in Nat : m \in T => m + 1 \in T
    BY <1>2
  <2> HIDE DEF T
  <2> QED
    BY <1>1, <2>1, Induction
<1> QED
  BY <1>3

LEMMA InitialSegments ==
  ASSUME NEW k \in Nat
  PROVE  /\ Max(1 .. k + 1) = k + 1
         /\ (1 .. k + 1) \ {k + 1} = 1 .. k
<1>1. k + 1 \in Nat /\ k + 1 \in 1 .. k + 1
  OBVIOUS
<1>2. Max(1 .. k + 1) \in 1 .. k + 1 /\ Max(1 .. k + 1) >= k + 1
  BY <1>1, MaxIsGreatest
<1> QED
  BY <1>2

(* What a fold is chosen to be, index by index.                               *)
Iterated(iter, A, base, step, n) ==
  /\ iter[{}] = base
  /\ \A s \in SUBSET (1 .. n) :
       (s # {} /\ iter[s \ {Max(s)}] \in A) =>
         iter[s] = step[<<iter[s \ {Max(s)}], Max(s)>>]

Steps(h, A, base, step, n, end) ==
  /\ h[0] = base
  /\ \A k \in 0 .. n : h[k] \in A
  /\ \A k \in 0 .. n : k < n => h[k + 1] = step[<<h[k], k + 1>>]
  /\ h[n] = end

LEMMA FoldSteps ==
  ASSUME NEW A, NEW base \in A, NEW n \in Nat, NEW step \in [A \X (1 .. n) -> A],
         NEW iter, Iterated(iter, A, base, step, n)
  PROVE  \E h : Steps(h, A, base, step, n, iter[1 .. n])
<1> DEFINE h == [k \in 0 .. n |-> iter[1 .. k]]
           T == {k \in Nat : k <= n => iter[1 .. k] \in A}
<1>1. ASSUME NEW k \in Nat, k + 1 <= n, iter[1 .. k] \in A
      PROVE  /\ iter[1 .. k + 1] = step[<<iter[1 .. k], k + 1>>]
             /\ iter[1 .. k + 1] \in A
  <2>1. 1 .. k + 1 \in SUBSET (1 .. n) /\ 1 .. k + 1 # {} /\ k + 1 \in 1 .. n
    <3>1. \A m \in Nat : m + 1 <= n => /\ 1 .. m + 1 \subseteq 1 .. n
                                       /\ 1 \in 1 .. m + 1 /\ m + 1 \in 1 .. n
      OBVIOUS
    <3> QED
      BY <1>1, <3>1
  <2>2. Max(1 .. k + 1) = k + 1 /\ (1 .. k + 1) \ {k + 1} = 1 .. k
    BY InitialSegments
  <2>3. iter[(1 .. k + 1) \ {Max(1 .. k + 1)}] = iter[1 .. k]
    BY <2>2, Zenon
  <2>4. iter[1 .. k + 1] = step[<<iter[1 .. k], k + 1>>]
    BY <1>1, <2>1, <2>2, <2>3, Zenon DEF Iterated
  <2>5. step[<<iter[1 .. k], k + 1>>] \in A
    BY <1>1, <2>1
  <2> QED
    BY <2>4, <2>5, Zenon
<1>2. 0 \in T
  <2>1. 1 .. 0 = {}
    OBVIOUS
  <2> QED
    BY <2>1 DEF Iterated
<1>3. ASSUME NEW k \in Nat, k \in T PROVE k + 1 \in T
  <2>1. CASE k + 1 <= n
    <3>1. iter[1 .. k] \in A
      BY <1>3, <2>1
    <3>2. iter[1 .. k + 1] \in A
      BY <1>1, <2>1, <3>1
    <3> QED
      BY <3>2
  <2>2. CASE ~(k + 1 <= n)
    BY <2>2
  <2> QED
    BY <2>1, <2>2
<1>4. \A k \in Nat : k \in T
  <2> HIDE DEF T
  <2> QED
    BY <1>2, <1>3, Induction
<1>5. h[0] = base
  <2>1. 1 .. 0 = {} /\ 0 \in 0 .. n
    OBVIOUS
  <2> QED
    BY <2>1 DEF Iterated
<1>6. \A k \in 0 .. n : h[k] \in A
  BY <1>4
<1>7. ASSUME NEW k \in 0 .. n, k < n PROVE h[k + 1] = step[<<h[k], k + 1>>]
  <2>1. k \in Nat /\ k + 1 <= n /\ k + 1 \in 0 .. n /\ iter[1 .. k] \in A
    BY <1>4, <1>7
  <2>2. h[k + 1] = iter[1 .. k + 1] /\ h[k] = iter[1 .. k]
    BY <2>1
  <2>3. iter[1 .. k + 1] = step[<<iter[1 .. k], k + 1>>]
    BY <1>1, <2>1
  <2> QED
    BY <2>2, <2>3, Zenon
<1>8. h[n] = iter[1 .. n]
  OBVIOUS
<1> QED
  <2> HIDE DEF h
  <2> QED
    BY <1>5, <1>6, <1>7, <1>8 DEF Steps

(* Sequences end to end are a sequence.                                       *)
LEMMA FlattenIsASequence ==
  ASSUME NEW S, NEW lists \in Seq(Seq(S))
  PROVE  FlattenSeq(lists) \in Seq(S)
<1> DEFINE n == Len(lists)
           step == [p \in Seq(S) \X (1 .. n) |-> p[1] \o lists[p[2]]]
           Eq(g) == g = [i \in 1 .. n |-> IF i = 1 THEN lists[i] ELSE g[i - 1] \o lists[i]]
           flatten == CHOOSE g : Eq(g)
<1>1. n \in Nat /\ \A i \in 1 .. n : lists[i] \in Seq(S)
  OBVIOUS
<1>2. CASE n = 0
  <2>1. lists = <<>>
    BY <1>2, EmptySeq
  <2>2. FlattenSeq(lists) = lists
    BY <1>2, Zenon DEF FlattenSeq
  <2>3. <<>> \in Seq(S)
    OBVIOUS
  <2> QED
    BY <2>1, <2>2, <2>3, Zenon
<1>3. CASE n # 0
  <2>1. FlattenSeq(lists) = flatten[n]
    BY <1>3, Zenon DEF FlattenSeq
  <2>2. PICK g : Folded(g, Seq(S), <<>>, step, n)
    <3>1. <<>> \in Seq(S)
      OBVIOUS
    <3>2. step \in [Seq(S) \X (1 .. n) -> Seq(S)]
      <4>1. \A q \in Seq(S) \X (1 .. n) : q[1] \o lists[q[2]] \in Seq(S)
        BY <1>1, ConcatProperties
      <4> QED
        BY <4>1
    <3> QED
      BY <1>1, <3>1, <3>2, FoldExists
  <2> DEFINE h == [i \in 1 .. n |-> g[1 .. i]]
  <2>3. ASSUME NEW k \in Nat, k + 1 <= n
        PROVE  g[1 .. k + 1] = g[1 .. k] \o lists[k + 1]
    <3>1. 1 .. k + 1 \in SUBSET (1 .. n) /\ 1 .. k + 1 # {} /\ 1 .. k \in SUBSET (1 .. n)
      <4>1. \A m \in Nat : m + 1 <= Len(lists) =>
              /\ 1 .. m + 1 \subseteq 1 .. Len(lists) /\ 1 \in 1 .. m + 1
              /\ 1 .. m \subseteq 1 .. Len(lists)
        BY <1>1
      <4> QED
        BY <2>3, <4>1
    <3>2. Max(1 .. k + 1) = k + 1 /\ (1 .. k + 1) \ {k + 1} = 1 .. k
      BY InitialSegments
    <3>3. g[1 .. k + 1] = step[<<g[(1 .. k + 1) \ {Max(1 .. k + 1)}], Max(1 .. k + 1)>>]
      BY <2>2, <3>1, Zenon DEF Folded
    <3>4. g[1 .. k] \in Seq(S) /\ k + 1 \in 1 .. n
      <4>1. g \in [SUBSET (1 .. n) -> Seq(S)]
        BY <2>2 DEF Folded
      <4>2. g[1 .. k] \in Seq(S)
        <5> HIDE DEF n
        <5> QED
          BY <3>1, <4>1
      <4> QED
        BY <1>1, <2>3, <4>2
    <3>5. step[<<g[1 .. k], k + 1>>] = g[1 .. k] \o lists[k + 1]
      BY <3>4
    <3> HIDE DEF step
    <3> QED
      BY <3>2, <3>3, <3>5
  <2>4. g[1 .. 0] = <<>>
    <3>1. 1 .. 0 = {}
      OBVIOUS
    <3> QED
      BY <2>2, <3>1 DEF Folded
  <2>5. Eq(h)
    <3>1. ASSUME NEW i \in 1 .. n
          PROVE  h[i] = IF i = 1 THEN lists[i] ELSE h[i - 1] \o lists[i]
      <4>1. i - 1 \in Nat /\ (i - 1) + 1 = i /\ i <= n
        BY <1>1, <3>1
      <4>2. g[1 .. i] = g[1 .. i - 1] \o lists[i]
        <5>1. g[1 .. (i - 1) + 1] = g[1 .. i - 1] \o lists[(i - 1) + 1]
          BY <2>3, <4>1
        <5> QED
          BY <4>1, <5>1
      <4>3. CASE i = 1
        <5>1. g[1 .. 1] = <<>> \o lists[1]
          <6>1. 1 - 1 = 0
            OBVIOUS
          <6> QED
            BY <2>4, <4>2, <4>3, <6>1, Zenon
        <5>2. lists[1] \in Seq(S)
          BY <1>1, <4>3
        <5>3. <<>> \o lists[1] = lists[1]
          BY <5>2, ConcatEmptySeq
        <5> QED
          BY <3>1, <4>3, <5>1, <5>3
      <4>4. CASE i # 1
        <5>1. i - 1 \in 1 .. n
          BY <1>1, <3>1, <4>4
        <5> QED
          BY <3>1, <4>2, <4>4, <5>1
      <4> QED
        BY <4>3, <4>4
    <3>2. h = [i \in 1 .. n |-> h[i]]
      OBVIOUS
    <3> HIDE DEF h, n
    <3> QED
      BY <3>1, <3>2
  <2>6. Eq(flatten)
    BY <2>5
  <2> DEFINE T == {k \in Nat : k + 1 <= n => flatten[k + 1] \in Seq(S)}
  <2>7. \A i \in 1 .. n : flatten[i] = IF i = 1 THEN lists[i] ELSE flatten[i - 1] \o lists[i]
    <3> HIDE DEF flatten
    <3> QED
      BY <2>6
  <2> HIDE DEF flatten
  <2>8. 0 \in T
    BY <1>1, <1>3, <2>7
  <2>9. ASSUME NEW k \in Nat, k \in T PROVE k + 1 \in T
    <3>1. CASE (k + 1) + 1 <= n
      <4>1. flatten[k + 1] \in Seq(S) /\ (k + 1) + 1 \in 1 .. n /\ (k + 1) + 1 # 1
        BY <1>1, <2>9, <3>1
      <4>2. flatten[(k + 1) + 1] = flatten[((k + 1) + 1) - 1] \o lists[(k + 1) + 1]
        BY <2>7, <4>1
      <4>3. ((k + 1) + 1) - 1 = k + 1
        OBVIOUS
      <4>4. lists[(k + 1) + 1] \in Seq(S)
        BY <1>1, <4>1
      <4>5. flatten[(k + 1) + 1] \in Seq(S)
        BY <4>1, <4>2, <4>3, <4>4, ConcatProperties
      <4> QED
        BY <4>5
    <3>2. CASE ~((k + 1) + 1 <= n)
      BY <3>2
    <3> QED
      BY <3>1, <3>2
  <2>10. \A k \in Nat : k \in T
    <3> HIDE DEF T
    <3> QED
      BY <2>8, <2>9, Induction
  <2>11. n - 1 \in Nat /\ (n - 1) + 1 = n
    BY <1>1, <1>3
  <2>12. flatten[n] \in Seq(S)
    <3>1. n - 1 \in T
      BY <2>10, <2>11
    <3> QED
      BY <2>11, <3>1
  <2> QED
    BY <2>1, <2>12 DEF flatten
<1> QED
  BY <1>2, <1>3
-----------------------------------------------------------------------------
(* The batch of a run.                                                        *)
(* What the loop over the paths of a command line keeps, path by path.        *)
LEMMA KeepFirstFolds ==
  ASSUME NEW S, NEW W \in Seq(S)
  PROVE  \E h : /\ h[0] = <<>>
                /\ \A k \in 0 .. Len(W) : h[k] \in Seq(S)
                /\ \A k \in 0 .. Len(W) : k < Len(W) => h[k + 1] = KeepFirst(h[k], W[k + 1])
                /\ h[Len(W)] = FoldLeft(KeepFirst, <<>>, W)
<1> DEFINE n == Len(W)
           step == [p \in Seq(S) \X (1 .. n) |-> KeepFirst(p[1], W[p[2]])]
           Eq(g) == g = [s \in SUBSET DOMAIN W |->
                           IF s = {} THEN <<>> ELSE KeepFirst(g[s \ {Max(s)}], W[Max(s)])]
           iter == CHOOSE g : Eq(g)
           h == [k \in 0 .. n |-> iter[1 .. k]]
<1>1. n \in Nat /\ DOMAIN W = 1 .. n /\ \A i \in 1 .. n : W[i] \in S
  OBVIOUS
<1>2. \A f \in Seq(S), x \in S : KeepFirst(f, x) \in Seq(S)
  BY DEF KeepFirst
<1>3. step \in [Seq(S) \X (1 .. n) -> Seq(S)]
  <2>1. \A q \in Seq(S) \X (1 .. n) : KeepFirst(q[1], W[q[2]]) \in Seq(S)
    BY <1>1, <1>2
  <2> QED
    BY <2>1
<1>4. FoldLeft(KeepFirst, <<>>, W) = iter[DOMAIN W]
  BY Zenon DEF FoldLeft, MapThenFoldSet
<1>5. PICK g : Folded(g, Seq(S), <<>>, step, n)
  <2>1. <<>> \in Seq(S)
    OBVIOUS
  <2> QED
    BY <1>1, <1>3, <2>1, FoldExists
<1>6. Eq(g)
  <2>1. ASSUME NEW s \in SUBSET (1 .. n), s # {}
        PROVE  g[s] = KeepFirst(g[s \ {Max(s)}], W[Max(s)])
    <3>1. Max(s) \in 1 .. n
      BY <1>1, <2>1, MaxIsGreatest
    <3>2. g[s \ {Max(s)}] \in Seq(S)
      BY <1>5 DEF Folded
    <3>3. g[s] = step[<<g[s \ {Max(s)}], Max(s)>>]
      BY <1>5, <2>1 DEF Folded
    <3> QED
      BY <3>1, <3>2, <3>3
  <2> QED
    BY <1>1, <1>5, <2>1 DEF Folded
<1>7. Eq(iter)
  BY <1>6
<1>8. iter[{}] = <<>>
  BY <1>7
<1>9. ASSUME NEW k \in 0 .. n, k < n PROVE iter[1 .. k + 1] = KeepFirst(iter[1 .. k], W[k + 1])
  <2>1. k \in Nat /\ k + 1 <= n
    BY <1>1, <1>9
  <2>2. 1 .. k + 1 \in SUBSET (1 .. n) /\ 1 .. k + 1 # {}
    <3>1. \A m \in Nat : m + 1 <= Len(W) => 1 .. m + 1 \subseteq 1 .. Len(W) /\ 1 \in 1 .. m + 1
      BY <1>1
    <3> QED
      BY <2>1, <3>1
  <2>3. 1 .. k + 1 \in SUBSET DOMAIN W
    BY <1>1, <2>2, Zenon
  <2>4. Max(1 .. k + 1) = k + 1 /\ (1 .. k + 1) \ {k + 1} = 1 .. k
    BY <2>1, InitialSegments
  <2>5. iter = [s \in SUBSET DOMAIN W |->
                  IF s = {} THEN <<>> ELSE KeepFirst(iter[s \ {Max(s)}], W[Max(s)])]
    BY <1>7, Zenon
  <2> HIDE DEF iter, n
  <2>6. iter[1 .. k + 1] = IF 1 .. k + 1 = {} THEN <<>>
                           ELSE KeepFirst(iter[(1 .. k + 1) \ {Max(1 .. k + 1)}], W[Max(1 .. k + 1)])
    BY <2>3, <2>5, Zenon
  <2> QED
    BY <2>2, <2>4, <2>6
<1>10. \A k \in 0 .. n : iter[1 .. k] \in Seq(S)
  <2> DEFINE T == {k \in Nat : k <= n => iter[1 .. k] \in Seq(S)}
  <2> HIDE DEF iter
  <2>1. 0 \in T
    <3>1. 1 .. 0 = {} /\ <<>> \in Seq(S)
      OBVIOUS
    <3> QED
      BY <1>8, <3>1
  <2>2. ASSUME NEW k \in Nat, k \in T PROVE k + 1 \in T
    <3>1. CASE k + 1 <= n
      <4>1. iter[1 .. k] \in Seq(S) /\ k \in 0 .. n /\ k < n /\ k + 1 \in 1 .. n
        BY <1>1, <2>2, <3>1
      <4>2. iter[1 .. k + 1] = KeepFirst(iter[1 .. k], W[k + 1])
        BY <1>9, <4>1
      <4>3. W[k + 1] \in S
        BY <1>1, <4>1
      <4>4. iter[1 .. k + 1] \in Seq(S)
        BY <1>2, <4>1, <4>2, <4>3, Zenon
      <4> QED
        BY <4>4
    <3>2. CASE ~(k + 1 <= n)
      BY <3>2
    <3> QED
      BY <3>1, <3>2
  <2>3. \A k \in Nat : k \in T
    <3> HIDE DEF T
    <3> QED
      BY <2>1, <2>2, Induction
  <2> QED
    BY <1>1, <2>3
<1>11. h[0] = <<>> /\ h[n] = iter[1 .. n]
  BY <1>1, <1>8
<1>12. ASSUME NEW k \in 0 .. n, k < n PROVE h[k + 1] = KeepFirst(h[k], W[k + 1])
  <2>1. k + 1 \in 0 .. n
    BY <1>1, <1>12
  <2>2. h[k + 1] = iter[1 .. k + 1] /\ h[k] = iter[1 .. k]
    BY <2>1
  <2>3. iter[1 .. k + 1] = KeepFirst(iter[1 .. k], W[k + 1])
    BY <1>9, <1>12
  <2> QED
    BY <2>2, <2>3, Zenon
<1>13. \A k \in 0 .. n : h[k] \in Seq(S)
  BY <1>10
<1>14. h[n] = FoldLeft(KeepFirst, <<>>, W)
  BY <1>1, <1>4, <1>11, Zenon
<1> QED
  <2> HIDE DEF h
  <2> QED
    BY <1>11, <1>12, <1>13, <1>14

(* Where a path of a list comes first.                                        *)
FirstAt(W, file) == SelectInSeq(W, LAMBDA f : f = file)

LEMMA FirstAtIsFirst ==
  ASSUME NEW S, NEW W \in Seq(S), NEW k \in 1 .. Len(W)
  PROVE  /\ FirstAt(W, W[k]) \in 1 .. k
         /\ (\A i \in 1 .. k - 1 : W[i] # W[k]) => FirstAt(W, W[k]) = k
<1> DEFINE I == {i \in 1 .. Len(W) : W[i] = W[k]}
<1>1. FirstAt(W, W[k]) = IF I # {} THEN Min(I) ELSE 0
  BY Zenon DEF FirstAt, SelectInSeq
<1>2. k \in I /\ I \in SUBSET Nat
  OBVIOUS
<1>3. Min(I) \in I /\ Min(I) <= k
  BY <1>2, MinIsLeast
<1> QED
  BY <1>1, <1>2, <1>3

(* Each file is kept once, where it is named first.                           *)
LEMMA KeepFirstKeeps ==
  ASSUME NEW S, NEW W \in Seq(S)
  PROVE  LET F == FoldLeft(KeepFirst, <<>>, W)
         IN  /\ F \in Seq(S)
             /\ ToSet(F) = ToSet(W)
             /\ \A i, j \in DOMAIN F : i < j => FirstAt(W, F[i]) < FirstAt(W, F[j])
<1> DEFINE n == Len(W)
<1>1. PICK h : /\ h[0] = <<>>
               /\ \A k \in 0 .. n : h[k] \in Seq(S)
               /\ \A k \in 0 .. n : k < n => h[k + 1] = KeepFirst(h[k], W[k + 1])
               /\ h[n] = FoldLeft(KeepFirst, <<>>, W)
  BY KeepFirstFolds
<1>2. n \in Nat /\ DOMAIN W = 1 .. n
  OBVIOUS
<1> DEFINE Kept(f, k) ==
             /\ \A x : (\E i \in 1 .. Len(f) : f[i] = x) <=> (\E i \in 1 .. k : W[i] = x)
             /\ \A i, j \in 1 .. Len(f) : i < j => FirstAt(W, f[i]) < FirstAt(W, f[j])
           T == {k \in Nat : k <= n => Kept(h[k], k)}
<1>3. 0 \in T
  <2>1. Len(h[0]) = 0 /\ 1 .. 0 = {}
    BY <1>1
  <2>2. Kept(h[0], 0)
    BY <2>1
  <2> HIDE DEF Kept
  <2> QED
    BY <2>2
<1>4. ASSUME NEW k \in Nat, k \in T, k + 1 <= n PROVE Kept(h[k + 1], k + 1)
  <2> DEFINE f == h[k]
             x == W[k + 1]
  <2>1. k \in 0 .. n /\ k < n /\ k + 1 \in 1 .. n
    BY <1>2, <1>4
  <2>2. f \in Seq(S) /\ h[k + 1] = KeepFirst(f, x)
    BY <1>1, <2>1
  <2>3. Kept(f, k)
    BY <1>2, <1>4, <2>1
  <2>4. x \in S
    BY <2>1
  <2> HIDE DEF f
  <2>5. CASE Contains(f, x)
    <3>1. h[k + 1] = f
      BY <2>2, <2>5 DEF KeepFirst
    <3>2. \E i \in 1 .. k : W[i] = x
      BY <2>2, <2>3, <2>5 DEF Contains
    <3>3. \A y : (\E i \in 1 .. k + 1 : W[i] = y) <=> (\E i \in 1 .. k : W[i] = y)
      BY <1>4, <3>2
    <3> QED
      BY <2>3, <3>1, <3>3
  <2>6. CASE ~Contains(f, x)
    <3>1. h[k + 1] = Append(f, x)
      BY <2>2, <2>6 DEF KeepFirst
    <3> DEFINE g == Append(f, x)
    <3>2. /\ Len(g) = Len(f) + 1 /\ Len(f) \in Nat /\ g[Len(f) + 1] = x
          /\ \A i \in 1 .. Len(f) : g[i] = f[i]
      BY <2>2, <2>4
    <3>3. \A i \in 1 .. k : W[i] # x
      BY <2>2, <2>3, <2>6 DEF Contains
    <3>4. FirstAt(W, x) = k + 1
      BY <2>1, <3>3, FirstAtIsFirst
    <3>5. ASSUME NEW i \in 1 .. Len(f) PROVE FirstAt(W, f[i]) < k + 1
      <4>1. PICK j \in 1 .. k : W[j] = f[i]
        BY <2>3
      <4>2. j \in 1 .. Len(W)
        BY <2>1
      <4>3. FirstAt(W, W[j]) \in 1 .. j
        BY <4>2, FirstAtIsFirst
      <4> QED
        BY <1>4, <4>1, <4>3
    <3>6. \A y : (\E i \in 1 .. Len(g) : g[i] = y) <=> (\E i \in 1 .. Len(f) : f[i] = y) \/ y = x
      <4>1. \A i \in 1 .. Len(g) : i = Len(f) + 1 \/ i \in 1 .. Len(f)
        BY <3>2
      <4>2. Len(f) + 1 \in 1 .. Len(g) /\ 1 .. Len(f) \subseteq 1 .. Len(g)
        BY <3>2
      <4> HIDE DEF g
      <4> QED
        BY <3>2, <4>1, <4>2
    <3>7. \A y : (\E i \in 1 .. k + 1 : W[i] = y) <=> (\E i \in 1 .. k : W[i] = y) \/ y = x
      <4>1. \A i \in 1 .. k + 1 : i = k + 1 \/ i \in 1 .. k
        BY <1>4
      <4>2. k + 1 \in 1 .. k + 1 /\ 1 .. k \subseteq 1 .. k + 1
        BY <1>4
      <4> QED
        BY <4>1, <4>2
    <3>8. \A i, j \in 1 .. Len(g) : i < j => FirstAt(W, g[i]) < FirstAt(W, g[j])
      <4> SUFFICES ASSUME NEW i \in 1 .. Len(g), NEW j \in 1 .. Len(g), i < j
                   PROVE  FirstAt(W, g[i]) < FirstAt(W, g[j])
        OBVIOUS
      <4>1. i \in 1 .. Len(f) /\ g[i] = f[i]
        BY <3>2
      <4>2. CASE j \in 1 .. Len(f)
        BY <2>3, <3>2, <4>1, <4>2
      <4>3. CASE j = Len(f) + 1
        BY <3>2, <3>4, <3>5, <4>1, <4>3
      <4> QED
        BY <3>2, <4>2, <4>3
    <3>9. Kept(g, k + 1)
      <4> HIDE DEF g, x
      <4> QED
        BY <2>3, <3>6, <3>7, <3>8
    <3> HIDE DEF Kept, x
    <3> QED
      BY <3>1, <3>9, Zenon
  <2> QED
    BY <2>5, <2>6
<1>5. Kept(h[n], n)
  <2>1. \A k \in Nat : k \in T => k + 1 \in T
    <3> HIDE DEF Kept
    <3> QED
      BY <1>2, <1>4
  <2>2. \A k \in Nat : k \in T
    <3> HIDE DEF T
    <3> QED
      BY <1>3, <2>1, Induction
  <2> HIDE DEF Kept
  <2> QED
    BY <1>2, <2>2
<1>6. h[n] \in Seq(S)
  BY <1>1, <1>2
<1>7. DOMAIN h[n] = 1 .. Len(h[n])
  BY <1>6
<1> DEFINE F == FoldLeft(KeepFirst, <<>>, W)
<1>8. F \in Seq(S) /\ DOMAIN F = 1 .. Len(F) /\ Kept(F, n)
  BY <1>1, <1>5, <1>6, <1>7, Zenon
<1> HIDE DEF F
<1>9. ToSet(F) = ToSet(W)
  BY <1>2, <1>8 DEF ToSet
<1> QED
  BY <1>8, <1>9 DEF F

(* What a command line lists is a sequence of files.                          *)
LEMMA ListedIsASequence ==
  ASSUME NEW paths \in Arguments
  PROVE  Listed(paths) \in Seq(Nat)
BY ArgumentsAreLists, FlattenIsASequence DEF Listed

(* A batch: what became sources, what was skipped and what is left are, put   *)
(* together, each file once; each of the three is in the order of the command *)
(* line, and what is left comes after the rest.                               *)
Rising(W, files) ==
  \A i, j \in 1 .. Len(files) : i < j => FirstAt(W, files[i]) < FirstAt(W, files[j])
Accounted(W, did, missed, rest) ==
  /\ did \in Seq(Nat) /\ missed \in Seq(Nat) /\ rest \in Seq(Nat)
  /\ \A f : (Contains(did, f) \/ Contains(missed, f) \/ Contains(rest, f)) <=> Contains(W, f)
  /\ Len(did) + Len(missed) + Len(rest) = Cardinality(ToSet(W))
  /\ Rising(W, did) /\ Rising(W, missed) /\ Rising(W, rest)
  /\ \A f, g : ((Contains(did, f) \/ Contains(missed, f)) /\ Contains(rest, g)) =>
                 FirstAt(W, f) < FirstAt(W, g)

LEMMA ContainedIsInside ==
  ASSUME NEW S, NEW files \in Seq(S)
  PROVE  \A f : Contains(files, f) <=> f \in ToSet(files)
BY DEF Contains, ToSet

LEMMA RisingIsCounted ==
  ASSUME NEW W, NEW files \in Seq(Nat), Rising(W, files),
         \A i \in 1 .. Len(files) : FirstAt(W, files[i]) \in Nat
  PROVE  Len(files) = Cardinality(ToSet(files))
<1>1. files \in [1 .. Len(files) -> ToSet(files)] /\ Len(files) \in Nat
  BY DEF ToSet
<1>2. ASSUME NEW i \in 1 .. Len(files), NEW j \in 1 .. Len(files), files[i] = files[j]
      PROVE  i = j
  <2>1. ~(i < j) /\ ~(j < i)
    BY <1>2 DEF Rising
  <2> QED
    BY <1>1, <2>1
<1>3. \A y \in ToSet(files) : \E i \in 1 .. Len(files) : files[i] = y
  BY DEF ToSet
<1>4. files \in Bijection(1 .. Len(files), ToSet(files))
  BY <1>1, <1>2, <1>3 DEF Bijection, Injection, IsInjective, Surjection
<1> QED
  BY <1>1, <1>4, FS_CountingElements DEF ExistsBijection

LEMMA AllIsLeft ==
  ASSUME NEW W \in Seq(Nat)
  PROVE  Accounted(W, <<>>, <<>>, FoldLeft(KeepFirst, <<>>, W))
<1> DEFINE F == FoldLeft(KeepFirst, <<>>, W)
<1>1. /\ F \in Seq(Nat) /\ ToSet(F) = ToSet(W)
      /\ \A i, j \in DOMAIN F : i < j => FirstAt(W, F[i]) < FirstAt(W, F[j])
  BY KeepFirstKeeps
<1> HIDE DEF F
<1>2. DOMAIN F = 1 .. Len(F)
  BY <1>1
<1>3. Rising(W, F)
  BY <1>1, <1>2 DEF Rising
<1>4. \A f : Contains(F, f) <=> Contains(W, f)
  BY <1>1, ContainedIsInside
<1>5. \A i \in 1 .. Len(F) : FirstAt(W, F[i]) \in Nat
  <2> SUFFICES ASSUME NEW i \in 1 .. Len(F) PROVE FirstAt(W, F[i]) \in Nat
    OBVIOUS
  <2>1. PICK k \in 1 .. Len(W) : W[k] = F[i]
    BY <1>4 DEF Contains
  <2> QED
    BY <2>1, FirstAtIsFirst
<1>6. Len(F) = Cardinality(ToSet(W))
  BY <1>1, <1>3, <1>5, RisingIsCounted
<1>7. /\ <<>> \in Seq(Nat) /\ Len(<<>>) = 0 /\ \A f : ~Contains(<<>>, f)
      /\ Rising(W, <<>>)
  BY DEF Contains, Rising
<1>8. Len(F) \in Nat
  BY <1>1
<1>9. Accounted(W, <<>>, <<>>, F)
  BY <1>1, <1>3, <1>4, <1>6, <1>7, <1>8 DEF Accounted
<1> QED
  BY <1>9 DEF F

LEMMA LastIsContained ==
  ASSUME NEW files \in Seq(Nat), NEW x \in Nat
  PROVE  \A f : Contains(Append(files, x), f) <=> Contains(files, f) \/ f = x
<1>1. \A i \in 1 .. Len(files) : Append(files, x)[i] = files[i]
  OBVIOUS
<1>2. Len(Append(files, x)) = Len(files) + 1 /\ Append(files, x)[Len(files) + 1] = x /\ Len(files) \in Nat
  OBVIOUS
<1>3. \A i \in 1 .. Len(files) + 1 : i \in 1 .. Len(files) \/ i = Len(files) + 1
  BY <1>2
<1>4. 1 .. Len(files) \subseteq 1 .. Len(files) + 1 /\ Len(files) + 1 \in 1 .. Len(files) + 1
  BY <1>2
<1> QED
  BY <1>1, <1>2, <1>3, <1>4 DEF Contains

LEMMA LastIsLast ==
  ASSUME NEW W, NEW files \in Seq(Nat), NEW x \in Nat, Rising(W, files),
         \A f : Contains(files, f) => FirstAt(W, f) < FirstAt(W, x)
  PROVE  Rising(W, Append(files, x))
<1> DEFINE g == Append(files, x)
<1>1. /\ Len(g) = Len(files) + 1 /\ Len(files) \in Nat /\ g[Len(files) + 1] = x
      /\ \A i \in 1 .. Len(files) : g[i] = files[i]
  OBVIOUS
<1> HIDE DEF g
<1>2. ASSUME NEW i \in 1 .. Len(g), NEW j \in 1 .. Len(g), i < j
      PROVE  FirstAt(W, g[i]) < FirstAt(W, g[j])
  <2>1. i \in 1 .. Len(files) /\ g[i] = files[i]
    BY <1>1, <1>2
  <2>2. CASE j \in 1 .. Len(files)
    BY <1>1, <1>2, <2>1, <2>2 DEF Rising
  <2>3. CASE j = Len(files) + 1
    <3>1. Contains(files, g[i])
      BY <2>1 DEF Contains
    <3> QED
      BY <1>1, <2>3, <3>1
  <2> QED
    BY <1>1, <2>2, <2>3
<1>3. Rising(W, g)
  BY <1>2 DEF Rising
<1> QED
  BY <1>3 DEF g

LEMMA RestIsAfter ==
  ASSUME NEW W, NEW files \in Seq(Nat), files # <<>>, Rising(W, files)
  PROVE  /\ Head(files) \in Nat /\ Contains(files, Head(files))
         /\ Tail(files) \in Seq(Nat) /\ Len(files) = Len(Tail(files)) + 1
         /\ \A f : Contains(files, f) <=> Contains(Tail(files), f) \/ f = Head(files)
         /\ Rising(W, Tail(files))
         /\ \A f : Contains(Tail(files), f) => FirstAt(W, Head(files)) < FirstAt(W, f)
<1> DEFINE t == Tail(files)
           x == Head(files)
<1>1. /\ x = files[1] /\ t \in Seq(Nat) /\ Len(files) = Len(t) + 1 /\ Len(t) \in Nat
      /\ \A i \in 1 .. Len(t) : t[i] = files[i + 1]
  OBVIOUS
<1> HIDE DEF t, x
<1>2. 1 \in 1 .. Len(files) /\ x \in Nat
  BY <1>1
<1>3. \A i \in 1 .. Len(files) : i = 1 \/ (i - 1 \in 1 .. Len(t) /\ t[i - 1] = files[i])
  <2> SUFFICES ASSUME NEW i \in 1 .. Len(files), i # 1
               PROVE  i - 1 \in 1 .. Len(t) /\ t[i - 1] = files[i]
    OBVIOUS
  <2>1. i - 1 \in 1 .. Len(t) /\ (i - 1) + 1 = i
    BY <1>1
  <2> QED
    BY <1>1, <2>1
<1>4. \A i \in 1 .. Len(t) : i + 1 \in 1 .. Len(files) /\ 1 < i + 1
  BY <1>1
<1>5. \A f : Contains(files, f) <=> Contains(t, f) \/ f = x
  BY <1>1, <1>2, <1>3, <1>4 DEF Contains
<1>6. Rising(W, t)
  <2> SUFFICES ASSUME NEW i \in 1 .. Len(t), NEW j \in 1 .. Len(t), i < j
               PROVE  FirstAt(W, t[i]) < FirstAt(W, t[j])
    BY DEF Rising
  <2>1. i + 1 < j + 1 /\ t[i] = files[i + 1] /\ t[j] = files[j + 1]
    BY <1>1
  <2> QED
    BY <1>4, <2>1 DEF Rising
<1>7. \A f : Contains(t, f) => FirstAt(W, x) < FirstAt(W, f)
  BY <1>1, <1>2, <1>4 DEF Rising, Contains
<1> QED
  BY <1>1, <1>2, <1>5, <1>6, <1>7 DEF t, x

LEMMA NextIsAccounted ==
  ASSUME NEW W, NEW did, NEW missed, NEW rest, Accounted(W, did, missed, rest), rest # <<>>
  PROVE  /\ Accounted(W, Append(did, Head(rest)), missed, Tail(rest))
         /\ Accounted(W, did, Append(missed, Head(rest)), Tail(rest))
<1> DEFINE x == Head(rest)
<1>1. did \in Seq(Nat) /\ missed \in Seq(Nat) /\ rest \in Seq(Nat) /\ Rising(W, rest)
  BY DEF Accounted
<1>2. /\ x \in Nat /\ Contains(rest, x)
      /\ Tail(rest) \in Seq(Nat) /\ Len(rest) = Len(Tail(rest)) + 1
      /\ \A f : Contains(rest, f) <=> Contains(Tail(rest), f) \/ f = x
      /\ Rising(W, Tail(rest))
      /\ \A f : Contains(Tail(rest), f) => FirstAt(W, x) < FirstAt(W, f)
  BY <1>1, RestIsAfter
<1> HIDE DEF x
<1>3. ASSUME NEW files \in Seq(Nat), Rising(W, files),
             \A f : Contains(files, f) => Contains(did, f) \/ Contains(missed, f)
      PROVE  /\ Rising(W, Append(files, x)) /\ Append(files, x) \in Seq(Nat)
             /\ Len(Append(files, x)) = Len(files) + 1
             /\ \A f : Contains(Append(files, x), f) <=> Contains(files, f) \/ f = x
  <2>1. \A f : Contains(files, f) => FirstAt(W, f) < FirstAt(W, x)
    BY <1>2, <1>3 DEF Accounted
  <2>2. Rising(W, Append(files, x))
    BY <1>2, <1>3, <2>1, LastIsLast
  <2> QED
    BY <1>2, <1>3, <2>2, LastIsContained
<1>4. /\ Len(did) \in Nat /\ Len(missed) \in Nat /\ Len(Tail(rest)) \in Nat
  BY <1>1, <1>2
<1>5. Accounted(W, Append(did, x), missed, Tail(rest))
  <2>1. /\ Rising(W, Append(did, x)) /\ Append(did, x) \in Seq(Nat)
        /\ Len(Append(did, x)) = Len(did) + 1
        /\ \A f : Contains(Append(did, x), f) <=> Contains(did, f) \/ f = x
    BY <1>1, <1>3 DEF Accounted
  <2> QED
    BY <1>1, <1>2, <1>4, <2>1 DEF Accounted
<1>6. Accounted(W, did, Append(missed, x), Tail(rest))
  <2>1. /\ Rising(W, Append(missed, x)) /\ Append(missed, x) \in Seq(Nat)
        /\ Len(Append(missed, x)) = Len(missed) + 1
        /\ \A f : Contains(Append(missed, x), f) <=> Contains(missed, f) \/ f = x
    BY <1>1, <1>3 DEF Accounted
  <2> QED
    BY <1>1, <1>2, <1>4, <2>1 DEF Accounted
<1> QED
  BY <1>5, <1>6 DEF x

(* The invariant: a run that has read its command line has accounted for its  *)
(* batch, and past the batch nothing is left.                                 *)
BatchDomains ==
  /\ DOMAIN at = Runs /\ DOMAIN asked = Runs /\ DOMAIN todo = Runs
  /\ DOMAIN sources = Runs /\ DOMAIN skipped = Runs
PastBatch == {"texting", "texted", "describing", "described", "enriching", "done"}
Batched(r) ==
  /\ at[r] = "new" => sources[r] = <<>> /\ skipped[r] = <<>>
  /\ at[r] # "new" =>
       /\ asked[r] \in Arguments
       /\ Accounted(Listed(asked[r]), sources[r], skipped[r], todo[r])
  /\ at[r] \in PastBatch => todo[r] = <<>>
BatchInv == BatchDomains /\ \A r \in Runs : Batched(r)

LEMMA InitBatchInv == Init => BatchInv
BY DEF Init, BatchInv, BatchDomains, Batched, PastBatch

(* Where only the place of one run in main moves on.                          *)
LEMMA MovingOn ==
  ASSUME BatchInv, NEW r \in Runs, UNCHANGED <<asked, todo, sources, skipped>>,
         NEW to, at' = [at EXCEPT ![r] = to], at[r] # "new", to # "new",
         to \in PastBatch => at[r] \in PastBatch \/ todo[r] = <<>>
  PROVE  BatchInv'
<1>1. BatchDomains'
  BY DEF BatchInv, BatchDomains
<1>2. ASSUME NEW q \in Runs PROVE Batched(q)'
  <2>1. CASE q = r
    BY <2>1 DEF BatchInv, BatchDomains, Batched
  <2>2. CASE q # r
    BY <2>2 DEF BatchInv, BatchDomains, Batched
  <2> QED
    BY <2>1, <2>2
<1> QED
  BY <1>1, <1>2 DEF BatchInv

LEMMA NextBatchInv == BatchInv /\ [Next]_vars => BatchInv'
<1> SUFFICES ASSUME BatchInv, [Next]_vars PROVE BatchInv'
  OBVIOUS
<1>1. ASSUME NEW r \in Runs, NEW p \in Pids, NEW override \in BOOLEAN,
             NEW paths \in Arguments, Start(r, p, override, paths)
      PROVE  BatchInv'
  <2>1. BatchDomains'
    BY <1>1 DEF BatchInv, BatchDomains, Start, Go
  <2>2. ASSUME NEW q \in Runs PROVE Batched(q)'
    <3>1. CASE q = r
      <4>1. /\ asked'[r] = paths /\ todo'[r] = FoldLeft(KeepFirst, <<>>, Listed(paths))
            /\ sources'[r] = <<>> /\ skipped'[r] = <<>>
            /\ at'[r] \in {"failed", "prepare"}
        BY <1>1 DEF Start, Go, BatchInv, BatchDomains, Batched, ResolveInputFiles
      <4>2. Accounted(Listed(paths), <<>>, <<>>, FoldLeft(KeepFirst, <<>>, Listed(paths)))
        BY ListedIsASequence, AllIsLeft
      <4>3. Accounted(Listed(asked'[r]), sources'[r], skipped'[r], todo'[r])
        BY <4>1, <4>2
      <4> QED
        BY <3>1, <4>1, <4>3 DEF Batched, PastBatch
    <3>2. CASE q # r
      BY <1>1, <3>2 DEF Start, Go, BatchInv, BatchDomains, Batched
    <3> QED
      BY <3>1, <3>2
  <2> QED
    BY <2>1, <2>2 DEF BatchInv
<1>2. ASSUME NEW r \in Runs, NEW seen \in BOOLEAN, Extracted(r, seen) PROVE BatchInv'
  <2>1. BatchDomains'
    BY <1>2 DEF BatchInv, BatchDomains, Extracted, runVars
  <2>2. ASSUME NEW q \in Runs PROVE Batched(q)'
    <3>1. CASE q = r
      <4>1. /\ at[r] = "batch" /\ at'[r] = "batch" /\ asked'[r] = asked[r]
            /\ todo[r] # <<>> /\ todo'[r] = Tail(todo[r])
            /\ sources'[r] = Append(sources[r], Head(todo[r])) /\ skipped'[r] = skipped[r]
        BY <1>2 DEF Extracted, runVars, BatchInv, BatchDomains
      <4>2. asked[r] \in Arguments /\ Accounted(Listed(asked[r]), sources[r], skipped[r], todo[r])
        BY <4>1 DEF BatchInv, Batched
      <4>3. Accounted(Listed(asked'[r]), sources'[r], skipped'[r], todo'[r])
        BY <4>1, <4>2, NextIsAccounted
      <4> QED
        BY <3>1, <4>1, <4>2, <4>3 DEF Batched, PastBatch
    <3>2. CASE q # r
      BY <1>2, <3>2 DEF Extracted, runVars, BatchInv, BatchDomains, Batched
    <3> QED
      BY <3>1, <3>2
  <2> QED
    BY <2>1, <2>2 DEF BatchInv
<1>3. ASSUME NEW r \in Runs, NEW seen \in BOOLEAN, Skip(r, seen) PROVE BatchInv'
  <2>1. BatchDomains'
    BY <1>3 DEF BatchInv, BatchDomains, Skip, runVars
  <2>2. ASSUME NEW q \in Runs PROVE Batched(q)'
    <3>1. CASE q = r
      <4>1. /\ at[r] = "batch" /\ at'[r] = "batch" /\ asked'[r] = asked[r]
            /\ todo[r] # <<>> /\ todo'[r] = Tail(todo[r])
            /\ skipped'[r] = Append(skipped[r], Head(todo[r])) /\ sources'[r] = sources[r]
        BY <1>3 DEF Skip, runVars, BatchInv, BatchDomains
      <4>2. asked[r] \in Arguments /\ Accounted(Listed(asked[r]), sources[r], skipped[r], todo[r])
        BY <4>1 DEF BatchInv, Batched
      <4>3. Accounted(Listed(asked'[r]), sources'[r], skipped'[r], todo'[r])
        BY <4>1, <4>2, NextIsAccounted
      <4> QED
        BY <3>1, <4>1, <4>2, <4>3 DEF Batched, PastBatch
    <3>2. CASE q # r
      BY <1>3, <3>2 DEF Skip, runVars, BatchInv, BatchDomains, Batched
    <3> QED
      BY <3>1, <3>2
  <2> QED
    BY <2>1, <2>2 DEF BatchInv
<1>4. ASSUME NEW r \in Runs,
             \/ PrepareOutputDir(r) \/ AllFailed(r)
             \/ OpenText(r) \/ CloseText(r) \/ OpenMeta(r) \/ CloseMeta(r)
             \/ Report(r) \/ WriteTmp(r) \/ ReplaceMeta(r) \/ Abort(r)
      PROVE  BatchInv'
  <2>1. UNCHANGED <<asked, todo, sources, skipped>>
    BY <1>4 DEF PrepareOutputDir, AllFailed, OpenText, CloseText, OpenMeta, CloseMeta,
                Report, WriteTmp, ReplaceMeta, Abort, runVars, batchVars
  <2>2. \E to : /\ at' = [at EXCEPT ![r] = to] /\ at[r] # "new" /\ to # "new"
                /\ to \in PastBatch => at[r] \in PastBatch \/ todo[r] = <<>>
    <3>1. CASE PrepareOutputDir(r)
      BY <3>1 DEF PrepareOutputDir, Go, PastBatch
    <3>2. CASE AllFailed(r)
      BY <3>2 DEF AllFailed, Go, PastBatch
    <3>3. CASE OpenText(r)
      BY <3>3 DEF OpenText, Go, PastBatch
    <3>4. CASE CloseText(r)
      BY <3>4 DEF CloseText, Go, PastBatch
    <3>5. CASE OpenMeta(r)
      BY <3>5 DEF OpenMeta, Go, PastBatch
    <3>6. CASE CloseMeta(r)
      BY <3>6 DEF CloseMeta, Go, PastBatch
    <3>7. CASE Report(r)
      BY <3>7 DEF Report, Go, PastBatch
    <3>8. CASE WriteTmp(r)
      BY <3>8 DEF WriteTmp, Go, PastBatch
    <3>9. CASE ReplaceMeta(r)
      BY <3>9 DEF ReplaceMeta, Go, PastBatch
    <3>10. CASE Abort(r)
      <4>1. at' = [at EXCEPT ![r] = "failed"] /\ at[r] # "new"
        BY <3>10 DEF Abort, Live
      <4>2. "failed" # "new" /\ "failed" \notin PastBatch
        BY DEF PastBatch
      <4> QED
        BY <4>1, <4>2
    <3> QED
      BY <1>4, <3>1, <3>2, <3>3, <3>4, <3>5, <3>6, <3>7, <3>8, <3>9, <3>10
  <2> QED
    BY <2>1, <2>2, MovingOn
<1>5. ASSUME UNCHANGED <<at, asked, todo, sources, skipped>> PROVE BatchInv'
  BY <1>5 DEF BatchInv, BatchDomains, Batched
<1>6. ASSUME NEW r \in Runs, Clean(r) PROVE BatchInv'
  BY <1>5, <1>6 DEF Clean, runVars, batchVars
<1>7. ASSUME NEW d \in Dirs, Occupy(d) PROVE BatchInv'
  BY <1>5, <1>7 DEF Occupy, runVars, batchVars
<1>8. CASE UNCHANGED vars
  BY <1>5, <1>8 DEF vars
<1> QED
  BY <1>1, <1>2, <1>3, <1>4, <1>6, <1>7, <1>8 DEF Next

LEMMA BatchesEnd == BatchInv => BatchesAreAccountedFor
<1> SUFFICES ASSUME BatchInv, NEW r \in Runs, at[r] = "done"
             PROVE  /\ ToSet(sources[r]) \cup ToSet(skipped[r]) = ToSet(Wanted(r))
                    /\ Len(sources[r]) + Len(skipped[r]) = Cardinality(ToSet(Wanted(r)))
                    /\ InOrder(sources[r], r) /\ InOrder(skipped[r], r)
  BY DEF BatchesAreAccountedFor
<1> DEFINE W == Wanted(r)
<1>1. W \in Seq(Nat) /\ Accounted(W, sources[r], skipped[r], <<>>)
  BY ListedIsASequence DEF BatchInv, Batched, PastBatch, Wanted
<1>2. Len(<<>>) = 0 /\ \A f : ~Contains(<<>>, f)
  BY DEF Contains
<1>3. sources[r] \in Seq(Nat) /\ skipped[r] \in Seq(Nat)
  BY <1>1 DEF Accounted
<1>4. ToSet(sources[r]) \cup ToSet(skipped[r]) = ToSet(W)
  <2>1. \A f : Contains(sources[r], f) \/ Contains(skipped[r], f) <=> Contains(W, f)
    BY <1>1, <1>2 DEF Accounted
  <2> HIDE DEF W
  <2> QED
    BY <1>1, <1>3, <2>1, ContainedIsInside
<1>5. Len(sources[r]) + Len(skipped[r]) = Cardinality(ToSet(W))
  <2>1. Len(sources[r]) \in Nat /\ Len(skipped[r]) \in Nat
    BY <1>3
  <2>2. Len(sources[r]) + Len(skipped[r]) + Len(<<>>) = Cardinality(ToSet(W))
    BY <1>1, Zenon DEF Accounted
  <2>3. Len(sources[r]) + Len(skipped[r]) + 0 = Len(sources[r]) + Len(skipped[r])
    BY <2>1
  <2> QED
    BY <1>2, <2>2, <2>3, Zenon
<1>6. ASSUME NEW files \in Seq(Nat), Rising(W, files) PROVE InOrder(files, r)
  <2>1. DOMAIN files = 1 .. Len(files)
    OBVIOUS
  <2>2. \A f : Named(r, f) = FirstAt(W, f)
    BY Zenon DEF Named, FirstAt
  <2> QED
    BY <1>6, <2>1, <2>2 DEF InOrder, Rising
<1> QED
  BY <1>1, <1>3, <1>4, <1>5, <1>6 DEF Accounted
-----------------------------------------------------------------------------
(* What a source's text is drawn from.                                        *)
IsOfDoc ==
  /\ drawn.of = doc \/ (drawn.by = "ebook_convert" /\ silent)
  /\ drawn.by \in tried \/ (drawn.by = "pdf_inspector" /\ mode = "text")
Drawn ==
  /\ stage \in {"sanitize", "measure", "extracted"} => IsOfDoc
  /\ stage \in {"measure", "extracted"} => Source!Visible(drawn.is)

LEMMA InitDrawn == Source!Init => Drawn
BY DEF Source!Init, Drawn

LEMMA NextDrawn == Drawn /\ [Source!Next]_(Source!vars) => Drawn'
<1> SUFFICES ASSUME Drawn, [Source!Next]_(Source!vars) PROVE Drawn'
  OBVIOUS
<1> USE DEF Drawn, IsOfDoc, Source!Visible, Source!batch, Source!file, Source!output,
        Source!Skip
<1>1. ASSUME NEW m \in {"text", "technical"}, NEW i \in {"yes", "no", "ask"},
             NEW setup \in Setups, Source!ParseArguments(m, i, setup)
      PROVE  Drawn'
  BY <1>1 DEF Source!ParseArguments
<1>2. CASE Source!RunDependencyCheck
  BY <1>2 DEF Source!RunDependencyCheck
<1>3. ASSUME NEW e \in Exts, NEW h \in Heads, Source!NextSource(e, h)
      PROVE  Drawn'
  BY <1>3 DEF Source!NextSource
<1>4. ASSUME NEW markdown \in Source!Given, NEW doubts \in SUBSET Source!Doubts,
             Source!InspectPdf(markdown, doubts)
      PROVE  Drawn'
  BY <1>4 DEF Source!InspectPdf, Source!ResultFromInspector
<1>5. CASE \/ Source!NotInspected \/ Source!Interrupted \/ Source!LooksImageOnly
           \/ Source!ReadTextFileFails \/ Source!NotAvailable \/ Source!RejectedMarkup
           \/ Source!UnsafeXml \/ Source!Exhausted \/ Source!Sanitize
  BY <1>5 DEF Source!NotInspected, Source!Interrupted, Source!LooksImageOnly,
     Source!ReadTextFileFails, Source!NotAvailable, Source!RejectedMarkup,
     Source!UnsafeXml, Source!Exhausted, Source!Sanitize
<1>6. ASSUME NEW exists \in BOOLEAN, Source!Sniff(exists) \/ Source!Measure(exists)
      PROVE  Drawn'
  BY <1>6 DEF Source!Sniff, Source!Measure
<1>7. ASSUME NEW got \in SUBSET Source!Missing, Source!PrepareDependencies(got)
      PROVE  Drawn'
  BY <1>7 DEF Source!PrepareDependencies
<1>8. ASSUME NEW answer \in Source!Answers, Source!Parse(Head(chain), answer)
      PROVE  Drawn'
  BY <1>8 DEF Source!Parse
<1>9. ASSUME NEW wrote \in BOOLEAN, NEW succeeded \in BOOLEAN,
             NEW answer \in Source!Given, Source!EbookConvert(wrote, succeeded, answer)
      PROVE  Drawn'
  BY <1>9 DEF Source!EbookConvert, Source!Converted
<1>10. CASE UNCHANGED Source!vars
  BY <1>10 DEF Source!vars
<1> QED
  BY <1>1, <1>2, <1>3, <1>4, <1>5, <1>6, <1>7, <1>8, <1>9, <1>10 DEF Source!Next
-----------------------------------------------------------------------------
(* The formats, and what the parsers of each need.                            *)
Formats == {"pdf", "epub", "text", "html", "docx", "rtf", "calibre"}
ParserNames ==
  {"docling", "pdftotext", "pypdf", "pdfminer", "ebooklib", "zipfile", "plain_text",
   "trafilatura", "bs4", "html_parser", "docx", "zipfile_docx", "striprtf", "rtf_regex",
   "ebook_convert"}
Needs(f, parser) == Source!Parsers[f][parser].needs

LEMMA NeedsOfParsers ==
  /\ DOMAIN Source!Parsers = Formats
  /\ Needs("pdf", "pdftotext") = {"pdftotext"} /\ Needs("pdf", "pypdf") = {"pypdf"}
  /\ Needs("pdf", "pdfminer") = {"pdfminer"}
  /\ Needs("epub", "ebooklib") = {"ebooklib", "bs4"}
  /\ Needs("html", "trafilatura") = {"trafilatura"} /\ Needs("html", "bs4") = {"bs4"}
  /\ Needs("html", "html_parser") = {}
  /\ Needs("docx", "docx") = {"docx"} /\ Needs("rtf", "striprtf") = {"striprtf"}
  /\ Needs("calibre", "ebook_convert") = {"ebook_convert"}
BY DEF Needs, Formats, Source!Parsers, Source!PdfParsers, Source!EpubParsers,
       Source!TextParsers, Source!HtmlParsers, Source!DocxParsers, Source!RtfParsers,
       Source!CalibreParsers, Source!Parser

(* When a format's group is satisfied, one of its parsers that need a tool of *)
(* the group can be used.                                                     *)
LEMMA SatisfiedHasParser ==
  ASSUME format \in Formats, format \in DOMAIN Source!DependencyGroups,
         Source!Satisfied(Source!DependencyGroups[format])
  PROVE  \E parser \in ToSet(Source!TextChain[format]) :
           /\ Source!Has(parser)
           /\ Needs(format, parser) # {}
           /\ Needs(format, parser) \subseteq Source!DependencyGroups[format].uses
<1> USE NeedsOfParsers
     DEF Needs, Source!Satisfied, Source!DependencyGroups, Source!Group,
         Source!TextChain, ToSet, Source!Has
<1>1. CASE format = "pdf"
  BY <1>1
<1>2. CASE format = "epub"
  BY <1>2
<1>3. CASE format = "html"
  BY <1>3
<1>4. CASE format = "docx"
  BY <1>4
<1>5. CASE format = "rtf"
  BY <1>5
<1>6. CASE format = "calibre"
  BY <1>6
<1>7. CASE format = "text"
  BY <1>7
<1> QED
  BY <1>1, <1>2, <1>3, <1>4, <1>5, <1>6, <1>7 DEF Formats

LEMMA ConcatHasBoth ==
  ASSUME NEW S, NEW s \in Seq(S), NEW t \in Seq(S)
  PROVE  s \o t \in Seq(S) /\ ToSet(s \o t) = ToSet(s) \cup ToSet(t)
<1>1. \A u \in Seq(S) : ToSet(u) = Range(u)
  BY DEF ToSet, Range
<1>2. s \o t \in Seq(S)
  OBVIOUS
<1>3. Range(s \o t) = Range(s) \cup Range(t)
  BY RangeConcatenation
<1> QED
  BY <1>1, <1>2, <1>3

(* The chain of a format has all its parsers, in either mode.                 *)
LEMMA ChainHasAll ==
  ASSUME format \in Formats
  PROVE  /\ Source!Chain(format) \in Seq(ParserNames)
         /\ ToSet(Source!Chain(format)) \subseteq
               {"docling"} \cup ToSet(Source!TextChain[format])
         /\ ToSet(Source!TextChain[format]) \subseteq ToSet(Source!Chain(format))
<1> DEFINE First == IF format = "pdf" /\ mode = "technical" THEN <<"docling">> ELSE <<>>
<1>1. Source!TextChain[format] \in Seq(ParserNames)
  <2> USE DEF ParserNames, Source!TextChain
  <2>1. CASE format = "pdf"
    BY <2>1
  <2>2. CASE format = "html"
    BY <2>2
  <2>3. CASE format = "epub"
    BY <2>3
  <2>4. CASE format = "docx"
    BY <2>4
  <2>5. CASE format = "rtf"
    BY <2>5
  <2>6. CASE format = "text"
    BY <2>6
  <2>7. CASE format = "calibre"
    BY <2>7
  <2> QED
    BY <2>1, <2>2, <2>3, <2>4, <2>5, <2>6, <2>7 DEF Formats
<1>2. First \in Seq(ParserNames)
  <2>1. <<"docling">> \in Seq(ParserNames) /\ <<>> \in Seq(ParserNames)
    BY DEF ParserNames
  <2> QED
    BY <2>1
<1>3. Source!Chain(format) = First \o Source!TextChain[format]
  BY DEF Source!Chain
<1>4. ToSet(First) \subseteq {"docling"}
  BY DEF ToSet
<1> HIDE DEF First
<1> QED
  BY <1>1, <1>2, <1>3, <1>4, ConcatHasBoth

LEMMA CalibreIsNotOffered == format = "calibre" => Source!Missing = {}
<1>1. format = "calibre" => Source!Offers = {}
  BY DEF Source!Offers
<1> QED
  BY <1>1 DEF Source!Missing

(* What has left the chain was tried, or could not be; what is taken to be    *)
(* sanitized is the answer of the parser the chain stopped at.                *)
Full == Source!Chain(format)
Passed(i) ==
  /\ i \in 1..(Len(Full) + 1)
  /\ chain = SubSeq(Full, i, Len(Full))
  /\ \A j \in 1..(i - 1) : Source!Has(Full[j]) => Full[j] \in tried
Covered ==
  /\ stage \in {"prepare", "parse", "sanitize"} => format \in Formats
  /\ stage \in {"parse", "sanitize"} => \E i \in Nat : Passed(i)
  /\ stage = "sanitize" => chain # <<>> /\ Head(chain) = drawn.by /\ drawn.by \in tried

(* --check is asked once the tools are known, and tools are only added.       *)
Reported ==
  /\ DOMAIN report = DOMAIN Source!DependencyGroups
  /\ stage = "arguments" => \A g \in DOMAIN report : report[g] = "unasked"
  /\ \A g \in DOMAIN report :
       report[g] = "ready" => Source!Satisfied(Source!DependencyGroups[g])

CoveredInv == Covered /\ Reported /\ FallbackIsComplete

LEMMA InitCovered == Source!Init => CoveredInv
BY DEF Source!Init, CoveredInv, Covered, Reported, FallbackIsComplete,
       Source!FallbackIsComplete, Source!GivenUp

(* Once the chain is gone, or bs4 has answered, nothing of it is left to try. *)
LEMMA GoneIsTried ==
  ASSUME format \in Formats, NEW i \in Nat, Passed(i),
         \/ chain = <<>>
         \/ Head(chain) = "bs4" /\ chain # <<>> /\ "bs4" \in tried
  PROVE  \A parser \in ToSet(Source!TextChain[format]) :
           Source!Has(parser) =>
             parser \in tried \/ (parser = "html_parser" /\ "bs4" \in tried)
<1>1. Full \in Seq(ParserNames)
  BY ChainHasAll DEF Full
<1>2. ToSet(Source!TextChain[format]) \subseteq {Full[j] : j \in 1..Len(Full)}
  <2>1. ToSet(Source!TextChain[format]) \subseteq ToSet(Full)
    BY ChainHasAll DEF Full
  <2> QED
    BY <1>1, <2>1 DEF ToSet
<1>3. CASE chain = <<>>
  <2>1. i = Len(Full) + 1
    <3>1. i \in 1..Len(Full) => Len(SubSeq(Full, i, Len(Full))) > 0
      BY <1>1, SubSeqProperties
    <3> QED
      BY <1>1, <1>3, <3>1 DEF Passed
  <2> QED
    BY <1>1, <1>2, <2>1 DEF Passed
<1>4. CASE Head(chain) = "bs4" /\ chain # <<>> /\ "bs4" \in tried
  <2>1. i \in 1..Len(Full) /\ Full[i] = "bs4"
    <3>1. i = Len(Full) + 1 => chain = <<>>
      BY <1>1, SubSeqEmpty DEF Passed
    <3>2. i \in 1..Len(Full) => Head(SubSeq(Full, i, Len(Full))) = Full[i]
      BY <1>1, HeadTailOfSubSeq
    <3> QED
      BY <1>1, <1>4, <3>1, <3>2 DEF Passed
  <2>2. format = "html" /\ Full = <<"trafilatura", "bs4", "html_parser">>
    <3>1. "bs4" \in ToSet(Source!TextChain[format])
      <4>1. "bs4" \in ToSet(Full)
        BY <1>1, <2>1 DEF ToSet
      <4> QED
        BY <4>1, ChainHasAll DEF Full
    <3>2. format = "html"
      BY <3>1 DEF Formats, Source!TextChain, ToSet
    <3> QED
      BY <3>2 DEF Full, Source!Chain, Source!TextChain
  <2>3. i = 2
    BY <2>1, <2>2
  <2> QED
    BY <1>4, <2>2, <2>3 DEF Passed, Source!TextChain, ToSet
<1> QED
  BY <1>3, <1>4

(* So the source may be given up.                                             *)
Complete ==
  /\ \A parser \in ToSet(Source!TextChain[format]) :
       Source!Has(parser) =>
         parser \in tried \/ (parser = "html_parser" /\ "bs4" \in tried)
  /\ Source!Ready => \E parser \in tried :
       /\ Needs(format, parser) # {}
       /\ Needs(format, parser) \subseteq Source!DependencyGroups[format].uses

LEMMA TriedIsComplete ==
  ASSUME format \in Formats, Reported,
         \A parser \in ToSet(Source!TextChain[format]) :
           Source!Has(parser) =>
             parser \in tried \/ (parser = "html_parser" /\ "bs4" \in tried)
  PROVE  Complete
<1>1. ASSUME Source!Ready
      PROVE  \E parser \in tried :
               /\ Needs(format, parser) # {}
               /\ Needs(format, parser) \subseteq Source!DependencyGroups[format].uses
  <2>1. /\ format \in DOMAIN Source!DependencyGroups
        /\ Source!Satisfied(Source!DependencyGroups[format])
    BY <1>1 DEF Source!Ready, Reported
  <2>2. PICK parser \in ToSet(Source!TextChain[format]) :
          /\ Source!Has(parser)
          /\ Needs(format, parser) # {}
          /\ Needs(format, parser) \subseteq Source!DependencyGroups[format].uses
    BY <2>1, SatisfiedHasParser
  <2>3. parser # "html_parser"
    BY <2>2, NeedsOfParsers DEF Formats, Source!TextChain, ToSet
  <2> QED
    BY <2>2, <2>3
<1> QED
  BY <1>1 DEF Complete

LEMMA CompleteIsKept ==
  ASSUME Complete, UNCHANGED <<format, tools, tried, report>>
  PROVE  FallbackIsComplete'
BY DEF Complete, Needs, FallbackIsComplete, Source!FallbackIsComplete, Source!Has,
       Source!Ready, Source!ToSet, ToSet

(* The parser at the head of the chain may be passed once it was tried, or    *)
(* cannot be used.                                                            *)
LEMMA PassHead ==
  ASSUME format \in Formats, NEW i \in Nat, Passed(i), chain # <<>>,
         chain' = Tail(chain), UNCHANGED <<format, mode, tools>>,
         tried \subseteq tried',
         Source!Has(Head(chain)) => Head(chain) \in tried'
  PROVE  Passed(i + 1)'
<1>1. Full \in Seq(ParserNames)
  BY ChainHasAll DEF Full
<1>2. i \in 1..Len(Full)
  BY <1>1, SubSeqEmpty DEF Passed
<1>3. Head(chain) = Full[i] /\ Tail(chain) = SubSeq(Full, i + 1, Len(Full))
  BY <1>1, <1>2, HeadTailOfSubSeq DEF Passed
<1>4. Full' = Full /\ \A parser : Source!Has(parser)' <=> Source!Has(parser)
  BY DEF Full, Source!Chain, Source!Has
<1> HIDE DEF Full
<1>5. \A j \in 1..i : Source!Has(Full[j]) => Full[j] \in tried'
  BY <1>2, <1>3 DEF Passed
<1> QED
  BY <1>1, <1>2, <1>3, <1>4, <1>5 DEF Passed

LEMMA KeepPassed ==
  ASSUME NEW i \in Nat, Passed(i), UNCHANGED <<chain, format, mode, tools>>,
         tried \subseteq tried'
  PROVE  Passed(i)'
<1>1. Full' = Full /\ \A parser : Source!Has(parser)' <=> Source!Has(parser)
  BY DEF Full, Source!Chain, Source!Has
<1> QED
  BY <1>1 DEF Passed

LEMMA NextCovered == CoveredInv /\ [Source!Next]_(Source!vars) => CoveredInv'
<1> SUFFICES ASSUME CoveredInv, [Source!Next]_(Source!vars) PROVE CoveredInv'
  OBVIOUS
<1> USE DEF Source!batch, Source!file, Source!Skip
<1>1. ASSUME UNCHANGED <<report, tools>>, stage' # "arguments"
      PROVE  Reported'
  BY <1>1 DEF CoveredInv, Reported, Source!Satisfied
<1>2. ASSUME stage' \notin {"prepare", "parse", "sanitize"}
      PROVE  Covered'
  BY <1>2 DEF Covered
<1>3. ASSUME stage' # "skipped" \/ why' \notin {"no text", "needs Calibre"}
      PROVE  FallbackIsComplete'
  BY <1>3 DEF FallbackIsComplete, Source!FallbackIsComplete, Source!GivenUp
<1>4. ASSUME NEW m \in {"text", "technical"}, NEW i \in {"yes", "no", "ask"},
             NEW setup \in Setups, Source!ParseArguments(m, i, setup)
      PROVE  CoveredInv'
  <2>1. Reported'
    BY <1>4 DEF CoveredInv, Reported, Source!ParseArguments
  <2> QED
    BY <1>2, <1>3, <1>4, <2>1 DEF CoveredInv, Source!ParseArguments
<1>5. CASE Source!RunDependencyCheck
  <2>1. \A g : Source!Status(g) = "ready" => Source!Satisfied(g)
    BY DEF Source!Status
  <2>2. Reported'
    BY <1>5, <2>1 DEF CoveredInv, Reported, Source!RunDependencyCheck, Source!Satisfied
  <2> QED
    BY <1>2, <1>3, <1>5, <2>2 DEF CoveredInv, Source!RunDependencyCheck
<1>6. CASE \/ \E e \in Exts, h \in Heads : Source!NextSource(e, h)
           \/ \E markdown \in Source!Given, doubts \in SUBSET Source!Doubts :
                Source!InspectPdf(markdown, doubts)
           \/ Source!NotInspected \/ Source!Interrupted \/ Source!LooksImageOnly
           \/ Source!ReadTextFileFails \/ Source!RejectedMarkup \/ Source!UnsafeXml
           \/ \E readable \in BOOLEAN : Source!Measure(readable)
  <2>1. UNCHANGED <<report, tools>> /\ stage' # "arguments"
    BY <1>6 DEF Source!NextSource, Source!InspectPdf, Source!ResultFromInspector,
       Source!NotInspected, Source!Interrupted, Source!LooksImageOnly,
       Source!ReadTextFileFails, Source!RejectedMarkup, Source!UnsafeXml, Source!Measure
  <2>2. /\ stage' \notin {"prepare", "parse", "sanitize"}
        /\ stage' # "skipped" \/ why' \notin {"no text", "needs Calibre"}
    BY <1>6 DEF Source!NextSource, Source!InspectPdf, Source!ResultFromInspector,
       Source!NotInspected, Source!Interrupted, Source!LooksImageOnly,
       Source!ReadTextFileFails, Source!RejectedMarkup, Source!UnsafeXml, Source!Measure
  <2> QED
    BY <1>1, <1>2, <1>3, <2>1, <2>2 DEF CoveredInv
<1>7. ASSUME NEW exists \in BOOLEAN, Source!Sniff(exists)
      PROVE  CoveredInv'
  <2>1. Covered'
    BY <1>7, NeedsOfParsers DEF Covered, Source!Sniff
  <2> QED
    BY <1>1, <1>3, <1>7, <2>1 DEF CoveredInv, Source!Sniff
<1>8. ASSUME NEW got \in SUBSET Source!Missing, Source!PrepareDependencies(got)
      PROVE  CoveredInv'
  <2>1. Reported'
    BY <1>8 DEF CoveredInv, Reported, Source!PrepareDependencies, Source!Satisfied
  <2>2. format \in Formats /\ format' = format /\ mode' = mode
    BY <1>8 DEF CoveredInv, Covered, Source!PrepareDependencies
  <2>3. Full' = Full /\ Full \in Seq(ParserNames)
    BY <2>2, ChainHasAll DEF Full, Source!Chain
  <2>4. chain' = Full
    BY <1>8 DEF Full, Source!PrepareDependencies
  <2>5. Passed(1)'
    BY <2>3, <2>4, SubSeqFull DEF Passed
  <2>6. Covered'
    BY <1>8, <2>2, <2>5 DEF Covered, Source!PrepareDependencies
  <2>7. ASSUME stage' = "skipped"
        PROVE  FallbackIsComplete'
    <3>1. format = "calibre" /\ "ebook_convert" \notin tools'
      BY <1>8, <2>7, CalibreIsNotOffered DEF Source!PrepareDependencies
    <3>2. \A parser \in ToSet(Source!TextChain[format]) : ~Source!Has(parser)'
      BY <2>2, <3>1, NeedsOfParsers DEF Needs, Source!TextChain, Source!Has, ToSet
    <3>3. ~Source!Ready'
      BY <2>1, <2>2, <3>1 DEF Reported, Source!Ready, Source!Satisfied,
         Source!DependencyGroups, Source!Group
    <3> QED
      BY <2>2, <3>2, <3>3 DEF FallbackIsComplete, Source!FallbackIsComplete,
         Source!ToSet, ToSet
  <2> QED
    BY <1>3, <1>8, <2>1, <2>6, <2>7 DEF CoveredInv, Source!PrepareDependencies
<1>9. CASE Source!NotAvailable
  <2>1. PICK i \in Nat : Passed(i)
    BY <1>9 DEF CoveredInv, Covered, Source!NotAvailable
  <2>2. format \in Formats
    BY <1>9 DEF CoveredInv, Covered, Source!NotAvailable
  <2>3. Passed(i + 1)'
    BY <1>9, <2>1, <2>2, PassHead DEF Source!NotAvailable
  <2>4. Covered'
    BY <1>9, <2>2, <2>3 DEF Covered, Source!NotAvailable
  <2> QED
    BY <1>1, <1>3, <1>9, <2>4 DEF CoveredInv, Source!NotAvailable
<1>10. ASSUME NEW answer \in Source!Answers, Source!Parse(Head(chain), answer)
       PROVE  CoveredInv'
  <2>1. PICK i \in Nat : Passed(i)
    BY <1>10 DEF CoveredInv, Covered, Source!Parse
  <2>2. format \in Formats /\ format' = format
    BY <1>10 DEF CoveredInv, Covered, Source!Parse
  <2>3. CASE UNCHANGED chain
    <3>1. Passed(i)'
      BY <1>10, <2>1, <2>3, KeepPassed DEF Source!Parse
    <3> QED
      BY <1>1, <1>3, <1>10, <2>2, <2>3, <3>1 DEF CoveredInv, Covered, Source!Parse
  <2>4. CASE chain' = Tail(chain) /\ stage' = "parse"
    <3>1. Passed(i + 1)'
      BY <1>10, <2>1, <2>2, <2>4, PassHead DEF Source!Parse
    <3> QED
      BY <1>1, <1>3, <1>10, <2>2, <2>4, <3>1 DEF CoveredInv, Covered, Source!Parse
  <2> QED
    BY <1>10, <2>3, <2>4 DEF Source!Parse
<1>11. ASSUME NEW wrote \in BOOLEAN, NEW succeeded \in BOOLEAN,
              NEW answer \in Source!Given, Source!EbookConvert(wrote, succeeded, answer)
       PROVE  CoveredInv'
  <2>1. PICK i \in Nat : Passed(i)
    BY <1>11 DEF CoveredInv, Covered, Source!EbookConvert
  <2>2. format \in Formats /\ format' = format
    BY <1>11 DEF CoveredInv, Covered, Source!EbookConvert
  <2>3. /\ chain # <<>> /\ Head(chain) = "ebook_convert"
        /\ Tail(chain) = <<>>
        /\ tried' = {"ebook_convert"}
    BY <1>11 DEF Source!EbookConvert
  <2>4. Full = <<"ebook_convert">> /\ Full' = Full
    <3>1. Full \in Seq(ParserNames)
      BY <2>2, ChainHasAll DEF Full
    <3>2. i \in 1..Len(Full) /\ Full[i] = "ebook_convert"
      BY <2>1, <2>3, <3>1, SubSeqEmpty, HeadTailOfSubSeq DEF Passed
    <3>3. "ebook_convert" \in ToSet(Full)
      BY <3>1, <3>2 DEF ToSet
    <3>4. "ebook_convert" \in ToSet(Source!TextChain[format])
      BY <2>2, <3>3, ChainHasAll DEF Full
    <3>5. format = "calibre"
      BY <2>2, <3>4 DEF Formats, Source!TextChain, ToSet
    <3> QED
      BY <1>11, <2>2, <3>5 DEF Full, Source!Chain, Source!TextChain, Source!EbookConvert
  <2>5. chain' = <<"ebook_convert">> => Passed(1)'
    BY <2>4 DEF Passed
  <2>6. chain' = <<>> => Passed(2)'
    BY <2>3, <2>4 DEF Passed
  <2>7. Covered'
    BY <1>11, <2>2, <2>5, <2>6 DEF Covered, Source!EbookConvert, Source!Converted
  <2> QED
    BY <1>1, <1>3, <1>11, <2>7 DEF CoveredInv, Source!EbookConvert
<1>12. CASE Source!Exhausted
  <2>1. PICK i \in Nat : Passed(i)
    BY <1>12 DEF CoveredInv, Covered, Source!Exhausted
  <2>2. format \in Formats
    BY <1>12 DEF CoveredInv, Covered, Source!Exhausted
  <2>3. Complete
    BY <1>12, <2>1, <2>2, GoneIsTried, TriedIsComplete DEF CoveredInv, Source!Exhausted
  <2>4. FallbackIsComplete'
    BY <1>12, <2>3, CompleteIsKept DEF Source!Exhausted
  <2> QED
    BY <1>1, <1>2, <1>12, <2>4 DEF CoveredInv, Source!Exhausted
<1>13. CASE Source!Sanitize
  <2>1. PICK i \in Nat : Passed(i)
    BY <1>13 DEF CoveredInv, Covered, Source!Sanitize
  <2>2. /\ format \in Formats
        /\ chain # <<>> /\ Head(chain) = drawn.by /\ drawn.by \in tried
    BY <1>13 DEF CoveredInv, Covered, Source!Sanitize
  <2>3. ASSUME drawn.by = "bs4"
        PROVE  FallbackIsComplete'
    <3>1. Complete
      BY <2>1, <2>2, <2>3, GoneIsTried, TriedIsComplete DEF CoveredInv
    <3> QED
      BY <1>13, <3>1, CompleteIsKept DEF Source!Sanitize
  <2>4. ASSUME drawn.by # "bs4"
        PROVE  FallbackIsComplete'
    BY <1>3, <1>13, <2>4 DEF Source!Sanitize
  <2> QED
    BY <1>1, <1>2, <1>13, <2>3, <2>4 DEF CoveredInv, Source!Sanitize
<1>14. CASE UNCHANGED Source!vars
  BY <1>14 DEF CoveredInv, Covered, Passed, Full, Reported, FallbackIsComplete,
     Source!FallbackIsComplete, Source!GivenUp, Source!Ready, Source!Has, Source!Chain,
     Source!Satisfied, Source!vars
<1> QED
  BY <1>4, <1>5, <1>6, <1>7, <1>8, <1>9, <1>10, <1>11, <1>12, <1>13, <1>14
     DEF Source!Next
-----------------------------------------------------------------------------
(* How many tokens of some kinds there are from one place to another.         *)
Among(s, kinds, from, to) == Cardinality({i \in from .. to : s[i] \in kinds})

LEMMA AmongIsNatural ==
  ASSUME NEW s, NEW kinds, NEW from \in Nat, NEW to \in Nat
  PROVE  /\ IsFiniteSet({i \in from .. to : s[i] \in kinds})
         /\ Among(s, kinds, from, to) \in Nat
<1>1. {i \in from .. to : s[i] \in kinds} \in SUBSET (from .. to)
  OBVIOUS
<1>2. IsFiniteSet(from .. to)
  BY FS_Interval
<1>3. IsFiniteSet({i \in from .. to : s[i] \in kinds})
  BY <1>1, <1>2, FS_Subset
<1> QED
  BY <1>3, FS_CardinalityType DEF Among

LEMMA AmongNone ==
  ASSUME NEW s, NEW kinds, NEW from \in Nat, NEW to \in Nat, to < from
  PROVE  Among(s, kinds, from, to) = 0
<1>1. {i \in from .. to : s[i] \in kinds} = {}
  OBVIOUS
<1> QED
  BY <1>1, FS_EmptySet DEF Among

(* What is counted up to a token stays so, and the token adds to it.          *)
LEMMA AmongGrows ==
  ASSUME NEW T, NEW s \in Seq(T), NEW token, NEW n \in Nat, n = Len(s),
         NEW kinds, NEW from \in 1 .. n + 1
  PROVE  LET t == Append(s, token)
         IN  /\ \A to \in 0 .. n : Among(t, kinds, from, to) = Among(s, kinds, from, to)
             /\ Among(t, kinds, from, n + 1) =
                  Among(s, kinds, from, n) + IF token \in kinds THEN 1 ELSE 0
<1> DEFINE t == Append(s, token)
<1>1. t[n + 1] = token /\ \A i \in 1 .. n : t[i] = s[i]
  OBVIOUS
<1> HIDE DEF t
<1>2. ASSUME NEW to \in 0 .. n
      PROVE  Among(t, kinds, from, to) = Among(s, kinds, from, to)
  <2>1. {i \in from .. to : t[i] \in kinds} = {i \in from .. to : s[i] \in kinds}
    BY <1>1
  <2> QED
    BY <2>1 DEF Among
<1>3. Among(t, kinds, from, n + 1) =
        Among(s, kinds, from, n) + IF token \in kinds THEN 1 ELSE 0
  <2> DEFINE S == {i \in from .. n : s[i] \in kinds}
             U == {i \in from .. n + 1 : t[i] \in kinds}
  <2>1. /\ IsFiniteSet(S) /\ Cardinality(S) \in Nat /\ n + 1 \notin S
        /\ Among(s, kinds, from, n) = Cardinality(S)
        /\ Among(t, kinds, from, n + 1) = Cardinality(U)
    <3>1. from \in Nat
      OBVIOUS
    <3>2. IsFiniteSet(S) /\ Among(s, kinds, from, n) \in Nat
      BY <3>1, AmongIsNatural, Zenon
    <3> QED
      BY <3>2 DEF Among
  <2>2. CASE token \in kinds
    <3>1. U = S \cup {n + 1}
      BY <1>1, <2>2
    <3> HIDE DEF S, U
    <3>2. Cardinality(S \cup {n + 1}) = Cardinality(S) + 1
      BY <2>1, FS_AddElement
    <3> QED
      BY <2>1, <2>2, <3>1, <3>2
  <2>3. CASE token \notin kinds
    <3>1. U = S
      BY <1>1, <2>3
    <3> HIDE DEF S, U
    <3> QED
      BY <2>1, <2>3, <3>1
  <2> QED
    BY <2>2, <2>3
<1> QED
  BY <1>2, <1>3 DEF t

LEMMA AmongSplits ==
  ASSUME NEW s, NEW kinds, NEW from \in Nat, NEW j \in Nat, NEW to \in Nat,
         1 <= from, from <= j, j <= to + 1
  PROVE  Among(s, kinds, from, to) = Among(s, kinds, from, j - 1) + Among(s, kinds, j, to)
<1> DEFINE S == {i \in from .. j - 1 : s[i] \in kinds}
           T == {i \in j .. to : s[i] \in kinds}
           U == {i \in from .. to : s[i] \in kinds}
<1>1. j - 1 \in Nat
  OBVIOUS
<1>2. IsFiniteSet(S) /\ IsFiniteSet(T)
  BY <1>1, AmongIsNatural
<1>3. S \cap T = {} /\ U = S \cup T
  OBVIOUS
<1>4. /\ Among(s, kinds, from, to) = Cardinality(U)
      /\ Among(s, kinds, from, j - 1) = Cardinality(S)
      /\ Among(s, kinds, j, to) = Cardinality(T)
  BY DEF Among
<1> HIDE DEF S, T, U
<1>5. Cardinality(S \cup T) = Cardinality(S) + Cardinality(T) - Cardinality(S \cap T)
  BY <1>2, FS_Union
<1>6. Cardinality(S \cap T) = 0 /\ Cardinality(S) \in Nat /\ Cardinality(T) \in Nat
  BY <1>2, <1>3, FS_EmptySet, FS_CardinalityType
<1> QED
  BY <1>3, <1>4, <1>5, <1>6
-----------------------------------------------------------------------------
(* The groups of an RTF file.                                                 *)
RtfTokens == {"open", "destination", "close", "text"}

StillOpen(j) == \A k \in j .. Len(raw) : Rtf!Nesting(j, k) > 0

(* A skipped group is the first one still open of those skipped, and began    *)
(* where the depth says.                                                      *)
SkippedFrom(j) ==
  /\ j \in Rtf!Destinations /\ StillOpen(j)
  /\ depth = skipAtDepth - 1 + Rtf!Nesting(j, Len(raw))
  /\ \A i \in Rtf!Destinations : i < j => Rtf!Closes(i)

Ascending(q) == \A m, n \in DOMAIN q : m < n => q[m] < q[n]
Outside == DOMAIN raw \ UNION {Rtf!Group(j) : j \in Rtf!Destinations}

RtfInv ==
  /\ raw \in Seq(RtfTokens) /\ out \in Seq(Nat) /\ depth \in Int /\ skipAtDepth \in Int
  /\ depth = Rtf!Nesting(1, Len(raw))
  /\ \A j \in Rtf!Destinations : Rtf!Closes(j) \/ StillOpen(j)
  /\ Rtf!Balanced =>
       /\ Ascending(out) /\ ToSet(out) = Outside
       /\ skipAtDepth = 0 => \A j \in Rtf!Destinations : Rtf!Closes(j)
       /\ skipAtDepth # 0 => \E j \in Rtf!Destinations : SkippedFrom(j)
  /\ OnlyDestinationsAreDropped

(* A group's braces are counted as any tokens are.                            *)
LEMMA RtfBraces ==
  \A kinds, from, to :
    /\ Rtf!Braces(kinds, from, to) = Among(raw, kinds, from, to)
    /\ Rtf!Braces(kinds, from, to)' = Among(raw', kinds, from, to)
<1>1. \A S : Rtf!Cardinality(S) = Cardinality(S)
  BY Zenon DEF Rtf!Cardinality, Cardinality
<1> QED
  BY <1>1, Zenon DEF Rtf!Braces, Among

(* What a token adds to the depth.                                            *)
Weight(token) ==
  CASE token \in {"open", "destination"} -> 1 [] token = "close" -> -1 [] OTHER -> 0

LEMMA NestingGrows ==
  ASSUME raw \in Seq(RtfTokens), NEW token \in RtfTokens, raw' = Append(raw, token),
         NEW n \in Nat, n = Len(raw), NEW from \in 1 .. n + 1
  PROVE  /\ \A to \in 0 .. n :
              Rtf!Nesting(from, to)' = Rtf!Nesting(from, to)
         /\ Rtf!Nesting(from, n + 1)' =
              Rtf!Nesting(from, n) + Weight(token)
<1> DEFINE up == {"open", "destination"}
           down == {"close"}
<1>1. \A kinds :
        /\ \A to \in 0 .. n :
             Rtf!Braces(kinds, from, to)' = Rtf!Braces(kinds, from, to)
        /\ Rtf!Braces(kinds, from, n + 1)' =
             Rtf!Braces(kinds, from, n) + IF token \in kinds THEN 1 ELSE 0
        /\ Rtf!Braces(kinds, from, n) \in Nat
  <2> SUFFICES ASSUME NEW kinds
               PROVE  /\ \A to \in 0 .. n :
                           Rtf!Braces(kinds, from, to)' = Rtf!Braces(kinds, from, to)
                      /\ Rtf!Braces(kinds, from, n + 1)' =
                           Rtf!Braces(kinds, from, n) + IF token \in kinds THEN 1 ELSE 0
                      /\ Rtf!Braces(kinds, from, n) \in Nat
    OBVIOUS
  <2>1. from \in Nat
    OBVIOUS
  <2>2. Rtf!Braces(kinds, from, n) \in Nat
    BY <2>1, AmongIsNatural, RtfBraces
  <2> QED
    BY <2>2, AmongGrows, RtfBraces
<1>2. /\ \A from_, to : Rtf!Nesting(from_, to) =
           Rtf!Braces(up, from_, to) - Rtf!Braces(down, from_, to)
      /\ \A from_, to : Rtf!Nesting(from_, to)' =
           Rtf!Braces(up, from_, to)' - Rtf!Braces(down, from_, to)'
  BY DEF Rtf!Nesting
<1>3. \/ token \in up /\ token \notin down /\ Weight(token) = 1
      \/ token \notin up /\ token \in down /\ Weight(token) = -1
      \/ token \notin up /\ token \notin down /\ Weight(token) = 0
  BY DEF Weight, RtfTokens
<1> HIDE DEF up, down
<1>4. /\ \A to \in 0 .. n : Rtf!Braces(up, from, to)' = Rtf!Braces(up, from, to)
      /\ \A to \in 0 .. n : Rtf!Braces(down, from, to)' = Rtf!Braces(down, from, to)
  BY <1>1
<1>5. /\ Rtf!Braces(up, from, n + 1)' =
           Rtf!Braces(up, from, n) + IF token \in up THEN 1 ELSE 0
      /\ Rtf!Braces(down, from, n + 1)' =
           Rtf!Braces(down, from, n) + IF token \in down THEN 1 ELSE 0
      /\ Rtf!Braces(up, from, n) \in Nat
      /\ Rtf!Braces(down, from, n) \in Nat
  BY <1>1
<1>6. \A to \in 0 .. n : Rtf!Nesting(from, to)' = Rtf!Nesting(from, to)
  BY <1>2, <1>4
<1>7. Rtf!Nesting(from, n + 1)' = Rtf!Nesting(from, n) + Weight(token)
  BY <1>2, <1>3, <1>5
<1> QED
  BY <1>6, <1>7

LEMMA NestingSplits ==
  ASSUME raw \in Seq(RtfTokens), NEW from \in Nat, NEW j \in Nat, NEW to \in Nat,
         1 <= from, from <= j, j <= to + 1
  PROVE  /\ Rtf!Nesting(from, to) = Rtf!Nesting(from, j - 1) + Rtf!Nesting(j, to)
         /\ Rtf!Nesting(from, j - 1) \in Int /\ Rtf!Nesting(j, to) \in Int
<1>1. j - 1 \in Nat
  OBVIOUS
<1>2. \A kinds : /\ Rtf!Braces(kinds, from, j - 1) \in Nat
                 /\ Rtf!Braces(kinds, j, to) \in Nat
                 /\ Rtf!Braces(kinds, from, to) =
                      Rtf!Braces(kinds, from, j - 1) + Rtf!Braces(kinds, j, to)
  BY <1>1, AmongIsNatural, AmongSplits, RtfBraces
<1> QED
  BY <1>2 DEF Rtf!Nesting

LEMMA NoNesting ==
  ASSUME raw \in Seq(RtfTokens), NEW j \in Nat, 1 <= j
  PROVE  Rtf!Nesting(j, j - 1) = 0
<1>1. \A kinds : Among(raw, kinds, j, j - 1) = 0
  <2>1. j - 1 \in Nat /\ j - 1 < j
    OBVIOUS
  <2> QED
    BY <2>1, AmongNone
<1>2. \A kinds : Rtf!Braces(kinds, j, j - 1) = 0
  BY <1>1, RtfBraces
<1> QED
  BY <1>2 DEF Rtf!Nesting

(* A token reaches the groups still open, and begins one if it is a           *)
(* destination; what closed stays closed.                                     *)
LEMMA GroupsGrow ==
  ASSUME raw \in Seq(RtfTokens), NEW token \in RtfTokens, raw' = Append(raw, token),
         NEW n \in Nat, n = Len(raw),
         \A j \in Rtf!Destinations : Rtf!Closes(j) \/ StillOpen(j)
  PROVE  /\ Rtf!Destinations' =
              Rtf!Destinations \cup (IF token = "destination" THEN {n + 1} ELSE {})
         /\ \A j \in Rtf!Destinations :
              /\ Rtf!Closes(j) => Rtf!Closes(j)' /\ ~StillOpen(j)
              /\ StillOpen(j) /\ Rtf!Nesting(j, n) + Weight(token) > 0 => StillOpen(j)'
              /\ StillOpen(j) /\ Rtf!Nesting(j, n) + Weight(token) = 0 => Rtf!Closes(j)'
              /\ StillOpen(j) => Rtf!Nesting(j, n) \in Nat \ {0}
              /\ Rtf!Group(j)' =
                   Rtf!Group(j) \cup (IF StillOpen(j) THEN {n + 1} ELSE {})
         /\ token = "destination" =>
              StillOpen(n + 1)' /\ Rtf!Group(n + 1)' = {n + 1}
         /\ Rtf!Balanced' => Rtf!Balanced
<1>1. /\ Len(raw') = n + 1 /\ raw'[n + 1] = token
      /\ \A i \in 1 .. n : raw'[i] = raw[i]
      /\ DOMAIN raw = 1 .. n /\ DOMAIN raw' = 1 .. n + 1
  OBVIOUS
<1>2. Rtf!Destinations \subseteq 1 .. n
  BY <1>1 DEF Rtf!Destinations
<1>3. \A from \in 1 .. n + 1 :
        /\ \A to \in 0 .. n : Rtf!Nesting(from, to)' = Rtf!Nesting(from, to)
        /\ Rtf!Nesting(from, n + 1)' = Rtf!Nesting(from, n) + Weight(token)
  BY NestingGrows
<1>4. Weight(token) \in {-1, 0, 1} /\ (token = "destination" => Weight(token) = 1)
  BY DEF Weight, RtfTokens
<1>5. Rtf!Destinations' =
        Rtf!Destinations \cup (IF token = "destination" THEN {n + 1} ELSE {})
  BY <1>1 DEF Rtf!Destinations
<1>6. ASSUME NEW j \in Rtf!Destinations
      PROVE  /\ Rtf!Closes(j) => Rtf!Closes(j)' /\ ~StillOpen(j)
             /\ StillOpen(j) /\ Rtf!Nesting(j, n) + Weight(token) > 0 => StillOpen(j)'
             /\ StillOpen(j) /\ Rtf!Nesting(j, n) + Weight(token) = 0 => Rtf!Closes(j)'
             /\ StillOpen(j) => Rtf!Nesting(j, n) \in Nat \ {0}
             /\ Rtf!Group(j)' =
                  Rtf!Group(j) \cup (IF StillOpen(j) THEN {n + 1} ELSE {})
  <2>1. j \in 1 .. n
    BY <1>2
  <2>2. /\ \A to \in 0 .. n : Rtf!Nesting(j, to)' = Rtf!Nesting(j, to)
        /\ Rtf!Nesting(j, n + 1)' = Rtf!Nesting(j, n) + Weight(token)
    BY <1>3, <2>1
  <2>3. Rtf!Nesting(j, n) \in Int
    BY <2>1, NestingSplits, NoNesting
  <2>4. /\ StillOpen(j) <=> \A k \in j .. n : Rtf!Nesting(j, k) > 0
        /\ StillOpen(j)' <=> \A k \in j .. n + 1 : Rtf!Nesting(j, k)' > 0
        /\ Rtf!Closes(j) <=> \E k \in j .. n : Rtf!Nesting(j, k) = 0
        /\ Rtf!Closes(j)' <=> \E k \in j .. n + 1 : Rtf!Nesting(j, k)' = 0
        /\ Rtf!Group(j) = {i \in j .. n : \A k \in j .. i - 1 : Rtf!Nesting(j, k) > 0}
        /\ Rtf!Group(j)' =
             {i \in j .. n + 1 : \A k \in j .. i - 1 : Rtf!Nesting(j, k)' > 0}
    BY <1>1 DEF StillOpen, Rtf!Closes, Rtf!Group
  <2>5. /\ Rtf!Closes(j) => Rtf!Closes(j)' /\ ~StillOpen(j)
        /\ StillOpen(j) /\ Rtf!Nesting(j, n) + Weight(token) > 0 => StillOpen(j)'
        /\ StillOpen(j) /\ Rtf!Nesting(j, n) + Weight(token) = 0 => Rtf!Closes(j)'
        /\ StillOpen(j) => Rtf!Nesting(j, n) \in Nat \ {0}
    BY <2>1, <2>2, <2>3, <2>4
  <2>6. Rtf!Group(j)' = Rtf!Group(j) \cup (IF StillOpen(j) THEN {n + 1} ELSE {})
    <3>1. ASSUME NEW i \in 1 .. n + 1
          PROVE  i \in Rtf!Group(j)' <=>
                   i \in Rtf!Group(j) \/ (i = n + 1 /\ StillOpen(j))
      <4>1. \A k \in j .. i - 1 : Rtf!Nesting(j, k)' = Rtf!Nesting(j, k)
        BY <2>1, <2>2
      <4> QED
        BY <2>1, <2>4, <4>1
    <3>2. Rtf!Group(j)' \subseteq 1 .. n + 1 /\ Rtf!Group(j) \subseteq 1 .. n + 1
      BY <2>1, <2>4
    <3> QED
      BY <3>1, <3>2
  <2> QED
    BY <2>5, <2>6
<1>7. ASSUME token = "destination"
      PROVE  StillOpen(n + 1)' /\ Rtf!Group(n + 1)' = {n + 1}
  <2>1. Rtf!Nesting(n + 1, n) = 0
    <3>1. Rtf!Nesting(n + 1, (n + 1) - 1) = 0
      BY NoNesting
    <3> QED
      BY <3>1
  <2>2. Rtf!Nesting(n + 1, n + 1)' = 1
    BY <1>3, <1>4, <1>7, <2>1
  <2> QED
    BY <1>1, <2>2 DEF StillOpen, Rtf!Group
<1>8. Rtf!Balanced' => Rtf!Balanced
  BY <1>1, <1>3 DEF Rtf!Balanced
<1> QED
  BY <1>5, <1>6, <1>7, <1>8

(* What the scan does with a token.                                           *)
Scans(token) ==
  /\ result = Rtf!Reading /\ result' = result
  /\ raw' = Append(raw, token)
  /\ depth' = depth + Weight(token)
  /\ out' = IF skipAtDepth = 0 /\ token # "destination"
            THEN Append(out, Len(raw) + 1) ELSE out
  /\ skipAtDepth' = IF skipAtDepth = 0 /\ token = "destination" THEN depth + 1
                    ELSE IF token = "close" /\ skipAtDepth # 0 /\ depth = skipAtDepth
                    THEN 0 ELSE skipAtDepth

LEMMA StepsScan ==
  ASSUME RtfInv, Rtf!Next
  PROVE  Rtf!End \/ \E token \in RtfTokens : Scans(token)
<1> USE DEF RtfInv, Rtf!Read, Rtf!Keep, Scans, Weight, RtfTokens
<1>1. CASE Rtf!OpenGroup(TRUE)
  <2>1. Scans("destination")
    BY <1>1 DEF Rtf!OpenGroup
  <2> QED
    BY <2>1
<1>2. CASE Rtf!OpenGroup(FALSE)
  <2>1. Scans("open")
    BY <1>2 DEF Rtf!OpenGroup
  <2> QED
    BY <2>1
<1>3. CASE Rtf!CloseGroup
  <2>1. Scans("close")
    BY <1>3 DEF Rtf!CloseGroup, Rtf!EndsSkipped
  <2> QED
    BY <2>1
<1>4. CASE Rtf!Text
  <2>1. Scans("text")
    BY <1>4 DEF Rtf!Text
  <2> QED
    BY <2>1
<1> QED
  BY <1>1, <1>2, <1>3, <1>4 DEF Rtf!Next

LEMMA ScanKeepsRtfInv ==
  ASSUME RtfInv, NEW token \in RtfTokens, Scans(token)
  PROVE  RtfInv'
<1>1. PICK m \in Nat : m = Len(raw)
  BY DEF RtfInv
<1>2. /\ raw \in Seq(RtfTokens) /\ out \in Seq(Nat) /\ depth \in Int /\ skipAtDepth \in Int
      /\ raw' = Append(raw, token)
      /\ \A j \in Rtf!Destinations : Rtf!Closes(j) \/ StillOpen(j)
  BY DEF RtfInv, Scans
<1>3. /\ Rtf!Destinations' =
           Rtf!Destinations \cup (IF token = "destination" THEN {m + 1} ELSE {})
      /\ \A j \in Rtf!Destinations :
           /\ Rtf!Closes(j) => Rtf!Closes(j)' /\ ~StillOpen(j)
           /\ StillOpen(j) /\ Rtf!Nesting(j, m) + Weight(token) > 0 => StillOpen(j)'
           /\ StillOpen(j) /\ Rtf!Nesting(j, m) + Weight(token) = 0 => Rtf!Closes(j)'
           /\ StillOpen(j) => Rtf!Nesting(j, m) \in Nat \ {0}
           /\ Rtf!Group(j)' = Rtf!Group(j) \cup (IF StillOpen(j) THEN {m + 1} ELSE {})
      /\ token = "destination" =>
           StillOpen(m + 1)' /\ Rtf!Group(m + 1)' = {m + 1}
      /\ Rtf!Balanced' => Rtf!Balanced
  BY <1>1, <1>2, GroupsGrow
<1>4. /\ Weight(token) \in {-1, 0, 1}
      /\ token = "destination" => Weight(token) = 1
      /\ token # "close" => Weight(token) \in {0, 1}
      /\ token = "close" => Weight(token) = -1
  BY DEF Weight, RtfTokens
<1>5. /\ Len(raw') = m + 1 /\ DOMAIN raw = 1 .. m /\ DOMAIN raw' = 1 .. m + 1
      /\ Rtf!Destinations \subseteq 1 .. m
  BY <1>1, <1>2 DEF Rtf!Destinations
<1>6. \A from \in 1 .. m + 1 :
        /\ \A to \in 0 .. m : Rtf!Nesting(from, to)' = Rtf!Nesting(from, to)
        /\ Rtf!Nesting(from, m + 1)' = Rtf!Nesting(from, m) + Weight(token)
  BY <1>1, <1>2, NestingGrows
<1>7. /\ raw' \in Seq(RtfTokens) /\ out' \in Seq(Nat)
      /\ depth' \in Int /\ skipAtDepth' \in Int
      /\ OnlyDestinationsAreDropped'
  BY <1>2, <1>4 DEF Scans, OnlyDestinationsAreDropped, Rtf!OnlyDestinationsAreDropped,
     Rtf!Reading
<1>8. depth' = Rtf!Nesting(1, Len(raw))'
  <2>1. depth = Rtf!Nesting(1, m) /\ depth' = depth + Weight(token)
    BY <1>1 DEF RtfInv, Scans
  <2>2. Rtf!Nesting(1, m + 1)' = Rtf!Nesting(1, m) + Weight(token)
    BY <1>6
  <2>3. Rtf!Nesting(1, Len(raw))' = Rtf!Nesting(1, m + 1)'
    BY <1>5
  <2> QED
    BY <2>1, <2>2, <2>3
<1>9. \A j \in Rtf!Destinations' : Rtf!Closes(j)' \/ StillOpen(j)'
  <2>1. ASSUME NEW j \in Rtf!Destinations PROVE Rtf!Closes(j)' \/ StillOpen(j)'
    BY <1>2, <1>3, <1>4
  <2> QED
    BY <1>3, <2>1
<1>10. ASSUME Rtf!Balanced'
       PROVE  /\ Ascending(out') /\ ToSet(out)' = Outside'
              /\ skipAtDepth' = 0 => \A j \in Rtf!Destinations' : Rtf!Closes(j)'
              /\ skipAtDepth' # 0 => \E j \in Rtf!Destinations' : SkippedFrom(j)'
  <2>1. /\ Ascending(out) /\ ToSet(out) = Outside
        /\ skipAtDepth = 0 => \A j \in Rtf!Destinations : Rtf!Closes(j)
        /\ skipAtDepth # 0 => \E j \in Rtf!Destinations : SkippedFrom(j)
    BY <1>3, <1>10 DEF RtfInv
  <2>2. Outside \subseteq 1 .. m
    BY <1>5 DEF Outside
  <2>3. CASE skipAtDepth = 0
    <3>1. \A j \in Rtf!Destinations : Rtf!Closes(j)' /\ Rtf!Group(j)' = Rtf!Group(j)
      BY <1>3, <2>1, <2>3
    <3>2. CASE token = "destination"
      <4>1. depth >= 0
        <5>1. CASE m = 0
          <6>1. Rtf!Nesting(1, 1 - 1) = 0
            BY <1>2, NoNesting
          <6> QED
            BY <1>1, <5>1, <6>1 DEF RtfInv
        <5>2. CASE m # 0
          BY <1>1, <1>3, <1>5, <1>10, <5>2 DEF RtfInv, Rtf!Balanced
        <5> QED
          BY <5>1, <5>2
      <4>2. out' = out /\ skipAtDepth' = depth + 1 /\ depth' = depth + 1
        BY <1>4, <2>3, <3>2 DEF Scans
      <4>3. Outside' = Outside
        BY <1>3, <1>5, <3>1, <3>2 DEF Outside
      <4>4. Rtf!Nesting(m + 1, m + 1)' = 1
        <5>1. Rtf!Nesting(m + 1, (m + 1) - 1) = 0
          BY <1>2, NoNesting
        <5>2. Rtf!Nesting(m + 1, m) = 0
          BY <5>1
        <5> QED
          BY <1>4, <1>6, <3>2, <5>2
      <4>5. SkippedFrom(m + 1)'
        BY <1>2, <1>3, <1>5, <3>1, <3>2, <4>2, <4>4 DEF SkippedFrom
      <4>6. ToSet(out)' = ToSet(out)
        BY <4>2 DEF ToSet
      <4> QED
        BY <1>2, <1>3, <2>1, <3>2, <4>1, <4>2, <4>3, <4>5, <4>6
    <3>3. CASE token # "destination"
      <4>1. out' = Append(out, m + 1) /\ skipAtDepth' = 0
        BY <1>1, <2>3, <3>3 DEF Scans
      <4>2. Outside' = Outside \cup {m + 1}
        <5>1. Rtf!Destinations' = Rtf!Destinations
          BY <1>3, <3>3
        <5>2. \A j \in Rtf!Destinations : Rtf!Group(j) \subseteq 1 .. m
          BY <1>1, <1>5 DEF Rtf!Group
        <5> QED
          BY <1>5, <3>1, <5>1, <5>2 DEF Outside
      <4>3. ToSet(out)' = ToSet(out) \cup {m + 1}
        <5>1. /\ DOMAIN out' = DOMAIN out \cup {Len(out) + 1}
              /\ out'[Len(out) + 1] = m + 1
              /\ \A i \in DOMAIN out : out'[i] = out[i]
          BY <1>2, <4>1
        <5> QED
          BY <5>1 DEF ToSet
      <4>4. Ascending(out')
        <5>1. \A i \in DOMAIN out : out[i] < m + 1
          BY <1>2, <2>1, <2>2 DEF ToSet
        <5> QED
          BY <1>2, <2>1, <4>1, <5>1 DEF Ascending
      <4> QED
        BY <1>3, <2>1, <3>1, <3>3, <4>1, <4>2, <4>3, <4>4
    <3> QED
      BY <3>2, <3>3
  <2>4. CASE skipAtDepth # 0
    <3>1. PICK b \in Rtf!Destinations : SkippedFrom(b)
      BY <2>1, <2>4
    <3>2. /\ b \in 1 .. m /\ StillOpen(b)
          /\ depth = skipAtDepth - 1 + Rtf!Nesting(b, m)
          /\ \A i \in Rtf!Destinations : i < b => Rtf!Closes(i)
          /\ Rtf!Nesting(b, m) \in Nat \ {0}
      BY <1>1, <1>3, <1>5, <3>1 DEF SkippedFrom
    <3>3. out' = out /\ ToSet(out)' = ToSet(out)
      BY <2>4 DEF Scans, ToSet
    <3>4. Outside' = Outside
      <4>1. m + 1 \in Rtf!Group(b)'
        BY <1>3, <3>2
      <4>2. \A j \in Rtf!Destinations : Rtf!Group(j) \subseteq 1 .. m
        BY <1>1, <1>5 DEF Rtf!Group
      <4>3. \A j \in Rtf!Destinations : Rtf!Group(j)' \ {m + 1} = Rtf!Group(j)
        BY <1>3, <4>2
      <4>4. \A j \in Rtf!Destinations' \ Rtf!Destinations : Rtf!Group(j)' = {m + 1}
        BY <1>3
      <4>5. Rtf!Destinations \subseteq Rtf!Destinations'
        BY <1>3
      <4>6. ASSUME NEW i \in 1 .. m
            PROVE  i \in Outside' <=> i \in Outside
        <5>1. i # m + 1 /\ i \in DOMAIN raw /\ i \in DOMAIN raw'
          BY <1>5
        <5> QED
          BY <4>3, <4>4, <4>5, <5>1 DEF Outside
      <4>7. m + 1 \notin Outside'
        BY <4>1, <4>5 DEF Outside
      <4>8. Outside \subseteq 1 .. m /\ Outside' \subseteq (1 .. m) \cup {m + 1}
        BY <1>5 DEF Outside
      <4> QED
        BY <4>6, <4>7, <4>8
    <3>5. CASE token = "close" /\ depth = skipAtDepth
      <4>1. skipAtDepth' = 0 /\ Rtf!Nesting(b, m) = 1 /\ Rtf!Destinations' = Rtf!Destinations
        BY <1>2, <1>3, <2>4, <3>2, <3>5 DEF Scans
      <4>2. ASSUME NEW j \in Rtf!Destinations PROVE Rtf!Closes(j)'
        <5>1. CASE j < b
          BY <1>3, <3>2, <5>1
        <5>2. CASE j = b
          BY <1>3, <1>4, <3>2, <3>5, <4>1, <5>2
        <5>3. CASE j > b
          <6>1. SUFFICES ASSUME StillOpen(j) PROVE FALSE
            BY <1>2, <1>3
          <6>2. j \in 1 .. m /\ j - 1 \in b .. m
            BY <1>5, <3>2, <5>3
          <6>3. /\ Rtf!Nesting(b, m) = Rtf!Nesting(b, j - 1) + Rtf!Nesting(j, m)
                /\ Rtf!Nesting(b, j - 1) \in Int
            BY <1>2, <3>2, <5>3, <6>2, NestingSplits
          <6>4. Rtf!Nesting(b, j - 1) > 0
            BY <1>1, <3>2, <6>2 DEF StillOpen
          <6>5. Rtf!Nesting(j, m) \in Nat \ {0}
            BY <1>3, <6>1
          <6> QED
            BY <4>1, <6>3, <6>4, <6>5
        <5> QED
          BY <1>5, <3>2, <5>1, <5>2, <5>3
      <4> QED
        BY <2>1, <3>3, <3>4, <4>1, <4>2
    <3>6. CASE ~(token = "close" /\ depth = skipAtDepth)
      <4>1. skipAtDepth' = skipAtDepth /\ depth' = depth + Weight(token)
        BY <2>4, <3>6 DEF Scans
      <4>2. Rtf!Nesting(b, m) + Weight(token) > 0
        BY <1>2, <1>4, <3>2, <3>6
      <4>3. StillOpen(b)' /\ b \in Rtf!Destinations'
        BY <1>3, <3>2, <4>2
      <4>4. Rtf!Nesting(b, m + 1)' = Rtf!Nesting(b, m) + Weight(token)
        BY <1>6, <3>2
      <4>5. \A i \in Rtf!Destinations' : i < b => Rtf!Closes(i)'
        BY <1>3, <3>2
      <4>6. SkippedFrom(b)'
        BY <1>2, <1>4, <1>5, <3>2, <4>1, <4>3, <4>4, <4>5 DEF SkippedFrom
      <4> QED
        BY <2>1, <2>4, <3>3, <3>4, <4>1, <4>3, <4>6
    <3> QED
      BY <3>5, <3>6
  <2> QED
    BY <2>3, <2>4
<1> QED
  BY <1>7, <1>8, <1>9, <1>10 DEF RtfInv

LEMMA InitRtfInv == Rtf!Init => RtfInv
<1> SUFFICES ASSUME Rtf!Init PROVE RtfInv
  OBVIOUS
<1>1. raw = <<>> /\ out = <<>> /\ depth = 0 /\ skipAtDepth = 0 /\ result = Rtf!Reading
  BY DEF Rtf!Init
<1>2. raw \in Seq(RtfTokens) /\ out \in Seq(Nat) /\ Len(raw) = 0
  BY <1>1
<1>3. Rtf!Nesting(1, 0) = 0
  <2>1. Rtf!Nesting(1, 1 - 1) = 0
    BY <1>2, NoNesting
  <2> QED
    BY <2>1
<1>4. Rtf!Destinations = {} /\ ToSet(out) = {} /\ DOMAIN raw = {}
  BY <1>1 DEF Rtf!Destinations, ToSet
<1>5. Ascending(out) /\ Outside = {}
  BY <1>1, <1>4 DEF Ascending, Outside
<1> QED
  BY <1>1, <1>2, <1>3, <1>4, <1>5 DEF RtfInv, OnlyDestinationsAreDropped,
     Rtf!OnlyDestinationsAreDropped

LEMMA SameGroups ==
  ASSUME RtfInv, UNCHANGED <<raw, out, depth, skipAtDepth>>, OnlyDestinationsAreDropped'
  PROVE  RtfInv'
<1>1. \A from, to : Rtf!Nesting(from, to)' = Rtf!Nesting(from, to)
  BY DEF Rtf!Nesting, Rtf!Braces
<1>2. /\ Rtf!Destinations' = Rtf!Destinations /\ Outside' = Outside
      /\ Rtf!Balanced' = Rtf!Balanced
  BY <1>1 DEF Rtf!Destinations, Rtf!Group, Outside, Rtf!Balanced
<1>3. \A j : Rtf!Closes(j)' = Rtf!Closes(j) /\ StillOpen(j)' = StillOpen(j)
  BY <1>1 DEF Rtf!Closes, StillOpen
<1>4. \A j : SkippedFrom(j)' = SkippedFrom(j)
  BY <1>1, <1>2, <1>3 DEF SkippedFrom
<1>5. Ascending(out)' = Ascending(out) /\ ToSet(out)' = ToSet(out)
  BY DEF Ascending, ToSet
<1> QED
  BY <1>1, <1>2, <1>3, <1>4, <1>5 DEF RtfInv

LEMMA EndKeepsRtfInv ==
  ASSUME RtfInv, Rtf!End
  PROVE  RtfInv'
<1>1. UNCHANGED <<raw, out, depth, skipAtDepth>>
  BY DEF Rtf!End
<1>2. OnlyDestinationsAreDropped'
  <2> SUFFICES ASSUME Rtf!Balanced'
               PROVE  /\ Ascending(result')
                      /\ ToSet(result') =
                           IF \A j \in Rtf!Destinations' : Rtf!Closes(j)'
                           THEN Outside' ELSE DOMAIN raw'
    BY Zenon DEF OnlyDestinationsAreDropped, Rtf!OnlyDestinationsAreDropped, Ascending,
       Outside, ToSet, Rtf!ToSet
  <2>1. /\ Rtf!Balanced /\ Rtf!Destinations' = Rtf!Destinations /\ Outside' = Outside
        /\ \A j \in Rtf!Destinations : Rtf!Closes(j)' <=> Rtf!Closes(j)
    BY <1>1 DEF Rtf!Balanced, Rtf!Destinations, Rtf!Closes, Rtf!Group, Outside,
       Rtf!Nesting, Rtf!Braces
  <2>2. CASE skipAtDepth = 0
    <3>1. result' = out
      BY <2>2 DEF Rtf!End
    <3> QED
      BY <2>1, <2>2, <3>1 DEF RtfInv
  <2>3. CASE skipAtDepth # 0
    <3>1. result' = [i \in DOMAIN raw |-> i]
      BY <2>3 DEF Rtf!End
    <3>2. PICK b \in Rtf!Destinations : StillOpen(b)
      BY <2>1, <2>3 DEF RtfInv, SkippedFrom
    <3>3. ~Rtf!Closes(b)
      BY <3>2 DEF StillOpen, Rtf!Closes
    <3>4. Ascending(result')
      BY <3>1 DEF Ascending
    <3>5. ToSet(result') = DOMAIN raw
      BY <3>1 DEF ToSet
    <3> QED
      BY <1>1, <2>1, <3>3, <3>4, <3>5
  <2> QED
    BY <2>2, <2>3 DEF RtfInv
<1> QED
  BY <1>1, <1>2, SameGroups

LEMMA NextRtfInv == RtfInv /\ [Rtf!Next]_(Rtf!vars) => RtfInv'
<1> SUFFICES ASSUME RtfInv, [Rtf!Next]_(Rtf!vars) PROVE RtfInv'
  OBVIOUS
<1>1. CASE Rtf!Next
  BY <1>1, StepsScan, ScanKeepsRtfInv, EndKeepsRtfInv
<1>2. CASE UNCHANGED Rtf!vars
  <2>1. UNCHANGED <<raw, out, depth, skipAtDepth, result>>
    BY <1>2 DEF Rtf!vars
  <2>2. \A from, to : Rtf!Nesting(from, to)' = Rtf!Nesting(from, to)
    BY <2>1 DEF Rtf!Nesting, Rtf!Braces
  <2>3. /\ Rtf!Destinations' = Rtf!Destinations /\ Rtf!Balanced' = Rtf!Balanced
        /\ \A j : Rtf!Closes(j)' = Rtf!Closes(j) /\ Rtf!Group(j)' = Rtf!Group(j)
    BY <2>1, <2>2 DEF Rtf!Destinations, Rtf!Closes, Rtf!Group, Rtf!Balanced
  <2>4. OnlyDestinationsAreDropped'
    BY <2>1, <2>3 DEF RtfInv, OnlyDestinationsAreDropped, Rtf!OnlyDestinationsAreDropped
  <2> QED
    BY <2>1, <2>4, SameGroups
<1> QED
  BY <1>1, <1>2
-----------------------------------------------------------------------------
(* The words of an HTML page.                                                 *)
HtmlTokens == [kind : {"start", "end", "data"}, tag : Html!Tags \cup {"word", "blank"}]
Bound(tags) == IF "p" \in tags THEN {"\n"} ELSE IF "td" \in tags THEN {"\t"} ELSE {}
TagsFrom(i) == {page[k].tag : k \in i + 1 .. Len(page)}
IsLast(m) == (m + 1 .. Len(parts)) \cap Html!Words = {}

(* The depth is the most elements that any stretch of the page up to here     *)
(* leaves open; what is pending is the boundary since the last word, and      *)
(* nothing was written for it yet.                                            *)
DepthInv ==
  /\ \A j \in 1 .. Len(page) + 1 :
       Html!Count("start", j, Len(page)) <= Html!Count("end", j, Len(page)) + skipDepth
  /\ \E j \in 1 .. Len(page) + 1 :
       Html!Count("start", j, Len(page)) = Html!Count("end", j, Len(page)) + skipDepth
PendingInv ==
  \A m \in Html!Words : IsLast(m) =>
    /\ Bound(TagsFrom(parts[m][2])) = IF pending = "none" THEN {} ELSE {pending}
    /\ Html!Separators(m, Len(parts) + 1) = {}
HtmlTypes ==
  /\ page \in Seq(HtmlTokens) /\ skipDepth \in Nat /\ pending \in {"none", "\n", "\t"}
  /\ parts \in Seq({"word", "blank", "\n", "\t"} \X Nat)
HtmlInv == HtmlTypes /\ DepthInv /\ PendingInv /\ BlocksStayApart

LEMMA HtmlCounts ==
  \A sort, from, to :
    /\ Html!Count(sort, from, to) = Among(page, {Html!Token(sort, "head")}, from, to)
    /\ Html!Count(sort, from, to)' = Among(page', {Html!Token(sort, "head")}, from, to)
<1>1. \A S : Html!Cardinality(S) = Cardinality(S)
  BY Zenon DEF Html!Cardinality, Cardinality
<1>2. ASSUME NEW sort, NEW from, NEW to
      PROVE  /\ {i \in from .. to : page[i] = Html!Token(sort, "head")}
                  = {i \in from .. to : page[i] \in {Html!Token(sort, "head")}}
             /\ {i \in from .. to : page'[i] = Html!Token(sort, "head")}
                  = {i \in from .. to : page'[i] \in {Html!Token(sort, "head")}}
  OBVIOUS
<1> QED
  BY <1>1, <1>2, Zenon DEF Html!Count, Among

(* What a token of the page does to the depth.                                *)
Feeds(token) ==
  /\ page' = Append(page, token)
  /\ skipDepth' = CASE token = Html!Token("start", "head") -> skipDepth + 1
                    [] token = Html!Token("end", "head") /\ skipDepth > 0 -> skipDepth - 1
                    [] OTHER -> skipDepth

LEMMA FeedKeepsDepth ==
  ASSUME HtmlInv, NEW token \in HtmlTokens, Feeds(token), NEW n \in Nat, n = Len(page)
  PROVE  /\ DepthInv'
         /\ \A i \in 1 .. n : Html!Kept(i)' <=> Html!Kept(i)
         /\ Html!Kept(n + 1)' <=> (token = Html!Token("data", "word") /\ skipDepth = 0)
<1> DEFINE up(j, k) == Html!Count("start", j, k)
           down(j, k) == Html!Count("end", j, k)
           start == Html!Token("start", "head")
           end == Html!Token("end", "head")
<1>1. /\ page \in Seq(HtmlTokens) /\ skipDepth \in Nat
      /\ Len(page') = n + 1 /\ page'[n + 1] = token
      /\ \A i \in 1 .. n : page'[i] = page[i]
  <2>1. page \in Seq(HtmlTokens) /\ skipDepth \in Nat /\ page' = Append(page, token)
    BY DEF HtmlInv, HtmlTypes, Feeds
  <2> QED
    BY <2>1
<1>2. ASSUME NEW j \in 1 .. n + 1
      PROVE  /\ \A k \in 0 .. n : up(j, k)' = up(j, k) /\ down(j, k)' = down(j, k)
             /\ Html!Count("start", j, n + 1)' = up(j, n) + IF token = start THEN 1 ELSE 0
             /\ Html!Count("end", j, n + 1)' = down(j, n) + IF token = end THEN 1 ELSE 0
             /\ up(j, n) \in Nat /\ down(j, n) \in Nat
  <2>1. page' = Append(page, token)
    BY DEF Feeds
  <2>2. \A kinds :
          /\ \A k \in 0 .. n : Among(page', kinds, j, k) = Among(page, kinds, j, k)
          /\ Among(page', kinds, j, n + 1) =
               Among(page, kinds, j, n) + IF token \in kinds THEN 1 ELSE 0
    BY <1>1, <2>1, AmongGrows
  <2>3. \A kinds : Among(page, kinds, j, n) \in Nat
    <3>1. j \in Nat
      OBVIOUS
    <3> QED
      BY <3>1, AmongIsNatural
  <2>4. /\ token \in {start} <=> token = start
        /\ token \in {end} <=> token = end
    OBVIOUS
  <2> HIDE DEF start, end
  <2> QED
    BY <2>2, <2>3, <2>4, HtmlCounts DEF start, end
<1>3. /\ Html!Count("start", n + 2, n + 1)' = 0
      /\ Html!Count("end", n + 2, n + 1)' = 0
  <2>1. \A kinds : Among(page', kinds, n + 2, n + 1) = 0
    <3>1. n + 2 \in Nat /\ n + 1 \in Nat /\ n + 1 < n + 2
      OBVIOUS
    <3> QED
      BY <3>1, AmongNone
  <2> QED
    BY <2>1, HtmlCounts
<1>4. start # end /\ Html!Token("data", "word") \notin {start, end}
  BY DEF Html!Token
<1> HIDE DEF start, end
<1>5. skipDepth' = CASE token = start -> skipDepth + 1
                     [] token = end /\ skipDepth > 0 -> skipDepth - 1
                     [] OTHER -> skipDepth
  BY DEF Feeds, start, end
<1>6. /\ \A j \in 1 .. n + 1 : up(j, n) <= down(j, n) + skipDepth
      /\ \E j \in 1 .. n + 1 : up(j, n) = down(j, n) + skipDepth
  BY DEF HtmlInv, DepthInv
<1>7. \A i \in 1 .. n : Html!Kept(i)' <=> Html!Kept(i)
  <2> SUFFICES ASSUME NEW i \in 1 .. n PROVE Html!Kept(i)' <=> Html!Kept(i)
    OBVIOUS
  <2>1. \A j \in 1 .. i : up(j, i)' = up(j, i) /\ down(j, i)' = down(j, i)
    BY <1>2
  <2> QED
    BY <1>1, <2>1 DEF Html!Kept
<1>8. Html!Kept(n + 1)' <=> (token = Html!Token("data", "word") /\ skipDepth = 0)
  <2>1. CASE token # Html!Token("data", "word")
    BY <1>1, <2>1 DEF Html!Kept
  <2>2. CASE token = Html!Token("data", "word")
    <3>1. \A j \in 1 .. n + 1 :
            /\ Html!Count("start", j, n + 1)' = up(j, n)
            /\ Html!Count("end", j, n + 1)' = down(j, n)
      BY <1>2, <1>4, <2>2
    <3>2. Html!Kept(n + 1)' <=> \A j \in 1 .. n + 1 : up(j, n) <= down(j, n)
      BY <1>1, <2>2, <3>1 DEF Html!Kept
    <3>3. (\A j \in 1 .. n + 1 : up(j, n) <= down(j, n)) <=> skipDepth = 0
      BY <1>1, <1>2, <1>6
    <3> QED
      BY <2>2, <3>2, <3>3
  <2> QED
    BY <2>1, <2>2
<1>9. DepthInv'
  <2> DEFINE Up(j) == Html!Count("start", j, n + 1)'
             Down(j) == Html!Count("end", j, n + 1)'
  <2>1. \A j \in 1 .. n + 2 : Up(j) <= Down(j) + skipDepth'
    <3>1. \A j \in 1 .. n + 1 : Up(j) <= Down(j) + skipDepth'
      BY <1>1, <1>2, <1>4, <1>5, <1>6
    <3>2. skipDepth' \in Nat
      BY <1>1, <1>5
    <3>3. Up(n + 2) = 0 /\ Down(n + 2) = 0
      BY <1>3
    <3> HIDE DEF Up, Down
    <3> QED
      BY <3>1, <3>2, <3>3
  <2>2. \E j \in 1 .. n + 2 : Up(j) = Down(j) + skipDepth'
    <3>1. CASE token = end /\ skipDepth = 0
      BY <1>3, <1>4, <1>5, <3>1
    <3>2. CASE ~(token = end /\ skipDepth = 0)
      BY <1>1, <1>2, <1>4, <1>5, <1>6, <3>2
    <3> QED
      BY <3>1, <3>2
  <2> QED
    BY <1>1, <2>1, <2>2 DEF DepthInv
<1> QED
  BY <1>7, <1>8, <1>9

(* The boundaries of a page that grew.                                        *)
LEMMA FeedKeepsBoundaries ==
  ASSUME HtmlInv, NEW token \in HtmlTokens, Feeds(token), NEW n \in Nat, n = Len(page)
  PROVE  /\ \A i \in Nat, j \in 1 .. n + 1 : Html!Boundary(i, j)' = Html!Boundary(i, j)
         /\ \A i \in 1 .. n : TagsFrom(i)' = TagsFrom(i) \cup {token.tag}
         /\ \A i \in Nat : Html!Boundary(i, n + 1) = Bound(TagsFrom(i))
         /\ TagsFrom(n + 1)' = {}
         /\ Html!Boundary(n + 1, n + 2)' = {}
<1>1. page \in Seq(HtmlTokens) /\ page' = Append(page, token)
  BY DEF HtmlInv, HtmlTypes, Feeds
<1>2. /\ Len(page') = n + 1 /\ page'[n + 1] = token
      /\ \A i \in 1 .. n : page'[i] = page[i]
  BY <1>1
<1>3. ASSUME NEW i \in Nat, NEW j \in 1 .. n + 1
      PROVE  Html!Boundary(i, j)' = Html!Boundary(i, j)
  <2>1. {page'[k].tag : k \in i + 1 .. j - 1} = {page[k].tag : k \in i + 1 .. j - 1}
    BY <1>2
  <2> QED
    BY <2>1 DEF Html!Boundary
<1>4. ASSUME NEW i \in 1 .. n PROVE TagsFrom(i)' = TagsFrom(i) \cup {token.tag}
  <2>1. i + 1 .. Len(page') = (i + 1 .. n) \cup {n + 1}
    BY <1>2
  <2>2. {page'[k].tag : k \in (i + 1 .. n) \cup {n + 1}} =
          {page[k].tag : k \in i + 1 .. n} \cup {token.tag}
    BY <1>2
  <2> QED
    BY <2>1, <2>2 DEF TagsFrom
<1>5. ASSUME NEW i \in Nat PROVE Html!Boundary(i, n + 1) = Bound(TagsFrom(i))
  <2>1. i + 1 .. (n + 1) - 1 = i + 1 .. Len(page)
    OBVIOUS
  <2> QED
    BY <2>1 DEF Html!Boundary, Bound, TagsFrom
<1>6. TagsFrom(n + 1)' = {}
  BY <1>2 DEF TagsFrom
<1>7. Html!Boundary(n + 1, n + 2)' = {}
  BY <1>2 DEF Html!Boundary
<1> QED
  BY <1>3, <1>4, <1>5, <1>6, <1>7

(* A token that is no word to keep leaves the words as they are.              *)
LEMMA OtherTokensKeepWords ==
  ASSUME HtmlInv, NEW token \in HtmlTokens, Feeds(token), HtmlTypes',
         ~(token = Html!Token("data", "word") /\ skipDepth = 0),
         parts' = parts \/ parts' = Append(parts, <<"blank", 0>>),
         \A tags : (Bound(tags) = IF pending = "none" THEN {} ELSE {pending}) =>
           Bound(tags \cup {token.tag}) = IF pending' = "none" THEN {} ELSE {pending'}
  PROVE  HtmlInv'
<1>1. PICK n \in Nat : n = Len(page)
  BY DEF HtmlInv, HtmlTypes
<1>2. PICK w \in Nat : w = Len(parts) /\ DOMAIN parts = 1 .. w
  BY DEF HtmlInv, HtmlTypes
<1>3. /\ DepthInv'
      /\ \A i \in 1 .. n : Html!Kept(i)' <=> Html!Kept(i)
      /\ ~Html!Kept(n + 1)'
  BY <1>1, FeedKeepsDepth
<1>4. /\ \A i \in Nat, j \in 1 .. n + 1 : Html!Boundary(i, j)' = Html!Boundary(i, j)
      /\ \A i \in 1 .. n : TagsFrom(i)' = TagsFrom(i) \cup {token.tag}
  BY <1>1, FeedKeepsBoundaries
<1>5. DOMAIN page = 1 .. n /\ DOMAIN page' = 1 .. n + 1
  <2>1. page \in Seq(HtmlTokens) /\ page' = Append(page, token)
    BY DEF HtmlInv, HtmlTypes, Feeds
  <2> QED
    BY <1>1, <2>1
<1>6. PICK w2 \in Nat : /\ w2 = Len(parts') /\ DOMAIN parts' = 1 .. w2 /\ w <= w2
                        /\ \A m \in 1 .. w : parts'[m] = parts[m]
                        /\ \A m \in w + 1 .. w2 : parts'[m] = <<"blank", 0>>
  <2>1. parts \in Seq({"word", "blank", "\n", "\t"} \X Nat)
    BY DEF HtmlInv, HtmlTypes
  <2>2. CASE parts' = parts
    BY <1>2, <2>1, <2>2
  <2>3. CASE parts' = Append(parts, <<"blank", 0>>)
    <3>1. /\ Len(parts') = w + 1 /\ DOMAIN parts' = 1 .. w + 1
          /\ \A m \in 1 .. w : parts'[m] = parts[m]
          /\ parts'[w + 1] = <<"blank", 0>>
      BY <1>2, <2>1, <2>3
    <3> QED
      BY <3>1
  <2> QED
    BY <2>2, <2>3
<1>7. Html!Words' = Html!Words /\ Html!Words \subseteq 1 .. w
  BY <1>2, <1>6 DEF Html!Words
<1>8. /\ \A m \in Html!Words, k \in 1 .. w + 1 :
           Html!Separators(m, k)' = Html!Separators(m, k)
      /\ \A m \in Html!Words :
           Html!Separators(m, w2 + 1)' = Html!Separators(m, w + 1)
  <2>1. ASSUME NEW m \in 1 .. w, NEW k \in 1 .. w + 1
        PROVE  Html!Separators(m, k)' = Html!Separators(m, k)
    <3>1. {parts'[x][1] : x \in m + 1 .. k - 1} = {parts[x][1] : x \in m + 1 .. k - 1}
      BY <1>6
    <3> QED
      BY <3>1 DEF Html!Separators
  <2>2. ASSUME NEW m \in 1 .. w
        PROVE  Html!Separators(m, w2 + 1)' = Html!Separators(m, w + 1)
    <3>1. \A x \in {parts'[y][1] : y \in m + 1 .. w2} :
            x \in {parts[y][1] : y \in m + 1 .. w} \/ x = "blank"
      BY <1>6
    <3>2. {parts[y][1] : y \in m + 1 .. w} \subseteq {parts'[y][1] : y \in m + 1 .. w2}
      BY <1>6
    <3>3. (w2 + 1) - 1 = w2 /\ (w + 1) - 1 = w
      OBVIOUS
    <3> QED
      BY <3>1, <3>2, <3>3 DEF Html!Separators
  <2> QED
    BY <1>7, <2>1, <2>2
<1>9. \A m \in Html!Words : parts'[m][2] = parts[m][2] /\ parts[m][2] \in 1 .. n
  <2>1. {parts[m][2] : m \in Html!Words} = {i \in DOMAIN page : Html!Kept(i)}
    BY DEF HtmlInv, BlocksStayApart, Html!BlocksStayApart
  <2> QED
    BY <1>5, <1>6, <1>7, <2>1
<1>10. BlocksStayApart'
  <2>1. {parts'[m][2] : m \in Html!Words'} = {i \in DOMAIN page' : Html!Kept(i)'}
    <3>1. {parts'[m][2] : m \in Html!Words'} = {parts[m][2] : m \in Html!Words}
      BY <1>7, <1>9
    <3>2. {i \in DOMAIN page' : Html!Kept(i)'} = {i \in DOMAIN page : Html!Kept(i)}
      BY <1>3, <1>5
    <3> QED
      BY <3>1, <3>2 DEF HtmlInv, BlocksStayApart, Html!BlocksStayApart
  <2>2. ASSUME NEW m \in Html!Words, NEW k \in Html!Words, m < k
        PROVE  /\ parts'[m][2] < parts'[k][2]
               /\ (m + 1 .. k - 1) \cap Html!Words' = {} =>
                    Html!Separators(m, k)' = Html!Boundary(parts[m][2], parts[k][2])'
    <3>1. /\ parts[m][2] < parts[k][2]
          /\ (m + 1 .. k - 1) \cap Html!Words = {} =>
               Html!Separators(m, k) = Html!Boundary(parts[m][2], parts[k][2])
      BY <2>2 DEF HtmlInv, BlocksStayApart, Html!BlocksStayApart
    <3>2. PICK i \in 1 .. n, j \in 1 .. n : i = parts[m][2] /\ j = parts[k][2]
      BY <1>9
    <3>3. Html!Boundary(parts[m][2], parts[k][2])' = Html!Boundary(i, j)'
      BY <1>9, <3>2 DEF Html!Boundary
    <3>4. Html!Boundary(i, j)' = Html!Boundary(i, j)
      BY <1>4
    <3>5. parts'[m][2] < parts'[k][2]
      BY <1>9, <3>1
    <3>6. Html!Separators(m, k)' = Html!Separators(m, k)
      <4>1. k \in 1 .. w + 1
        BY <1>7
      <4> QED
        BY <1>8, <4>1
    <3>7. Html!Boundary(i, j) = Html!Boundary(parts[m][2], parts[k][2])
      BY <3>2
    <3> QED
      BY <1>7, <3>1, <3>3, <3>4, <3>5, <3>6, <3>7
  <2> QED
    BY <1>7, <2>1, <2>2 DEF BlocksStayApart, Html!BlocksStayApart
<1>11. PendingInv'
  <2> SUFFICES ASSUME NEW m \in Html!Words, IsLast(m)'
               PROVE  /\ Bound(TagsFrom(parts[m][2])') =
                           IF pending' = "none" THEN {} ELSE {pending'}
                      /\ Html!Separators(m, Len(parts) + 1)' = {}
    BY <1>7 DEF PendingInv, Bound
  <2>1. IsLast(m)
    BY <1>2, <1>6, <1>7 DEF IsLast
  <2>2. /\ Bound(TagsFrom(parts[m][2])) = IF pending = "none" THEN {} ELSE {pending}
        /\ Html!Separators(m, w + 1) = {}
    BY <1>2, <2>1 DEF HtmlInv, PendingInv
  <2>3. PICK i \in 1 .. n : i = parts[m][2] /\ i = parts'[m][2]
    BY <1>9
  <2>4. TagsFrom(parts[m][2])' = TagsFrom(i) \cup {token.tag}
    <3>1. TagsFrom(parts[m][2])' = TagsFrom(i)'
      BY <2>3 DEF TagsFrom
    <3> QED
      BY <1>4, <3>1
  <2>5. Html!Separators(m, Len(parts) + 1)' = Html!Separators(m, w2 + 1)'
    BY <1>6 DEF Html!Separators
  <2> QED
    BY <1>8, <2>2, <2>3, <2>4, <2>5
<1> QED
  BY <1>3, <1>10, <1>11 DEF HtmlInv

(* A word that is kept comes last, behind what was pending.                   *)
LEMMA WordsAreAdded ==
  ASSUME HtmlInv, Html!HandleWord, skipDepth = 0
  PROVE  HtmlInv'
<1> DEFINE word == Html!Token("data", "word")
<1>1. PICK n \in Nat : n = Len(page)
  BY DEF HtmlInv, HtmlTypes
<1>2. PICK w \in Nat : w = Len(parts) /\ DOMAIN parts = 1 .. w
  BY DEF HtmlInv, HtmlTypes
<1>3. /\ word \in HtmlTokens /\ Feeds(word) /\ word.tag = "word"
      /\ page' = Append(page, word)
  BY DEF Html!HandleWord, Html!Feed, Feeds, Html!Token, HtmlTokens
<1>4. /\ DepthInv'
      /\ \A i \in 1 .. n : Html!Kept(i)' <=> Html!Kept(i)
      /\ Html!Kept(n + 1)'
  BY <1>1, <1>3, FeedKeepsDepth
<1>5. /\ \A i \in Nat, j \in 1 .. n + 1 : Html!Boundary(i, j)' = Html!Boundary(i, j)
      /\ \A i \in Nat : Html!Boundary(i, n + 1) = Bound(TagsFrom(i))
      /\ TagsFrom(n + 1)' = {}
  BY <1>1, <1>3, FeedKeepsBoundaries
<1>6. DOMAIN page = 1 .. n /\ DOMAIN page' = 1 .. n + 1 /\ page' \in Seq(HtmlTokens)
  <2>1. page \in Seq(HtmlTokens) /\ page' = Append(page, word)
    BY <1>3 DEF HtmlInv, HtmlTypes
  <2> QED
    BY <1>1, <1>3, <2>1
<1> DEFINE mark == pending # "none" /\ parts # <<>>
           parts_ == Seq({"word", "blank", "\n", "\t"} \X Nat)
<1>7. PICK x \in Nat : /\ x = Len(parts') /\ DOMAIN parts' = 1 .. x /\ parts' \in parts_
                       /\ parts'[x] = <<"word", n + 1>>
                       /\ \A m \in 1 .. w : parts'[m] = parts[m]
                       /\ mark => x = w + 2 /\ parts'[w + 1] = <<pending, 0>>
                       /\ ~mark => x = w + 1
  <2>1. parts \in parts_ /\ pending \in {"none", "\n", "\t"}
    BY DEF HtmlInv, HtmlTypes
  <2>2. <<"word", n + 1>> \in {"word", "blank", "\n", "\t"} \X Nat
    OBVIOUS
  <2>3. CASE mark
    <3>1. <<pending, 0>> \in {"word", "blank", "\n", "\t"} \X Nat
      BY <2>1, <2>3
    <3>2. parts' = Append(parts, <<pending, 0>>) \o <<<<"word", n + 1>>>>
      <4>1. parts' = (IF mark THEN Append(parts, <<pending, 0>>) ELSE parts)
                       \o <<<<"word", Len(page) + 1>>>>
        <5>1. ~(skipDepth > 0)
          OBVIOUS
        <5> QED
          BY <5>1, Zenon DEF Html!HandleWord
      <4> HIDE DEF mark
      <4> QED
        BY <1>1, <2>3, <4>1
    <3> HIDE DEF mark
    <3>3. /\ parts' \in parts_ /\ Len(parts') = w + 2 /\ DOMAIN parts' = 1 .. w + 2
          /\ parts'[w + 2] = <<"word", n + 1>> /\ parts'[w + 1] = <<pending, 0>>
          /\ \A m \in 1 .. w : parts'[m] = parts[m]
      BY <1>2, <2>1, <2>2, <3>1, <3>2
    <3> QED
      BY <2>3, <3>3
  <2>4. CASE ~mark
    <3>1. parts' = parts \o <<<<"word", n + 1>>>>
      BY <1>1, <2>4 DEF Html!HandleWord
    <3> HIDE DEF mark
    <3>2. /\ parts' \in parts_ /\ Len(parts') = w + 1 /\ DOMAIN parts' = 1 .. w + 1
          /\ parts'[w + 1] = <<"word", n + 1>>
          /\ \A m \in 1 .. w : parts'[m] = parts[m]
      BY <1>2, <2>1, <2>2, <3>1
    <3> QED
      BY <2>4, <3>2
  <2> QED
    BY <2>3, <2>4
<1>8. pending \in {"none", "\n", "\t"} /\ pending' = "none" /\ skipDepth' = skipDepth
  BY DEF HtmlInv, HtmlTypes, Html!HandleWord
<1>9. HtmlTypes'
  BY <1>6, <1>7, <1>8 DEF HtmlInv, HtmlTypes
<1> HIDE DEF word
<1>10. Html!Words' = Html!Words \cup {x} /\ Html!Words \subseteq 1 .. w /\ w < x
  <2>1. /\ mark => x = w + 2 /\ parts'[w + 1] = <<pending, 0>>
        /\ ~mark => x = w + 1
        /\ mark => pending \in {"\n", "\t"}
    BY <1>7, <1>8
  <2> HIDE DEF mark
  <2>2. w < x /\ 1 .. w \subseteq 1 .. x /\ x \in 1 .. x
    BY <1>2, <2>1
  <2>3. \A m \in w + 1 .. x : m # x => parts'[m][1] # "word"
    <3>1. CASE mark
      <4>1. \A m \in w + 1 .. x : m # x => m = w + 1
        BY <1>2, <2>1, <3>1
      <4>2. parts'[w + 1][1] = pending /\ pending # "word"
        BY <2>1, <3>1
      <4> QED
        BY <4>1, <4>2
    <3>2. CASE ~mark
      BY <1>2, <2>1, <3>2
    <3> QED
      BY <3>1, <3>2
  <2>4. \A m \in 1 .. w : m \in Html!Words' <=> m \in Html!Words
    BY <1>2, <1>7, <2>2 DEF Html!Words
  <2>5. \A m \in w + 1 .. x : m \in Html!Words' <=> m = x
    <3>1. w + 1 .. x \subseteq 1 .. x /\ parts'[x][1] = "word"
      BY <1>2, <1>7
    <3> QED
      BY <1>7, <2>3, <3>1 DEF Html!Words
  <2>6. Html!Words \subseteq 1 .. w /\ Html!Words' \subseteq 1 .. x
    BY <1>2, <1>7 DEF Html!Words
  <2>7. 1 .. x = (1 .. w) \cup (w + 1 .. x) /\ x \in w + 1 .. x
    BY <1>2, <2>2
  <2> QED
    BY <2>2, <2>4, <2>5, <2>6, <2>7
<1>11. \A m \in Html!Words : parts'[m][2] = parts[m][2] /\ parts[m][2] \in 1 .. n
  <2>1. {parts[m][2] : m \in Html!Words} = {i \in DOMAIN page : Html!Kept(i)}
    BY DEF HtmlInv, BlocksStayApart, Html!BlocksStayApart
  <2> QED
    BY <1>6, <1>7, <1>10, <2>1
<1>12. {parts'[m][2] : m \in Html!Words'} = {i \in DOMAIN page' : Html!Kept(i)'}
  <2>1. {parts'[m][2] : m \in Html!Words'} = {parts[m][2] : m \in Html!Words} \cup {n + 1}
    <3>1. parts'[x][2] = n + 1
      BY <1>7
    <3> QED
      BY <1>10, <1>11, <3>1
  <2>2. {i \in DOMAIN page' : Html!Kept(i)'} = {i \in DOMAIN page : Html!Kept(i)} \cup {n + 1}
    BY <1>4, <1>6
  <2> QED
    BY <2>1, <2>2 DEF HtmlInv, BlocksStayApart, Html!BlocksStayApart
<1>13. ASSUME NEW m \in Html!Words, NEW k \in Html!Words, m < k
       PROVE  /\ parts'[m][2] < parts'[k][2]
              /\ (m + 1 .. k - 1) \cap Html!Words' = {} =>
                   Html!Separators(m, k)' = Html!Boundary(parts[m][2], parts[k][2])'
  <2>1. /\ parts[m][2] < parts[k][2]
        /\ (m + 1 .. k - 1) \cap Html!Words = {} =>
             Html!Separators(m, k) = Html!Boundary(parts[m][2], parts[k][2])
    BY <1>13 DEF HtmlInv, BlocksStayApart, Html!BlocksStayApart
  <2>2. PICK i \in 1 .. n, j \in 1 .. n : i = parts[m][2] /\ j = parts[k][2]
    BY <1>11
  <2>3. Html!Boundary(parts[m][2], parts[k][2])' = Html!Boundary(i, j)'
    BY <1>11, <2>2 DEF Html!Boundary
  <2>4. Html!Boundary(i, j)' = Html!Boundary(i, j)
    BY <1>5
  <2>5. Html!Separators(m, k)' = Html!Separators(m, k)
    <3>1. {parts'[y][1] : y \in m + 1 .. k - 1} = {parts[y][1] : y \in m + 1 .. k - 1}
      <4>1. m + 1 .. k - 1 \subseteq 1 .. w
        BY <1>10
      <4> QED
        BY <1>7, <4>1
    <3> QED
      BY <3>1 DEF Html!Separators
  <2> QED
    BY <1>10, <1>11, <2>1, <2>2, <2>3, <2>4, <2>5
<1>14. ASSUME NEW m \in Html!Words
       PROVE  /\ parts'[m][2] < parts'[x][2]
              /\ (m + 1 .. x - 1) \cap Html!Words' = {} =>
                   Html!Separators(m, x)' = Html!Boundary(parts[m][2], parts[x][2])'
  <2>1. parts'[m][2] < parts'[x][2]
    BY <1>7, <1>11
  <2>2. ASSUME (m + 1 .. x - 1) \cap Html!Words' = {}
        PROVE  Html!Separators(m, x)' = Html!Boundary(parts[m][2], parts[x][2])'
    <3>1. IsLast(m)
      BY <1>2, <1>10, <2>2 DEF IsLast
    <3>2. /\ Bound(TagsFrom(parts[m][2])) = IF pending = "none" THEN {} ELSE {pending}
          /\ Html!Separators(m, w + 1) = {}
      BY <1>2, <3>1 DEF HtmlInv, PendingInv
    <3>3. PICK i \in 1 .. n : i = parts[m][2] /\ i = parts'[m][2]
      BY <1>11
    <3>4. Html!Boundary(parts[m][2], parts[x][2])' = Html!Boundary(i, n + 1)'
      BY <1>7, <3>3 DEF Html!Boundary
    <3>5. Html!Boundary(i, n + 1)' = IF pending = "none" THEN {} ELSE {pending}
      BY <1>5, <3>2, <3>3
    <3>6. {parts[y][1] : y \in m + 1 .. w} \cap {"\n", "\t"} = {}
      <4>1. (w + 1) - 1 = w
        OBVIOUS
      <4> QED
        BY <3>2, <4>1 DEF Html!Separators
    <3>7. \A y \in m + 1 .. w : parts'[y] = parts[y]
      BY <1>7, <1>10
    <3>8. mark <=> pending # "none"
      BY <1>2, <1>10
    <3> HIDE DEF mark
    <3>9. {parts'[y][1] : y \in m + 1 .. x - 1} \cap {"\n", "\t"} =
            IF pending = "none" THEN {} ELSE {pending}
      <4>1. CASE pending = "none"
        <5>1. x - 1 = w
          BY <1>7, <3>8, <4>1
        <5> QED
          BY <3>6, <3>7, <4>1, <5>1
      <4>2. CASE pending # "none"
        <5>1. x - 1 = w + 1 /\ parts'[w + 1][1] = pending
          BY <1>7, <3>8, <4>2
        <5>2. m + 1 .. w + 1 = (m + 1 .. w) \cup {w + 1}
          BY <1>10
        <5>3. {parts'[y][1] : y \in m + 1 .. w + 1} =
                {parts[y][1] : y \in m + 1 .. w} \cup {pending}
          BY <3>7, <5>1, <5>2
        <5> QED
          BY <1>8, <3>6, <4>2, <5>1, <5>3
      <4> QED
        BY <4>1, <4>2
    <3> QED
      BY <3>4, <3>5, <3>9 DEF Html!Separators
  <2> QED
    BY <2>1, <2>2
<1>15. BlocksStayApart'
  <2>1. ASSUME NEW m \in Html!Words', NEW k \in Html!Words', m < k
        PROVE  /\ parts'[m][2] < parts'[k][2]
               /\ (m + 1 .. k - 1) \cap Html!Words' = {} =>
                    Html!Separators(m, k)' = Html!Boundary(parts[m][2], parts[k][2])'
    <3>1. m \in Html!Words
      BY <1>10, <2>1
    <3>2. CASE k = x
      BY <1>14, <3>1, <3>2
    <3>3. CASE k \in Html!Words
      BY <1>13, <2>1, <3>1, <3>3
    <3> QED
      BY <1>10, <3>2, <3>3
  <2> QED
    BY <1>12, <2>1 DEF BlocksStayApart, Html!BlocksStayApart
<1>16. PendingInv'
  <2> SUFFICES ASSUME NEW m \in Html!Words', IsLast(m)'
               PROVE  /\ Bound(TagsFrom(parts[m][2])') = {}
                      /\ Html!Separators(m, Len(parts) + 1)' = {}
    BY <1>8 DEF PendingInv, Bound
  <2>1. m = x
    <3>1. (m + 1 .. x) \cap Html!Words' = {}
      BY <1>7 DEF IsLast
    <3>2. m \in 1 .. x /\ x \in Html!Words'
      BY <1>10
    <3> QED
      BY <3>1, <3>2
  <2>2. TagsFrom(parts[m][2])' = TagsFrom(n + 1)'
    BY <1>7, <2>1 DEF TagsFrom
  <2>3. Html!Separators(m, Len(parts) + 1)' = {}
    BY <1>7, <2>1 DEF Html!Separators
  <2> QED
    BY <1>5, <2>2, <2>3 DEF Bound
<1> QED
  BY <1>4, <1>9, <1>15, <1>16 DEF HtmlInv

LEMMA InitHtmlInv == Html!Init => HtmlInv
<1> SUFFICES ASSUME Html!Init PROVE HtmlInv
  OBVIOUS
<1>1. page = <<>> /\ parts = <<>> /\ skipDepth = 0 /\ pending = "none"
  BY DEF Html!Init
<1>2. HtmlTypes /\ Len(page) = 0 /\ DOMAIN page = {} /\ DOMAIN parts = {}
  BY <1>1 DEF HtmlTypes
<1>3. Html!Words = {}
  BY <1>2 DEF Html!Words
<1>4. Html!Count("start", 1, 0) = 0 /\ Html!Count("end", 1, 0) = 0
  <2>1. \A kinds : Among(page, kinds, 1, 0) = 0
    BY AmongNone
  <2> QED
    BY <2>1, HtmlCounts
<1>5. DepthInv
  BY <1>1, <1>2, <1>4 DEF DepthInv
<1> QED
  BY <1>2, <1>3, <1>5 DEF HtmlInv, PendingInv, BlocksStayApart, Html!BlocksStayApart

LEMMA TagsKeepHtmlInv ==
  ASSUME HtmlInv, NEW tag \in Html!Tags, Html!HandleStartTag(tag) \/ Html!HandleEndTag(tag)
  PROVE  HtmlInv'
<1> USE DEF Html!Token, Html!Tags
<1>1. HtmlTypes /\ Html!Mark(tag) /\ parts' = parts
  BY DEF HtmlInv, Html!HandleStartTag, Html!HandleEndTag, Html!MarkEnd
<1>2. PICK token \in HtmlTokens : token.tag = tag /\ token.kind # "data" /\ Feeds(token)
  <2>1. CASE Html!HandleStartTag(tag)
    <3>1. Html!Token("start", tag) \in HtmlTokens
      BY DEF HtmlTokens
    <3>2. Feeds(Html!Token("start", tag))
      BY <2>1 DEF Html!HandleStartTag, Html!Feed, Feeds
    <3> QED
      BY <3>1, <3>2
  <2>2. CASE Html!HandleEndTag(tag)
    <3>1. Html!Token("end", tag) \in HtmlTokens
      BY DEF HtmlTokens
    <3>2. Feeds(Html!Token("end", tag))
      BY <2>2 DEF Html!HandleEndTag, Html!Feed, Feeds
    <3> QED
      BY <3>1, <3>2
  <2> QED
    BY <2>1, <2>2
<1>3. HtmlTypes'
  <2>1. page' \in Seq(HtmlTokens)
    BY <1>1, <1>2 DEF HtmlTypes, Feeds
  <2>2. skipDepth' \in Nat
    BY <1>1, <1>2 DEF HtmlTypes, Feeds
  <2>3. pending' \in {"none", "\n", "\t"}
    BY <1>1 DEF HtmlTypes, Html!Mark
  <2> QED
    BY <1>1, <2>1, <2>2, <2>3 DEF HtmlTypes
<1>4. \A tags : (Bound(tags) = IF pending = "none" THEN {} ELSE {pending}) =>
        Bound(tags \cup {token.tag}) = IF pending' = "none" THEN {} ELSE {pending'}
  <2> SUFFICES ASSUME NEW tags, Bound(tags) = IF pending = "none" THEN {} ELSE {pending}
               PROVE  Bound(tags \cup {tag}) = IF pending' = "none" THEN {} ELSE {pending'}
    BY <1>2
  <2>1. CASE tag = "p"
    BY <1>1, <2>1 DEF Html!Mark, Bound
  <2>2. CASE tag = "td"
    BY <1>1, <2>2 DEF Html!Mark, Bound, HtmlTypes
  <2>3. CASE tag = "head"
    BY <1>1, <2>3 DEF Html!Mark, Bound, HtmlTypes
  <2> QED
    BY <2>1, <2>2, <2>3
<1> QED
  BY <1>1, <1>2, <1>3, <1>4, OtherTokensKeepWords

LEMMA TextKeepsHtmlInv ==
  ASSUME HtmlInv, Html!HandleWord \/ Html!HandleBlank
  PROVE  HtmlInv'
<1> USE DEF Html!Token, Html!Tags
<1>1. HtmlTypes
  BY DEF HtmlInv
<1>2. CASE Html!HandleWord /\ skipDepth = 0
  BY <1>2, WordsAreAdded
<1>3. CASE ~(Html!HandleWord /\ skipDepth = 0)
  <2>1. /\ pending' = pending /\ skipDepth' = skipDepth
        /\ parts' = parts \/ parts' = Append(parts, <<"blank", 0>>)
    <3>1. CASE Html!HandleWord
      <4>1. skipDepth > 0
        BY <1>1, <1>3, <3>1 DEF HtmlTypes
      <4> QED
        BY <3>1, <4>1 DEF Html!HandleWord
    <3>2. CASE Html!HandleBlank
      <4>1. UNCHANGED <<skipDepth, pending>>
        BY <3>2 DEF Html!HandleBlank
      <4>2. parts' = IF skipDepth > 0 \/ pending # "none" THEN parts
                     ELSE Append(parts, <<"blank", 0>>)
        BY <3>2 DEF Html!HandleBlank
      <4> QED
        BY <4>1, <4>2
    <3> QED
      BY <3>1, <3>2
  <2>2. PICK token \in HtmlTokens :
          /\ Feeds(token) /\ token.tag \notin {"p", "td"}
          /\ ~(token = Html!Token("data", "word") /\ skipDepth = 0)
    <3>1. CASE Html!HandleWord
      <4>1. Html!Token("data", "word") \in HtmlTokens
        BY DEF HtmlTokens
      <4>2. Feeds(Html!Token("data", "word"))
        BY <2>1, <3>1 DEF Html!HandleWord, Html!Feed, Feeds
      <4> QED
        BY <1>3, <3>1, <4>1, <4>2
    <3>2. CASE Html!HandleBlank
      <4>1. Html!Token("data", "blank") \in HtmlTokens
        BY DEF HtmlTokens
      <4>2. Feeds(Html!Token("data", "blank"))
        BY <2>1, <3>2 DEF Html!HandleBlank, Html!Feed, Feeds
      <4> QED
        BY <4>1, <4>2
    <3> QED
      BY <3>1, <3>2
  <2>3. HtmlTypes'
    <3>1. page' \in Seq(HtmlTokens)
      BY <1>1, <2>2 DEF HtmlTypes, Feeds
    <3> DEFINE piece == {"word", "blank", "\n", "\t"} \X Nat
    <3>2. <<"blank", 0>> \in piece
      OBVIOUS
    <3>3. parts' \in Seq(piece)
      <4>1. parts \in Seq(piece)
        BY <1>1 DEF HtmlTypes
      <4> HIDE DEF piece
      <4> QED
        BY <2>1, <3>2, <4>1
    <3> QED
      BY <1>1, <2>1, <3>1, <3>3 DEF HtmlTypes
  <2>4. \A tags : Bound(tags \cup {token.tag}) = Bound(tags)
    BY <2>2 DEF Bound
  <2> QED
    BY <2>1, <2>2, <2>3, <2>4, OtherTokensKeepWords
<1> QED
  BY <1>2, <1>3

LEMMA NextHtmlInv == HtmlInv /\ [Html!Next]_(Html!vars) => HtmlInv'
<1> SUFFICES ASSUME HtmlInv, [Html!Next]_(Html!vars) PROVE HtmlInv'
  OBVIOUS
<1>1. CASE Html!Next
  BY <1>1, TagsKeepHtmlInv, TextKeepsHtmlInv DEF Html!Next
<1>2. CASE UNCHANGED Html!vars
  <2>1. UNCHANGED <<page, parts, skipDepth, pending>>
    BY <1>2 DEF Html!vars
  <2>2. /\ \A sort, from, to : Html!Count(sort, from, to)' = Html!Count(sort, from, to)
        /\ \A i, j : Html!Boundary(i, j)' = Html!Boundary(i, j)
        /\ \A i, j : Html!Separators(i, j)' = Html!Separators(i, j)
        /\ \A i : TagsFrom(i)' = TagsFrom(i)
        /\ Html!Words' = Html!Words
    BY <2>1 DEF Html!Count, Html!Boundary, Html!Separators, TagsFrom, Html!Words
  <2>3. \A i : Html!Kept(i)' = Html!Kept(i)
    BY <2>1, <2>2 DEF Html!Kept
  <2>4. HtmlTypes' /\ DepthInv' /\ BlocksStayApart'
    BY <2>1, <2>2, <2>3 DEF HtmlInv, HtmlTypes, DepthInv, BlocksStayApart,
       Html!BlocksStayApart
  <2>5. PendingInv'
    BY <2>1, <2>2 DEF HtmlInv, PendingInv, IsLast, Bound
  <2> QED
    BY <2>4, <2>5 DEF HtmlInv
<1> QED
  BY <1>1, <1>2
-----------------------------------------------------------------------------
(* The pages of a PDF. Where no page begins and ends with the same line, a    *)
(* page has one vote for a line that is at its edge, and no other.            *)
PdfTypes == pages \in Seq(Seq(PageLines \cup {Blank}))

LEMMA PdfOperators ==
  \A S : /\ Pdf!Cardinality(S) = Cardinality(S)
         /\ Pdf!Min(S) = Min(S) /\ Pdf!Max(S) = Max(S)
BY Zenon DEF Pdf!Cardinality, Cardinality, Pdf!Min, Min, Pdf!Max, Max

LEMMA OneIsBothEnds ==
  ASSUME NEW n \in Nat, NEW S \in SUBSET (1 .. n), S # {}
  PROVE  /\ Min(S) \in S /\ Max(S) \in S
         /\ Cardinality(S) > 1 <=> Min(S) # Max(S)
<1>1. S \in SUBSET Nat
  OBVIOUS
<1>2. /\ Min(S) \in S /\ \A x \in S : Min(S) <= x
      /\ Max(S) \in S /\ \A x \in S : Max(S) >= x
  BY <1>1, MaxIsGreatest, MinIsLeast
<1>3. IsFiniteSet(S) /\ Cardinality(S) \in Nat
  <2>1. IsFiniteSet(1 .. n)
    BY FS_Interval
  <2>2. IsFiniteSet(S)
    BY <2>1, FS_Subset
  <2> QED
    BY <2>2, FS_CardinalityType
<1>4. Cardinality(S) # 0
  BY <1>3, FS_EmptySet
<1>5. Cardinality(S) = 1 <=> \E x : S = {x}
  BY <1>3, FS_Singleton
<1>6. ASSUME Min(S) = Max(S)
      PROVE  S = {Min(S)}
  <2>1. ASSUME NEW x \in S PROVE x = Min(S)
    <3>1. x \in Nat /\ Min(S) \in Nat
      BY <1>1, <1>2
    <3>2. Min(S) <= x /\ x <= Min(S)
      BY <1>1, <1>2, <1>6
    <3> QED
      BY <3>1, <3>2
  <2> QED
    BY <1>2, <2>1
<1> QED
  BY <1>2, <1>3, <1>4, <1>5, <1>6

LEMMA EdgesOfPage ==
  ASSUME NEW page_ \in Seq(PageLines \cup {Blank})
  PROVE  LET nb == Pdf!NonBlank(page_)
         IN  /\ nb # {} => /\ Min(nb) \in nb /\ Max(nb) \in nb
                           /\ Cardinality(nb) > 1 <=> Min(nb) # Max(nb)
             /\ Pdf!Edges(page_) = IF nb = {} THEN {} ELSE {Min(nb), Max(nb)}
             /\ \A i \in Pdf!Edges(page_) : page_[i] \in PageLines
<1> DEFINE nb == Pdf!NonBlank(page_)
<1>1. nb \in SUBSET (1 .. Len(page_)) /\ Len(page_) \in Nat
  BY DEF Pdf!NonBlank
<1>2. \A i \in nb : page_[i] \in PageLines
  BY DEF Pdf!NonBlank
<1>3. Pdf!Edges(page_) = IF nb = {} THEN {} ELSE {Min(nb), Max(nb)}
  BY PdfOperators, Zenon DEF Pdf!Edges
<1> HIDE DEF nb
<1>4. nb # {} => /\ Min(nb) \in nb /\ Max(nb) \in nb
                 /\ Cardinality(nb) > 1 <=> Min(nb) # Max(nb)
  BY <1>1, OneIsBothEnds
<1> QED
  BY <1>2, <1>3, <1>4 DEF nb

LEMMA PagesVoteOnce ==
  ASSUME PdfTypes, \A p \in DOMAIN pages : ~Pdf!HasTwin(pages[p]), NEW line
  PROVE  Pdf!Edge(line) =
           Cardinality({p \in DOMAIN pages :
                          \E i \in Pdf!Edges(pages[p]) : pages[p][i] = line})
<1> DEFINE nb(p) == Pdf!NonBlank(pages[p])
           P == {p \in DOMAIN pages : \E i \in Pdf!Edges(pages[p]) : pages[p][i] = line}
           V == {vote \in (DOMAIN pages) \X {"first", "last"} :
                   /\ vote[2] \in Pdf!Voting(pages[vote[1]])
                   /\ pages[vote[1]][Pdf!At(pages[vote[1]], vote[2])] = line}
           g == [vote \in V |-> vote[1]]
<1>1. Pdf!Edge(line) = Cardinality(V)
  BY PdfOperators, Zenon DEF Pdf!Edge
<1>2. ASSUME NEW p \in DOMAIN pages
      PROVE  /\ nb(p) # {} => (Cardinality(nb(p)) > 1 <=> Min(nb(p)) # Max(nb(p)))
             /\ Pdf!Edges(pages[p]) = IF nb(p) = {} THEN {} ELSE {Min(nb(p)), Max(nb(p))}
             /\ Pdf!At(pages[p], "first") = Min(nb(p))
             /\ Pdf!At(pages[p], "last") = Max(nb(p))
             /\ "first" \in Pdf!Voting(pages[p]) <=> nb(p) # {}
             /\ "last" \in Pdf!Voting(pages[p]) <=> nb(p) # {} /\ Cardinality(nb(p)) > 1
             /\ nb(p) # {} /\ Min(nb(p)) # Max(nb(p)) =>
                  pages[p][Min(nb(p))] # pages[p][Max(nb(p))]
  <2>1. pages[p] \in Seq(PageLines \cup {Blank})
    BY DEF PdfTypes
  <2>2. ~Pdf!HasTwin(pages[p])
    OBVIOUS
  <2>3. "first" # "last"
    OBVIOUS
  <2> QED
    BY <2>1, <2>2, <2>3, EdgesOfPage, PdfOperators DEF Pdf!At, Pdf!Voting, Pdf!HasTwin
<1>3. ASSUME NEW p \in DOMAIN pages
      PROVE  p \in P <=> \E side \in {"first", "last"} : <<p, side>> \in V
  <2>1. p \in P <=> \/ nb(p) # {} /\ pages[p][Min(nb(p))] = line
                    \/ nb(p) # {} /\ pages[p][Max(nb(p))] = line
    BY <1>2
  <2>2. <<p, "first">> \in V <=> nb(p) # {} /\ pages[p][Min(nb(p))] = line
    BY <1>2
  <2>3. <<p, "last">> \in V <=>
          nb(p) # {} /\ Min(nb(p)) # Max(nb(p)) /\ pages[p][Max(nb(p))] = line
    BY <1>2
  <2> HIDE DEF P, V, nb
  <2> QED
    BY <2>1, <2>2, <2>3
<1>4. ASSUME NEW p \in DOMAIN pages
      PROVE  ~(<<p, "first">> \in V /\ <<p, "last">> \in V)
  BY <1>2
<1>5. \A vote \in V : vote[1] \in DOMAIN pages /\ vote[2] \in {"first", "last"}
                      /\ vote = <<vote[1], vote[2]>>
  OBVIOUS
<1>6. P \subseteq DOMAIN pages
  OBVIOUS
<1> HIDE DEF P, V
<1>7. g \in [V -> P]
  BY <1>3, <1>5
<1>8. \A a, b \in V : g[a] = g[b] => a = b
  BY <1>4, <1>5
<1>9. \A p \in P : \E vote \in V : g[vote] = p
  BY <1>3, <1>6
<1>10. g \in Bijection(V, P) /\ IsFiniteSet(P) /\ g \in Injection(V, P)
  <2>1. IsFiniteSet(DOMAIN pages)
    BY FS_Interval DEF PdfTypes
  <2> HIDE DEF g
  <2> QED
    BY <1>6, <1>7, <1>8, <1>9, <2>1, FS_Subset DEF Bijection, Injection, Surjection, IsInjective
<1>11. IsFiniteSet(V)
  <2>1. IsFiniteSet(DOMAIN pages)
    BY FS_Interval DEF PdfTypes
  <2>2. IsFiniteSet({"first", "last"})
    <3>1. IsFiniteSet({"first"}) /\ IsFiniteSet({"last"})
      BY FS_Singleton
    <3>2. IsFiniteSet({"first"} \cup {"last"})
      BY <3>1, FS_Union
    <3>3. {"first", "last"} = {"first"} \cup {"last"}
      OBVIOUS
    <3> QED
      BY <3>2, <3>3
  <2>3. V \subseteq (DOMAIN pages) \X {"first", "last"}
    BY DEF V
  <2> QED
    BY <2>1, <2>2, <2>3, FS_Product, FS_Subset
<1>12. Cardinality(P) = Cardinality(V)
  BY <1>10, <1>11, FS_Bijection DEF ExistsBijection
<1> QED
  BY <1>1, <1>12 DEF P

LEMMA CutIsRunning ==
  ASSUME PdfTypes, \A p \in DOMAIN pages : ~Pdf!HasTwin(pages[p]), NEW p \in DOMAIN pages
  PROVE  Pdf!Cut(pages[p]) = Pdf!Running(pages[p])
<1>1. \A i \in Pdf!Edges(pages[p]) : pages[p][i] \in PageLines
  BY EdgesOfPage DEF PdfTypes
<1>2. \A line : 2 * Pdf!Edge(line) > Len(pages) <=> Pdf!Recurs(line)
  BY PagesVoteOnce, PdfOperators DEF Pdf!Recurs
<1> QED
  BY <1>1, <1>2 DEF Pdf!Cut, Pdf!Running, Pdf!Boilerplate

LEMMA BodiesStay == PdfTypes => BodiesAreKept
<1> SUFFICES ASSUME PdfTypes, \A p \in DOMAIN pages : ~Pdf!HasTwin(pages[p])
             PROVE  Pdf!CleanPdftotext =
                      Pdf!FlattenSeq([p \in DOMAIN pages |->
                        IF Len(pages) < 3 THEN pages[p]
                        ELSE Pdf!Without(pages[p], Pdf!Running(pages[p]))])
  BY DEF BodiesAreKept, Pdf!BodiesAreKept
<1> DEFINE cut == [p \in DOMAIN pages |-> Pdf!Without(pages[p], Pdf!Cut(pages[p]))]
           kept == [p \in DOMAIN pages |->
                      IF Len(pages) < 3 THEN pages[p]
                      ELSE Pdf!Without(pages[p], Pdf!Running(pages[p]))]
<1>1. pages = [p \in DOMAIN pages |-> pages[p]] /\ Len(pages) \in Nat
  BY DEF PdfTypes
<1>2. CASE Len(pages) < 3
  <2>1. kept = pages /\ ~(Len(pages) >= 3)
    BY <1>1, <1>2
  <2> HIDE DEF kept
  <2> QED
    BY <2>1 DEF Pdf!CleanPdftotext, kept
<1>3. CASE Len(pages) >= 3
  <2>1. \A p \in DOMAIN pages :
          Pdf!Without(pages[p], Pdf!Cut(pages[p])) =
            Pdf!Without(pages[p], Pdf!Running(pages[p]))
    BY CutIsRunning, Zenon
  <2>2. ~(Len(pages) < 3)
    BY <1>1, <1>3
  <2>3. cut = kept
    BY <2>1, <2>2
  <2>4. Pdf!CleanPdftotext = Pdf!FlattenSeq(cut)
    BY <1>3 DEF Pdf!CleanPdftotext
  <2> HIDE DEF cut, kept
  <2> QED
    BY <2>3, <2>4 DEF kept
<1> QED
  BY <1>1, <1>2, <1>3

LEMMA InitPdfTypes == Pdf!Init => PdfTypes
BY DEF Pdf!Init, PdfTypes

LEMMA NextPdfTypes == PdfTypes /\ [Pdf!Next]_pages => PdfTypes'
<1> SUFFICES ASSUME PdfTypes, [Pdf!Next]_pages PROVE PdfTypes'
  OBVIOUS
<1> DEFINE Page == Seq(PageLines \cup {Blank})
<1>1. ASSUME NEW line \in PageLines \cup {Blank}, Pdf!AddLine(line)
      PROVE  PdfTypes'
  <2>1. pages' = [pages EXCEPT ![Len(pages)] = Append(@, line)] /\ pages \in Seq(Page)
    BY <1>1 DEF Pdf!AddLine, PdfTypes
  <2>2. Append(pages[Len(pages)], line) \in Page \/ Len(pages) \notin DOMAIN pages
    BY <2>1
  <2> HIDE DEF Page
  <2>3. /\ DOMAIN pages = 1 .. Len(pages) /\ Len(pages) \in Nat
        /\ \A p \in DOMAIN pages : pages[p] \in Page
    BY <2>1
  <2>4. pages' \in [1 .. Len(pages) -> Page]
    BY <2>1, <2>2, <2>3
  <2>5. pages' \in Seq(Page)
    BY <2>3, <2>4
  <2> QED
    BY <2>5 DEF PdfTypes, Page
<1>2. CASE Pdf!FormFeed
  <2>1. pages' = Append(pages, <<>>) /\ pages \in Seq(Page) /\ <<>> \in Page
    BY <1>2 DEF Pdf!FormFeed, PdfTypes
  <2> HIDE DEF Page
  <2>2. pages' \in Seq(Page)
    BY <2>1
  <2> QED
    BY <2>2 DEF PdfTypes, Page
<1>3. CASE UNCHANGED pages
  BY <1>3 DEF PdfTypes
<1> QED
  BY <1>1, <1>2, <1>3 DEF Pdf!Next
-----------------------------------------------------------------------------
(* The reading order of an EPUB: each list that grows is a fold, followed      *)
(* document by document.                                                      *)
LEMMA EpubOperators ==
  /\ \A S : Epub!Max(S) = Max(S)
  /\ \A S : Epub!Min(S) = Min(S)
  /\ \A s, x : Epub!Contains(s, x) = Contains(s, x)
  /\ \A s : Epub!ToSet(s) = ToSet(s)
BY Zenon DEF Epub!Max, Max, Epub!Min, Min, Epub!Contains, Contains, Epub!ToSet, ToSet

(* What the reading order has grown to, document by document.                 *)
LEMMA UnseenFolds ==
  ASSUME NEW S, NEW W \in Seq(S)
  PROVE  \E h : /\ h[0] = <<>>
                /\ \A k \in 0 .. Len(W) : h[k] \in Seq(S)
                /\ \A k \in 0 .. Len(W) : k < Len(W) => h[k + 1] = Epub!AddUnseen(h[k], W[k + 1])
                /\ h[Len(W)] = Epub!FoldLeft(Epub!AddUnseen, <<>>, W)
<1> DEFINE n == Len(W)
           step == [p \in Seq(S) \X (1 .. n) |-> Epub!AddUnseen(p[1], W[p[2]])]
           Eq(g) == g = [s \in SUBSET DOMAIN W |->
                           IF s = {} THEN <<>>
                           ELSE Epub!AddUnseen(g[s \ {Epub!Max(s)}], W[Epub!Max(s)])]
           iter == CHOOSE g : Eq(g)
<1>1. n \in Nat /\ DOMAIN W = 1 .. n /\ <<>> \in Seq(S) /\ \A i \in 1 .. n : W[i] \in S
  OBVIOUS
<1>2. \A f \in Seq(S), x \in S : Epub!AddUnseen(f, x) \in Seq(S)
  BY DEF Epub!AddUnseen
<1>3. step \in [Seq(S) \X (1 .. n) -> Seq(S)]
  <2>1. \A q \in Seq(S) \X (1 .. n) : Epub!AddUnseen(q[1], W[q[2]]) \in Seq(S)
    BY <1>1, <1>2
  <2> QED
    BY <2>1
<1>4. Epub!FoldLeft(Epub!AddUnseen, <<>>, W) = iter[DOMAIN W]
  BY Zenon DEF Epub!FoldLeft, Epub!MapThenFoldSet
<1>5. PICK g : Folded(g, Seq(S), <<>>, step, n)
  BY <1>1, <1>3, FoldExists
<1>6. ASSUME NEW s \in SUBSET (1 .. n), s # {}, NEW f, f[s \ {Max(s)}] \in Seq(S)
      PROVE  step[<<f[s \ {Max(s)}], Max(s)>>]
               = Epub!AddUnseen(f[s \ {Epub!Max(s)}], W[Epub!Max(s)])
  <2>1. Max(s) \in 1 .. n
    BY <1>1, <1>6, MaxIsGreatest
  <2>2. Epub!Max(s) = Max(s)
    BY EpubOperators
  <2>3. step[<<f[s \ {Max(s)}], Max(s)>>] = Epub!AddUnseen(f[s \ {Max(s)}], W[Max(s)])
    BY <1>6, <2>1
  <2> HIDE DEF step
  <2> QED
    BY <2>2, <2>3, Zenon
<1>7. Eq(g)
  <2>1. ASSUME NEW s \in SUBSET (1 .. n), s # {}
        PROVE  g[s] = Epub!AddUnseen(g[s \ {Epub!Max(s)}], W[Epub!Max(s)])
    <3>1. g[s \ {Max(s)}] \in Seq(S)
      BY <1>5 DEF Folded
    <3>2. g[s] = step[<<g[s \ {Max(s)}], Max(s)>>]
      BY <1>5, <2>1, Zenon DEF Folded
    <3> HIDE DEF step
    <3> QED
      BY <1>6, <2>1, <3>1, <3>2, Zenon
  <2> QED
    BY <1>1, <1>5, <2>1 DEF Folded
<1>8. iter = [s \in SUBSET DOMAIN W |->
                IF s = {} THEN <<>>
                ELSE Epub!AddUnseen(iter[s \ {Epub!Max(s)}], W[Epub!Max(s)])]
  BY <1>7, Zenon
<1>9. iter[{}] = <<>>
  <2> HIDE DEF iter
  <2> QED
    BY <1>8
<1>10. ASSUME NEW s \in SUBSET (1 .. n), s # {}, iter[s \ {Max(s)}] \in Seq(S)
       PROVE  iter[s] = step[<<iter[s \ {Max(s)}], Max(s)>>]
  <2> HIDE DEF iter, step
  <2>1. iter[s] = Epub!AddUnseen(iter[s \ {Epub!Max(s)}], W[Epub!Max(s)])
    <3>1. s \in SUBSET DOMAIN W
      BY <1>1, Zenon
    <3>2. iter[s] = IF s = {} THEN <<>>
                    ELSE Epub!AddUnseen(iter[s \ {Epub!Max(s)}], W[Epub!Max(s)])
      BY <1>8, <3>1, Zenon
    <3> QED
      BY <1>10, <3>2, Zenon
  <2> QED
    BY <1>6, <1>10, <2>1, Zenon
<1> HIDE DEF iter
<1>11. PICK h : Steps(h, Seq(S), <<>>, step, n, iter[1 .. n])
  <2>1. Iterated(iter, Seq(S), <<>>, step, n)
    BY <1>9, <1>10, Zenon DEF Iterated
  <2>2. <<>> \in Seq(S) /\ n \in Nat
    BY <1>1
  <2> HIDE DEF step, n
  <2> QED
    BY <1>3, <2>1, <2>2, FoldSteps
<1>12. ASSUME NEW k \in 0 .. n, k < n PROVE h[k + 1] = Epub!AddUnseen(h[k], W[k + 1])
  <2>1. h[k] \in Seq(S) /\ k + 1 \in 1 .. n
    BY <1>1, <1>11, <1>12 DEF Steps
  <2>2. step[<<h[k], k + 1>>] = Epub!AddUnseen(h[k], W[k + 1])
    BY <2>1
  <2> HIDE DEF step
  <2> QED
    BY <1>11, <1>12, <2>2, Zenon DEF Steps
<1>13. h[n] = Epub!FoldLeft(Epub!AddUnseen, <<>>, W)
  BY <1>1, <1>4, <1>11, Zenon DEF Steps
<1> QED
  <2> HIDE DEF step
  <2> QED
    BY <1>11, <1>12, <1>13 DEF Steps

IfChosen(chosen, kept, href) == IF href \in chosen THEN Append(kept, href) ELSE kept
Items == [id : Ids, href : Epub!Hrefs]
Manifests == [ids : Seq(Ids), href : [Ids -> Epub!Hrefs \cup {0}]]
NoneListed == [ids |-> <<>>, href |-> [id \in Ids |-> 0]]

(* What is kept of a list, document by document.                              *)
LEMMA ThoseFold ==
  ASSUME NEW S, NEW W \in Seq(S), NEW chosen
  PROVE  \E h : /\ h[0] = <<>>
                /\ \A k \in 0 .. Len(W) : h[k] \in Seq(S)
                /\ \A k \in 0 .. Len(W) :
                     k < Len(W) => h[k + 1] = IfChosen(chosen, h[k], W[k + 1])
                /\ h[Len(W)] = Epub!Those(W, chosen)
<1> DEFINE n == Len(W)
           step == [p \in Seq(S) \X (1 .. n) |-> IfChosen(chosen, p[1], W[p[2]])]
           Eq(g) == g = [s \in SUBSET DOMAIN W |->
                           IF s = {} THEN <<>>
                           ELSE IfChosen(chosen, g[s \ {Epub!Max(s)}], W[Epub!Max(s)])]
           iter == CHOOSE g : Eq(g)
<1>1. n \in Nat /\ DOMAIN W = 1 .. n /\ <<>> \in Seq(S) /\ \A i \in 1 .. n : W[i] \in S
  OBVIOUS
<1>2. \A f \in Seq(S), x \in S : IfChosen(chosen, f, x) \in Seq(S)
  BY DEF IfChosen
<1>3. step \in [Seq(S) \X (1 .. n) -> Seq(S)]
  <2>1. \A q \in Seq(S) \X (1 .. n) : IfChosen(chosen, q[1], W[q[2]]) \in Seq(S)
    BY <1>1, <1>2
  <2> QED
    BY <2>1
<1>4. Epub!Those(W, chosen) = iter[DOMAIN W]
  BY Zenon DEF Epub!Those, IfChosen, Epub!FoldLeft, Epub!MapThenFoldSet
<1>5. PICK g : Folded(g, Seq(S), <<>>, step, n)
  BY <1>1, <1>3, FoldExists
<1>6. ASSUME NEW s \in SUBSET (1 .. n), s # {}, NEW f, f[s \ {Max(s)}] \in Seq(S)
      PROVE  step[<<f[s \ {Max(s)}], Max(s)>>]
               = IfChosen(chosen, f[s \ {Epub!Max(s)}], W[Epub!Max(s)])
  <2>1. Max(s) \in 1 .. n
    BY <1>1, <1>6, MaxIsGreatest
  <2>2. Epub!Max(s) = Max(s)
    BY EpubOperators
  <2>3. step[<<f[s \ {Max(s)}], Max(s)>>] = IfChosen(chosen, f[s \ {Max(s)}], W[Max(s)])
    BY <1>6, <2>1
  <2> HIDE DEF step
  <2> QED
    BY <2>2, <2>3, Zenon
<1>7. Eq(g)
  <2>1. ASSUME NEW s \in SUBSET (1 .. n), s # {}
        PROVE  g[s] = IfChosen(chosen, g[s \ {Epub!Max(s)}], W[Epub!Max(s)])
    <3>1. g[s \ {Max(s)}] \in Seq(S)
      BY <1>5 DEF Folded
    <3>2. g[s] = step[<<g[s \ {Max(s)}], Max(s)>>]
      BY <1>5, <2>1, Zenon DEF Folded
    <3> HIDE DEF step
    <3> QED
      BY <1>6, <2>1, <3>1, <3>2, Zenon
  <2> QED
    BY <1>1, <1>5, <2>1 DEF Folded
<1>8. iter = [s \in SUBSET DOMAIN W |->
                IF s = {} THEN <<>>
                ELSE IfChosen(chosen, iter[s \ {Epub!Max(s)}], W[Epub!Max(s)])]
  BY <1>7, Zenon
<1>9. iter[{}] = <<>>
  <2> HIDE DEF iter
  <2> QED
    BY <1>8
<1>10. ASSUME NEW s \in SUBSET (1 .. n), s # {}, iter[s \ {Max(s)}] \in Seq(S)
       PROVE  iter[s] = step[<<iter[s \ {Max(s)}], Max(s)>>]
  <2> HIDE DEF iter, step
  <2>1. iter[s] = IfChosen(chosen, iter[s \ {Epub!Max(s)}], W[Epub!Max(s)])
    <3>1. s \in SUBSET DOMAIN W
      BY <1>1, Zenon
    <3>2. iter[s] = IF s = {} THEN <<>>
                    ELSE IfChosen(chosen, iter[s \ {Epub!Max(s)}], W[Epub!Max(s)])
      BY <1>8, <3>1, Zenon
    <3> QED
      BY <1>10, <3>2, Zenon
  <2> QED
    BY <1>6, <1>10, <2>1, Zenon
<1> HIDE DEF iter
<1>11. PICK h : Steps(h, Seq(S), <<>>, step, n, iter[1 .. n])
  <2>1. Iterated(iter, Seq(S), <<>>, step, n)
    BY <1>9, <1>10, Zenon DEF Iterated
  <2>2. <<>> \in Seq(S) /\ n \in Nat
    BY <1>1
  <2> HIDE DEF step, n
  <2> QED
    BY <1>3, <2>1, <2>2, FoldSteps
<1>12. ASSUME NEW k \in 0 .. n, k < n PROVE h[k + 1] = IfChosen(chosen, h[k], W[k + 1])
  <2>1. h[k] \in Seq(S) /\ k + 1 \in 1 .. n
    BY <1>1, <1>11, <1>12 DEF Steps
  <2>2. step[<<h[k], k + 1>>] = IfChosen(chosen, h[k], W[k + 1])
    BY <2>1
  <2> HIDE DEF step
  <2> QED
    BY <1>11, <1>12, <2>2, Zenon DEF Steps
<1>13. h[n] = Epub!Those(W, chosen)
  BY <1>1, <1>4, <1>11, Zenon DEF Steps
<1> QED
  <2> HIDE DEF step
  <2> QED
    BY <1>11, <1>12, <1>13 DEF Steps

(* What the manifest has grown to, item by item.                             *)
LEMMA ManifestFolds ==
  ASSUME items \in Seq(Items)
  PROVE  \E h : /\ h[0] = NoneListed
                /\ \A k \in 0 .. Len(items) : h[k] \in Manifests
                /\ \A k \in 0 .. Len(items) :
                     k < Len(items) => h[k + 1] = Epub!Put(h[k], items[k + 1])
                /\ h[Len(items)] = Epub!Manifest
<1> DEFINE n == Len(items)
           step == [p \in Manifests \X (1 .. n) |-> Epub!Put(p[1], items[p[2]])]
           Eq(g) == g = [s \in SUBSET DOMAIN items |->
                           IF s = {} THEN NoneListed
                           ELSE Epub!Put(g[s \ {Epub!Max(s)}], items[Epub!Max(s)])]
           iter == CHOOSE g : Eq(g)
<1>1. n \in Nat /\ DOMAIN items = 1 .. n /\ NoneListed \in Manifests
      /\ \A i \in 1 .. n : items[i] \in Items
  BY DEF NoneListed, Manifests
<1>2. \A m \in Manifests, item \in Items : Epub!Put(m, item) \in Manifests
  BY DEF Epub!Put, Manifests, Items
<1>3. step \in [Manifests \X (1 .. n) -> Manifests]
  <2>1. \A q \in Manifests \X (1 .. n) : Epub!Put(q[1], items[q[2]]) \in Manifests
    BY <1>1, <1>2
  <2> QED
    BY <2>1
<1>4. Epub!Manifest = iter[DOMAIN items]
  BY Zenon DEF Epub!Manifest, NoneListed, Epub!FoldLeft, Epub!MapThenFoldSet
<1>5. PICK g : Folded(g, Manifests, NoneListed, step, n)
  BY <1>1, <1>3, FoldExists
<1>6. ASSUME NEW s \in SUBSET (1 .. n), s # {}, NEW f, f[s \ {Max(s)}] \in Manifests
      PROVE  step[<<f[s \ {Max(s)}], Max(s)>>]
               = Epub!Put(f[s \ {Epub!Max(s)}], items[Epub!Max(s)])
  <2>1. Max(s) \in 1 .. n
    BY <1>1, <1>6, MaxIsGreatest
  <2>2. Epub!Max(s) = Max(s)
    BY EpubOperators
  <2>3. step[<<f[s \ {Max(s)}], Max(s)>>] = Epub!Put(f[s \ {Max(s)}], items[Max(s)])
    BY <1>6, <2>1
  <2> HIDE DEF step
  <2> QED
    BY <2>2, <2>3, Zenon
<1>7. Eq(g)
  <2>1. ASSUME NEW s \in SUBSET (1 .. n), s # {}
        PROVE  g[s] = Epub!Put(g[s \ {Epub!Max(s)}], items[Epub!Max(s)])
    <3>1. g[s \ {Max(s)}] \in Manifests
      BY <1>5 DEF Folded
    <3>2. g[s] = step[<<g[s \ {Max(s)}], Max(s)>>]
      BY <1>5, <2>1, Zenon DEF Folded
    <3> HIDE DEF step
    <3> QED
      BY <1>6, <2>1, <3>1, <3>2, Zenon
  <2> QED
    BY <1>1, <1>5, <2>1 DEF Folded
<1>8. iter = [s \in SUBSET DOMAIN items |->
                IF s = {} THEN NoneListed
                ELSE Epub!Put(iter[s \ {Epub!Max(s)}], items[Epub!Max(s)])]
  BY <1>7, Zenon
<1>9. iter[{}] = NoneListed
  <2> HIDE DEF iter
  <2> QED
    BY <1>8
<1>10. ASSUME NEW s \in SUBSET (1 .. n), s # {}, iter[s \ {Max(s)}] \in Manifests
       PROVE  iter[s] = step[<<iter[s \ {Max(s)}], Max(s)>>]
  <2> HIDE DEF iter, step
  <2>1. iter[s] = Epub!Put(iter[s \ {Epub!Max(s)}], items[Epub!Max(s)])
    <3>1. s \in SUBSET DOMAIN items
      BY <1>1, Zenon
    <3>2. iter[s] = IF s = {} THEN NoneListed
                    ELSE Epub!Put(iter[s \ {Epub!Max(s)}], items[Epub!Max(s)])
      BY <1>8, <3>1, Zenon
    <3> QED
      BY <1>10, <3>2, Zenon
  <2> QED
    BY <1>6, <1>10, <2>1, Zenon
<1> HIDE DEF iter
<1>11. PICK h : Steps(h, Manifests, NoneListed, step, n, iter[1 .. n])
  <2>1. Iterated(iter, Manifests, NoneListed, step, n)
    BY <1>9, <1>10, Zenon DEF Iterated
  <2>2. NoneListed \in Manifests /\ n \in Nat
    BY <1>1
  <2> HIDE DEF step, n
  <2> QED
    BY <1>3, <2>1, <2>2, FoldSteps
<1>12. ASSUME NEW k \in 0 .. n, k < n PROVE h[k + 1] = Epub!Put(h[k], items[k + 1])
  <2>1. h[k] \in Manifests /\ k + 1 \in 1 .. n
    BY <1>1, <1>11, <1>12 DEF Steps
  <2>2. step[<<h[k], k + 1>>] = Epub!Put(h[k], items[k + 1])
    BY <2>1
  <2> HIDE DEF step
  <2> QED
    BY <1>11, <1>12, <2>2, Zenon DEF Steps
<1>13. h[n] = Epub!Manifest
  BY <1>1, <1>4, <1>11, Zenon DEF Steps
<1> QED
  <2> HIDE DEF step
  <2> QED
    BY <1>11, <1>12, <1>13 DEF Steps

(* Each document is in the order once, where the list names it first.         *)
Reading(W) == Epub!FoldLeft(Epub!AddUnseen, <<>>, W)
Unseen(F, S, W) ==
  /\ F \in Seq(S)
  /\ \A x : (\E i \in 1 .. Len(F) : F[i] = x)
              <=> x # 0 /\ (\E i \in 1 .. Len(W) : W[i] = x)
  /\ \A i, j \in 1 .. Len(F) : i < j => FirstAt(W, F[i]) < FirstAt(W, F[j])

LEMMA OrderKeeps ==
  ASSUME NEW S, NEW W \in Seq(S), NEW F, F = Reading(W)
  PROVE  Unseen(F, S, W)
<1> DEFINE n == Len(W)
<1>1. PICK h : /\ h[0] = <<>>
               /\ \A k \in 0 .. n : h[k] \in Seq(S)
               /\ \A k \in 0 .. n : k < n => h[k + 1] = Epub!AddUnseen(h[k], W[k + 1])
               /\ h[n] = Reading(W)
  BY UnseenFolds, Zenon DEF Reading
<1>2. n \in Nat /\ DOMAIN W = 1 .. n
  OBVIOUS
<1> DEFINE Kept(f, k) ==
             /\ \A x : (\E i \in 1 .. Len(f) : f[i] = x)
                         <=> x # 0 /\ (\E i \in 1 .. k : W[i] = x)
             /\ \A i, j \in 1 .. Len(f) : i < j => FirstAt(W, f[i]) < FirstAt(W, f[j])
           T == {k \in Nat : k <= n => Kept(h[k], k)}
<1>3. 0 \in T
  <2>1. Len(h[0]) = 0 /\ 1 .. 0 = {}
    BY <1>1
  <2>2. Kept(h[0], 0)
    BY <2>1
  <2> HIDE DEF Kept
  <2> QED
    BY <2>2
<1>4. ASSUME NEW k \in Nat, k \in T, k + 1 <= n PROVE Kept(h[k + 1], k + 1)
  <2> DEFINE f == h[k]
             x == W[k + 1]
  <2>1. k \in 0 .. n /\ k < n /\ k + 1 \in 1 .. n
    BY <1>2, <1>4
  <2>2. f \in Seq(S) /\ h[k + 1] = Epub!AddUnseen(f, x)
    BY <1>1, <2>1
  <2>3. Kept(f, k)
    BY <1>2, <1>4, <2>1
  <2>4. x \in S
    BY <2>1
  <2>5. \A y : (\E i \in 1 .. k + 1 : W[i] = y) <=> (\E i \in 1 .. k : W[i] = y) \/ y = x
    <3>1. \A i \in 1 .. k + 1 : i = k + 1 \/ i \in 1 .. k
      BY <1>4
    <3>2. k + 1 \in 1 .. k + 1 /\ 1 .. k \subseteq 1 .. k + 1
      BY <1>4
    <3> QED
      BY <3>1, <3>2
  <2> HIDE DEF f
  <2>6. CASE x = 0 \/ Contains(f, x)
    <3>1. h[k + 1] = f
      BY <2>2, <2>6, EpubOperators DEF Epub!AddUnseen
    <3>2. x = 0 \/ \E i \in 1 .. k : W[i] = x
      BY <2>2, <2>3, <2>6 DEF Contains
    <3> HIDE DEF x
    <3> QED
      BY <2>3, <2>5, <3>1, <3>2
  <2>7. CASE x # 0 /\ ~Contains(f, x)
    <3>1. h[k + 1] = Append(f, x)
      BY <2>2, <2>7, EpubOperators DEF Epub!AddUnseen
    <3> DEFINE g == Append(f, x)
    <3>2. /\ Len(g) = Len(f) + 1 /\ Len(f) \in Nat /\ g[Len(f) + 1] = x
          /\ \A i \in 1 .. Len(f) : g[i] = f[i]
      BY <2>2, <2>4
    <3>3. \A i \in 1 .. k : W[i] # x
      BY <2>2, <2>3, <2>7 DEF Contains
    <3>4. FirstAt(W, x) = k + 1
      BY <2>1, <3>3, FirstAtIsFirst
    <3>5. ASSUME NEW i \in 1 .. Len(f) PROVE FirstAt(W, f[i]) < k + 1
      <4>1. PICK j \in 1 .. k : W[j] = f[i]
        BY <2>3
      <4>2. j \in 1 .. Len(W)
        BY <2>1
      <4>3. FirstAt(W, W[j]) \in 1 .. j
        BY <4>2, FirstAtIsFirst
      <4> QED
        BY <1>4, <4>1, <4>3
    <3>6. \A y : (\E i \in 1 .. Len(g) : g[i] = y) <=> (\E i \in 1 .. Len(f) : f[i] = y) \/ y = x
      <4>1. \A i \in 1 .. Len(g) : i = Len(f) + 1 \/ i \in 1 .. Len(f)
        BY <3>2
      <4>2. Len(f) + 1 \in 1 .. Len(g) /\ 1 .. Len(f) \subseteq 1 .. Len(g)
        BY <3>2
      <4> HIDE DEF g
      <4> QED
        BY <3>2, <4>1, <4>2
    <3>7. \A i, j \in 1 .. Len(g) : i < j => FirstAt(W, g[i]) < FirstAt(W, g[j])
      <4> SUFFICES ASSUME NEW i \in 1 .. Len(g), NEW j \in 1 .. Len(g), i < j
                   PROVE  FirstAt(W, g[i]) < FirstAt(W, g[j])
        OBVIOUS
      <4>1. i \in 1 .. Len(f) /\ g[i] = f[i]
        BY <3>2
      <4>2. CASE j \in 1 .. Len(f)
        BY <2>3, <3>2, <4>1, <4>2
      <4>3. CASE j = Len(f) + 1
        BY <3>2, <3>4, <3>5, <4>1, <4>3
      <4> QED
        BY <3>2, <4>2, <4>3
    <3>8. Kept(g, k + 1)
      <4> HIDE DEF g, x
      <4> QED
        BY <2>3, <2>5, <2>7, <3>6, <3>7
    <3> HIDE DEF Kept, x
    <3> QED
      BY <3>1, <3>8, Zenon
  <2> QED
    BY <2>6, <2>7
<1>5. Kept(h[n], n)
  <2>1. \A k \in Nat : k \in T => k + 1 \in T
    <3> HIDE DEF Kept
    <3> QED
      BY <1>2, <1>4
  <2>2. \A k \in Nat : k \in T
    <3> HIDE DEF T
    <3> QED
      BY <1>3, <2>1, Induction
  <2> HIDE DEF Kept
  <2> QED
    BY <1>2, <2>2
<1>6. h[n] \in Seq(S)
  BY <1>1, <1>2
<1> QED
  BY <1>1, <1>5, <1>6, Zenon DEF Unseen

(* Of a list without repetition, what is chosen is kept in its order.         *)
Chosen(F, S, W, chosen) ==
  /\ F \in Seq(S)
  /\ \A x : (\E i \in 1 .. Len(F) : F[i] = x)
              <=> x \in chosen /\ (\E i \in 1 .. Len(W) : W[i] = x)
  /\ \A i, j \in 1 .. Len(F) : i < j => FirstAt(W, F[i]) < FirstAt(W, F[j])
OnceEach(W) == \A i, j \in 1 .. Len(W) : W[i] = W[j] => i = j

LEMMA ThoseKeep ==
  ASSUME NEW S, NEW W \in Seq(S), OnceEach(W), NEW chosen, NEW F, F = Epub!Those(W, chosen)
  PROVE  Chosen(F, S, W, chosen)
<1> DEFINE n == Len(W)
<1>1. PICK h : /\ h[0] = <<>>
               /\ \A k \in 0 .. n : h[k] \in Seq(S)
               /\ \A k \in 0 .. n : k < n => h[k + 1] = IfChosen(chosen, h[k], W[k + 1])
               /\ h[n] = Epub!Those(W, chosen)
  BY ThoseFold
<1>2. n \in Nat /\ DOMAIN W = 1 .. n
  OBVIOUS
<1> DEFINE Kept(f, k) ==
             /\ \A x : (\E i \in 1 .. Len(f) : f[i] = x)
                         <=> x \in chosen /\ (\E i \in 1 .. k : W[i] = x)
             /\ \A i, j \in 1 .. Len(f) : i < j => FirstAt(W, f[i]) < FirstAt(W, f[j])
           T == {k \in Nat : k <= n => Kept(h[k], k)}
<1>3. 0 \in T
  <2>1. Len(h[0]) = 0 /\ 1 .. 0 = {}
    BY <1>1
  <2>2. Kept(h[0], 0)
    BY <2>1
  <2> HIDE DEF Kept
  <2> QED
    BY <2>2
<1>4. ASSUME NEW k \in Nat, k \in T, k + 1 <= n PROVE Kept(h[k + 1], k + 1)
  <2> DEFINE f == h[k]
             x == W[k + 1]
  <2>1. k \in 0 .. n /\ k < n /\ k + 1 \in 1 .. n
    BY <1>2, <1>4
  <2>2. f \in Seq(S) /\ h[k + 1] = IfChosen(chosen, f, x)
    BY <1>1, <2>1
  <2>3. Kept(f, k)
    BY <1>2, <1>4, <2>1
  <2>4. x \in S
    BY <2>1
  <2>5. \A y : (\E i \in 1 .. k + 1 : W[i] = y) <=> (\E i \in 1 .. k : W[i] = y) \/ y = x
    <3>1. \A i \in 1 .. k + 1 : i = k + 1 \/ i \in 1 .. k
      BY <1>4
    <3>2. k + 1 \in 1 .. k + 1 /\ 1 .. k \subseteq 1 .. k + 1
      BY <1>4
    <3> QED
      BY <3>1, <3>2
  <2> HIDE DEF f
  <2>6. CASE x \notin chosen
    <3>1. h[k + 1] = f
      BY <2>2, <2>6 DEF IfChosen
    <3> HIDE DEF x
    <3> QED
      BY <2>3, <2>5, <2>6, <3>1
  <2>7. CASE x \in chosen
    <3>1. h[k + 1] = Append(f, x)
      BY <2>2, <2>7 DEF IfChosen
    <3> DEFINE g == Append(f, x)
    <3>2. /\ Len(g) = Len(f) + 1 /\ Len(f) \in Nat /\ g[Len(f) + 1] = x
          /\ \A i \in 1 .. Len(f) : g[i] = f[i]
      BY <2>2, <2>4
    <3>3. \A i \in 1 .. k : W[i] # x
      <4>1. \A i \in 1 .. k : i \in 1 .. Len(W) /\ i # k + 1
        BY <1>4, <2>1
      <4> QED
        BY <2>1, <4>1 DEF OnceEach
    <3>4. FirstAt(W, x) = k + 1
      BY <2>1, <3>3, FirstAtIsFirst
    <3>5. ASSUME NEW i \in 1 .. Len(f) PROVE FirstAt(W, f[i]) < k + 1
      <4>1. PICK j \in 1 .. k : W[j] = f[i]
        BY <2>3
      <4>2. j \in 1 .. Len(W)
        BY <2>1
      <4>3. FirstAt(W, W[j]) \in 1 .. j
        BY <4>2, FirstAtIsFirst
      <4> QED
        BY <1>4, <4>1, <4>3
    <3>6. \A y : (\E i \in 1 .. Len(g) : g[i] = y) <=> (\E i \in 1 .. Len(f) : f[i] = y) \/ y = x
      <4>1. \A i \in 1 .. Len(g) : i = Len(f) + 1 \/ i \in 1 .. Len(f)
        BY <3>2
      <4>2. Len(f) + 1 \in 1 .. Len(g) /\ 1 .. Len(f) \subseteq 1 .. Len(g)
        BY <3>2
      <4> HIDE DEF g
      <4> QED
        BY <3>2, <4>1, <4>2
    <3>7. \A i, j \in 1 .. Len(g) : i < j => FirstAt(W, g[i]) < FirstAt(W, g[j])
      <4> SUFFICES ASSUME NEW i \in 1 .. Len(g), NEW j \in 1 .. Len(g), i < j
                   PROVE  FirstAt(W, g[i]) < FirstAt(W, g[j])
        OBVIOUS
      <4>1. i \in 1 .. Len(f) /\ g[i] = f[i]
        BY <3>2
      <4>2. CASE j \in 1 .. Len(f)
        BY <2>3, <3>2, <4>1, <4>2
      <4>3. CASE j = Len(f) + 1
        BY <3>2, <3>4, <3>5, <4>1, <4>3
      <4> QED
        BY <3>2, <4>2, <4>3
    <3>8. Kept(g, k + 1)
      <4> HIDE DEF g, x
      <4> QED
        BY <2>3, <2>5, <2>7, <3>6, <3>7
    <3> HIDE DEF Kept, x
    <3> QED
      BY <3>1, <3>8, Zenon
  <2> QED
    BY <2>6, <2>7
<1>5. Kept(h[n], n)
  <2>1. \A k \in Nat : k \in T => k + 1 \in T
    <3> HIDE DEF Kept
    <3> QED
      BY <1>2, <1>4
  <2>2. \A k \in Nat : k \in T
    <3> HIDE DEF T
    <3> QED
      BY <1>3, <2>1, Induction
  <2> HIDE DEF Kept
  <2> QED
    BY <1>2, <2>2
<1>6. h[n] \in Seq(S)
  BY <1>1, <1>2
<1> QED
  BY <1>1, <1>5, <1>6, Zenon DEF Chosen

(* The manifest knows each of its ids, and what the last item said of it.     *)
LEMMA ManifestIsNamed ==
  ASSUME items \in Seq(Items)
  PROVE  /\ Epub!Manifest \in Manifests
         /\ \A id \in Ids : Epub!Manifest.href[id] = Epub!Named(id)
         /\ \A id : (\E i \in 1 .. Len(Epub!Manifest.ids) : Epub!Manifest.ids[i] = id)
                      <=> (\E i \in 1 .. Len(items) : items[i].id = id)
<1> DEFINE n == Len(items)
           Of(id, k) == {i \in 1 .. k : items[i].id = id}
<1>1. PICK h : /\ h[0] = NoneListed
               /\ \A k \in 0 .. n : h[k] \in Manifests
               /\ \A k \in 0 .. n : k < n => h[k + 1] = Epub!Put(h[k], items[k + 1])
               /\ h[n] = Epub!Manifest
  BY ManifestFolds
<1>2. n \in Nat /\ DOMAIN items = 1 .. n /\ \A i \in 1 .. n : items[i] \in Items
  OBVIOUS
<1> DEFINE Lasting(m, k) ==
             \A id \in Ids :
               /\ Of(id, k) = {} => m.href[id] = 0
               /\ \A i \in Of(id, k) :
                    (\A j \in Of(id, k) : j <= i) => m.href[id] = items[i].href
           Known(m, k) ==
             \A id : (\E i \in 1 .. Len(m.ids) : m.ids[i] = id) <=> Of(id, k) # {}
           T == {k \in Nat : k <= n => Lasting(h[k], k) /\ Known(h[k], k)}
<1>3. 0 \in T
  <2>1. 1 .. 0 = {} /\ Len(h[0].ids) = 0 /\ \A id \in Ids : h[0].href[id] = 0
    BY <1>1 DEF NoneListed
  <2>2. Lasting(h[0], 0) /\ Known(h[0], 0)
    BY <2>1
  <2> HIDE DEF Lasting, Known
  <2> QED
    BY <2>2
<1>4. ASSUME NEW k \in Nat, k \in T, k + 1 <= n
      PROVE  Lasting(h[k + 1], k + 1) /\ Known(h[k + 1], k + 1)
  <2> DEFINE m == h[k]
             new == h[k + 1]
             item == items[k + 1]
  <2>1. k \in 0 .. n /\ k < n /\ k + 1 \in 1 .. n
    BY <1>2, <1>4
  <2>2. m \in Manifests /\ new = Epub!Put(m, item) /\ item \in Items
    BY <1>1, <1>2, <2>1
  <2>3. Lasting(m, k) /\ Known(m, k)
    <3> HIDE DEF Lasting, Known
    <3> QED
      BY <1>4, <2>1
  <2>4. m.ids \in Seq(Ids) /\ m.href \in [Ids -> Epub!Hrefs \cup {0}] /\ item.id \in Ids
    BY <2>2 DEF Manifests, Items
  <2>5. /\ new.ids = IF Contains(m.ids, item.id) THEN m.ids ELSE Append(m.ids, item.id)
        /\ new.href = [m.href EXCEPT ![item.id] = item.href]
    BY <2>2, EpubOperators DEF Epub!Put
  <2>6. \A id : Of(id, k + 1) = IF id = item.id THEN Of(id, k) \cup {k + 1} ELSE Of(id, k)
    <3>1. \A i \in 1 .. k + 1 : i = k + 1 \/ i \in 1 .. k
      BY <1>4
    <3>2. k + 1 \in 1 .. k + 1 /\ 1 .. k \subseteq 1 .. k + 1
      BY <1>4
    <3> QED
      BY <3>1, <3>2
  <2>7. \A id : Of(id, k) \subseteq 1 .. k
    OBVIOUS
  <2> HIDE DEF m, new, item, Of
  <2>8. Lasting(new, k + 1)
    <3> SUFFICES ASSUME NEW id \in Ids
                 PROVE  /\ Of(id, k + 1) = {} => new.href[id] = 0
                        /\ \A i \in Of(id, k + 1) :
                             (\A j \in Of(id, k + 1) : j <= i) => new.href[id] = items[i].href
      OBVIOUS
    <3>1. CASE id # item.id
      BY <2>3, <2>4, <2>5, <2>6, <3>1
    <3>2. CASE id = item.id
      <4>1. new.href[id] = item.href /\ Of(id, k + 1) = Of(id, k) \cup {k + 1}
        BY <2>4, <2>5, <2>6, <3>2
      <4>2. \A i \in Of(id, k) : i < k + 1
        BY <1>4, <2>7
      <4>3. \A i \in Of(id, k + 1) : (\A j \in Of(id, k + 1) : j <= i) => i = k + 1
        BY <1>4, <2>7, <4>1, <4>2
      <4> QED
        BY <4>1, <4>3 DEF item
    <3> QED
      BY <3>1, <3>2
  <2>9. Known(new, k + 1)
    <3>1. CASE Contains(m.ids, item.id)
      <4>1. Of(item.id, k) # {}
        BY <2>3, <2>4, <3>1 DEF Contains
      <4> QED
        BY <2>3, <2>5, <2>6, <3>1, <4>1
    <3>2. CASE ~Contains(m.ids, item.id)
      <4>1. new.ids = Append(m.ids, item.id)
        BY <2>5, <3>2
      <4>2. /\ Len(new.ids) = Len(m.ids) + 1 /\ Len(m.ids) \in Nat
            /\ new.ids[Len(m.ids) + 1] = item.id
            /\ \A i \in 1 .. Len(m.ids) : new.ids[i] = m.ids[i]
        BY <2>4, <4>1
      <4>3. \A i \in 1 .. Len(new.ids) : i = Len(m.ids) + 1 \/ i \in 1 .. Len(m.ids)
        BY <4>2
      <4>4. Len(m.ids) + 1 \in 1 .. Len(new.ids) /\ 1 .. Len(m.ids) \subseteq 1 .. Len(new.ids)
        BY <4>2
      <4>5. \A id : (\E i \in 1 .. Len(new.ids) : new.ids[i] = id)
                      <=> (\E i \in 1 .. Len(m.ids) : m.ids[i] = id) \/ id = item.id
        BY <4>2, <4>3, <4>4
      <4> QED
        BY <2>3, <2>6, <4>5
    <3> QED
      BY <3>1, <3>2
  <2> QED
    BY <2>8, <2>9 DEF new
<1>5. Lasting(h[n], n) /\ Known(h[n], n)
  <2>1. \A k \in Nat : k \in T => k + 1 \in T
    <3> HIDE DEF Lasting, Known
    <3> QED
      BY <1>2, <1>4
  <2>2. \A k \in Nat : k \in T
    <3> HIDE DEF T
    <3> QED
      BY <1>3, <2>1, Induction
  <2> HIDE DEF Lasting, Known
  <2> QED
    BY <1>2, <2>2
<1>6. Epub!Manifest \in Manifests
  BY <1>1, <1>2
<1>7. ASSUME NEW id \in Ids PROVE Epub!Manifest.href[id] = Epub!Named(id)
  <2>1. Epub!Named(id) = IF Of(id, n) = {} THEN 0 ELSE items[Max(Of(id, n))].href
    BY <1>2, EpubOperators DEF Epub!Named
  <2>2. CASE Of(id, n) = {}
    BY <1>1, <1>5, <1>7, <2>1, <2>2
  <2>3. CASE Of(id, n) # {}
    <3>1. Max(Of(id, n)) \in Of(id, n) /\ \A j \in Of(id, n) : Max(Of(id, n)) >= j
      BY <1>2, <2>3, MaxIsGreatest
    <3>2. \A j \in Of(id, n) : j <= Max(Of(id, n))
      BY <1>2, <3>1
    <3> HIDE DEF Of
    <3> QED
      BY <1>1, <1>5, <1>7, <2>1, <2>3, <3>1, <3>2
  <2> QED
    BY <2>2, <2>3
<1> QED
  BY <1>1, <1>5, <1>6, <1>7

(* What the reading order is folded from: each document the spine names comes *)
(* first where it names it first, and the others after them.                  *)
EpubInv ==
  items \in Seq(Items) /\ itemrefs \in Seq(Ids) /\ members \in SUBSET Epub!Hrefs

Ordered(W) ==
  /\ W \in Seq(Nat) /\ Epub!SpineOrder = Reading(W)
  /\ \A x : x # 0 => ((\E i \in 1 .. Len(W) : W[i] = x) <=> x \in Epub!Due)
  /\ \A x : (x # 0 /\ Epub!Spined(x) # {}) => FirstAt(W, x) = Epub!Min(Epub!Spined(x))
  /\ \A x, y : (x # 0 /\ y \in Epub!Due /\ Epub!Spined(x) # {} /\ Epub!Spined(y) = {}) =>
                 FirstAt(W, x) < FirstAt(W, y)

LEMMA SpineComesFirst ==
  ASSUME EpubInv
  PROVE  \E W : Ordered(W)
<1> DEFINE manifest == Epub!Manifest
           r == Len(itemrefs)
           spine == [k \in DOMAIN itemrefs |-> manifest.href[itemrefs[k]]]
           values == [k \in DOMAIN manifest.ids |-> manifest.href[manifest.ids[k]]]
           rest == [k \in DOMAIN values |-> IF values[k] \in Content THEN values[k] ELSE 0]
           W == spine \o rest
<1>1. /\ manifest \in Manifests
      /\ \A id \in Ids : manifest.href[id] = Epub!Named(id)
      /\ \A id : (\E i \in 1 .. Len(manifest.ids) : manifest.ids[i] = id)
                   <=> (\E i \in 1 .. Len(items) : items[i].id = id)
  BY ManifestIsNamed DEF EpubInv
<1>2. /\ manifest.ids \in Seq(Ids) /\ manifest.href \in [Ids -> Epub!Hrefs \cup {0}]
      /\ itemrefs \in Seq(Ids) /\ r \in Nat /\ DOMAIN itemrefs = 1 .. r
      /\ DOMAIN manifest.ids = 1 .. Len(manifest.ids) /\ Len(manifest.ids) \in Nat
  BY <1>1 DEF Manifests, EpubInv
<1>3. Documents \in Nat /\ Epub!Hrefs \subseteq Nat /\ 0 \notin Epub!Hrefs
      /\ Content \subseteq Epub!Hrefs
  BY ContentIsNamed DEF Epub!Hrefs
<1>4. \A id \in Ids : Epub!Named(id) \in Epub!Hrefs \cup {0}
  BY <1>1, <1>2
<1>5. \A id \in Ids : Epub!Named(id) # 0 => \E i \in 1 .. Len(items) : items[i].id = id
  <2> SUFFICES ASSUME NEW id \in Ids, \A i \in 1 .. Len(items) : items[i].id # id
               PROVE  Epub!Named(id) = 0
    OBVIOUS
  <2>1. DOMAIN items = 1 .. Len(items)
    BY DEF EpubInv
  <2> QED
    BY <2>1 DEF Epub!Named
<1> HIDE DEF manifest
<1>6. spine \in Seq(Nat) /\ Len(spine) = r /\ \A k \in 1 .. r : spine[k] = Epub!Named(itemrefs[k])
  <2>1. \A k \in 1 .. r : itemrefs[k] \in Ids
    BY <1>2
  <2>2. DOMAIN spine = 1 .. r
    BY <1>2
  <2>3. \A k \in 1 .. r : spine[k] = Epub!Named(itemrefs[k])
    BY <1>1, <1>2, <2>1
  <2>4. \A k \in 1 .. r : spine[k] \in Nat
    <3> HIDE DEF spine, r
    <3>1. \A x \in Epub!Hrefs \cup {0} : x \in Nat
      BY <1>3
    <3> QED
      BY <1>4, <2>1, <2>3, <3>1
  <2>5. spine = [k \in 1 .. r |-> spine[k]]
    BY <1>2
  <2> HIDE DEF spine
  <2>6. spine \in [1 .. r -> Nat]
    BY <2>4, <2>5
  <2> QED
    BY <1>2, <2>2, <2>3, <2>6
<1>7. /\ rest \in Seq(Nat) /\ Len(rest) = Len(manifest.ids)
      /\ \A k \in 1 .. Len(manifest.ids) :
           rest[k] = IF Epub!Named(manifest.ids[k]) \in Content
                     THEN Epub!Named(manifest.ids[k]) ELSE 0
  <2> DEFINE m == Len(manifest.ids)
  <2>1. \A k \in 1 .. m : manifest.ids[k] \in Ids /\ values[k] = Epub!Named(manifest.ids[k])
    BY <1>1, <1>2
  <2>2. DOMAIN values = 1 .. m
    BY <1>2
  <2> HIDE DEF values
  <2>3. \A k \in 1 .. m : rest[k] \in Nat
    BY <1>3, <2>2
  <2>4. DOMAIN rest = 1 .. m
    BY <2>2
  <2>5. rest \in [1 .. m -> Nat]
    BY <2>2, <2>3
  <2> QED
    BY <1>2, <2>1, <2>2, <2>4, <2>5
<1>8. Epub!SpineOrder = Reading(W)
  BY Zenon DEF Reading, Epub!SpineOrder, manifest
<1> HIDE DEF spine, rest, values
<1>9. /\ W \in Seq(Nat) /\ Len(W) = r + Len(rest) /\ Len(rest) \in Nat
      /\ \A i \in 1 .. r : W[i] = spine[i]
      /\ \A i \in 1 .. Len(rest) : W[r + i] = rest[i]
      /\ \A i \in 1 .. Len(W) : i > r => W[i] = rest[i - r] /\ i - r \in 1 .. Len(rest)
  <2>1. /\ W \in Seq(Nat) /\ Len(W) = Len(spine) + Len(rest)
        /\ \A i \in 1 .. Len(W) :
             W[i] = IF i <= Len(spine) THEN spine[i] ELSE rest[i - Len(spine)]
    <3>1. spine \in Seq(Nat) /\ rest \in Seq(Nat)
      BY <1>6, <1>7
    <3> HIDE DEF spine, rest
    <3> QED
      BY <3>1, ConcatProperties
  <2>2. Len(rest) \in Nat /\ Len(spine) = r
    BY <1>6, <1>7
  <2> HIDE DEF W, r
  <2>3. ASSUME NEW i \in 1 .. r PROVE W[i] = spine[i]
    BY <1>2, <2>1, <2>2
  <2>4. ASSUME NEW i \in 1 .. Len(rest) PROVE W[r + i] = rest[i]
    <3>1. r + i \in 1 .. Len(W) /\ ~(r + i <= r) /\ (r + i) - r = i
      BY <1>2, <2>1, <2>2
    <3> QED
      BY <2>1, <2>2, <3>1
  <2>5. ASSUME NEW i \in 1 .. Len(W), i > r
        PROVE  W[i] = rest[i - r] /\ i - r \in 1 .. Len(rest)
    BY <1>2, <2>1, <2>2, <2>5
  <2> QED
    BY <2>1, <2>2, <2>3, <2>4, <2>5
<1> HIDE DEF W
<1>10. \A x : Epub!Spined(x) = {k \in 1 .. r : W[k] = x}
  BY <1>2, <1>6, <1>9 DEF Epub!Spined
<1>11. ASSUME NEW x, x # 0
       PROVE  (\E i \in 1 .. Len(W) : W[i] = x) <=> x \in Epub!Due
  <2>1. ASSUME NEW i \in 1 .. Len(W), W[i] = x PROVE x \in Epub!Due
    <3>1. CASE i <= r
      <4>1. i \in 1 .. r /\ i \in Epub!Spined(x)
        BY <1>2, <1>10, <2>1, <3>1
      <4>2. x = Epub!Named(itemrefs[i]) /\ itemrefs[i] \in Ids
        BY <1>2, <1>6, <1>9, <2>1, <4>1
      <4> QED
        BY <1>11, <4>1, <4>2 DEF Epub!Due, Epub!Listed
    <3>2. CASE i > r
      <4>1. x = rest[i - r] /\ i - r \in 1 .. Len(manifest.ids)
        BY <1>7, <1>9, <2>1, <3>2
      <4>2. x \in Content /\ x = Epub!Named(manifest.ids[i - r])
        BY <1>7, <1>11, <4>1
      <4>3. manifest.ids[i - r] \in Ids
        BY <1>2, <4>1
      <4> QED
        BY <1>11, <4>2, <4>3 DEF Epub!Due, Epub!Listed
    <3> QED
      BY <1>2, <1>9, <3>1, <3>2
  <2>2. ASSUME x \in Epub!Due PROVE \E i \in 1 .. Len(W) : W[i] = x
    <3>1. CASE Epub!Spined(x) # {}
      <4>1. PICK i \in 1 .. r : W[i] = x
        BY <1>10, <3>1
      <4> QED
        BY <1>2, <1>9, <4>1
    <3>2. CASE Epub!Spined(x) = {}
      <4>1. x \in Content /\ \E id \in Ids : x = Epub!Named(id)
        BY <2>2, <3>2 DEF Epub!Due, Epub!Listed
      <4>2. PICK id \in Ids : x = Epub!Named(id)
        BY <4>1
      <4>3. PICK k \in 1 .. Len(manifest.ids) : manifest.ids[k] = id
        BY <1>1, <1>5, <1>11, <4>2
      <4>4. rest[k] = x /\ k \in 1 .. Len(rest)
        BY <1>7, <4>1, <4>2, <4>3
      <4>5. r + k \in 1 .. Len(W)
        BY <1>2, <1>9, <4>4
      <4> QED
        BY <1>9, <4>4, <4>5
    <3> QED
      BY <3>1, <3>2
  <2> QED
    BY <2>1, <2>2
<1>12. ASSUME NEW x, x # 0, Epub!Spined(x) # {}
       PROVE  /\ FirstAt(W, x) = Epub!Min(Epub!Spined(x))
              /\ FirstAt(W, x) \in 1 .. r
  <2> DEFINE k == Min(Epub!Spined(x))
  <2>1. Epub!Spined(x) \in SUBSET Nat
    BY <1>2, <1>10
  <2>2. k \in Epub!Spined(x) /\ \A j \in Epub!Spined(x) : k <= j
    BY <1>12, <2>1, MinIsLeast
  <2> HIDE DEF k
  <2>3. k \in 1 .. r /\ W[k] = x
    BY <1>10, <2>2
  <2>4. k \in 1 .. Len(W)
    BY <1>2, <1>9, <2>3
  <2>5. \A i \in 1 .. k - 1 : W[i] # x
    <3>1. \A i \in 1 .. k - 1 : i \in 1 .. r /\ ~(k <= i)
      BY <1>2, <2>3
    <3> QED
      BY <1>10, <2>2, <3>1
  <2>6. FirstAt(W, x) = k
    BY <1>9, <2>3, <2>4, <2>5, FirstAtIsFirst
  <2> QED
    BY <2>3, <2>6, EpubOperators DEF k
<1>13. ASSUME NEW y, y \in Epub!Due, Epub!Spined(y) = {}
       PROVE  FirstAt(W, y) > r /\ FirstAt(W, y) \in Nat
  <2>1. y # 0
    BY <1>13 DEF Epub!Due, Epub!Listed
  <2> DEFINE I == {i \in 1 .. Len(W) : W[i] = y}
             k == Min(I)
  <2>2. I # {} /\ I \in SUBSET Nat
    BY <1>11, <1>13, <2>1
  <2>3. k \in I /\ \A j \in I : k <= j
    BY <2>2, MinIsLeast
  <2>4. k \in 1 .. Len(W) /\ W[k] = y
    BY <2>3
  <2>5. \A i \in 1 .. k - 1 : W[i] # y
    <3> HIDE DEF k
    <3>1. \A i \in 1 .. k - 1 : i \in 1 .. Len(W) /\ ~(k <= i)
      BY <1>2, <1>9, <2>4
    <3> QED
      BY <2>3, <3>1
  <2> HIDE DEF k, I
  <2>6. FirstAt(W, y) = k
    BY <1>9, <2>4, <2>5, FirstAtIsFirst
  <2>7. ~(k \in 1 .. r)
    BY <1>10, <1>13, <2>4
  <2> QED
    BY <1>2, <2>4, <2>6, <2>7
<1>14. \A x, y : (x # 0 /\ y \in Epub!Due /\ Epub!Spined(x) # {} /\ Epub!Spined(y) = {}) =>
                   FirstAt(W, x) < FirstAt(W, y)
  <2> SUFFICES ASSUME NEW x, NEW y, x # 0, y \in Epub!Due,
                      Epub!Spined(x) # {}, Epub!Spined(y) = {}
               PROVE  FirstAt(W, x) < FirstAt(W, y)
    OBVIOUS
  <2>1. FirstAt(W, x) \in 1 .. r
    BY <1>12
  <2>2. FirstAt(W, y) > r /\ FirstAt(W, y) \in Nat
    BY <1>13
  <2> QED
    BY <1>2, <2>1, <2>2
<1> QED
  <2>1. Ordered(W)
    BY <1>8, <1>9, <1>11, <1>12, <1>14 DEF Ordered, W
  <2> QED
    BY <2>1

(* What is in the order of its first places in a list is there once.          *)
LEMMA RisingIsOnce ==
  ASSUME NEW S, NEW W \in Seq(S), NEW F \in Seq(S),
         \A x : (\E i \in 1 .. Len(F) : F[i] = x) => (\E i \in 1 .. Len(W) : W[i] = x),
         \A i, j \in 1 .. Len(F) : i < j => FirstAt(W, F[i]) < FirstAt(W, F[j])
  PROVE  /\ OnceEach(F)
         /\ \A i \in 1 .. Len(F) : FirstAt(W, F[i]) \in Nat
         /\ \A i, j \in 1 .. Len(F) : i < j <=> FirstAt(W, F[i]) < FirstAt(W, F[j])
<1>1. Len(F) \in Nat /\ Len(W) \in Nat
  OBVIOUS
<1>2. ASSUME NEW i \in 1 .. Len(F) PROVE FirstAt(W, F[i]) \in Nat
  <2>1. PICK k \in 1 .. Len(W) : W[k] = F[i]
    OBVIOUS
  <2>2. FirstAt(W, W[k]) \in 1 .. k
    BY FirstAtIsFirst
  <2> QED
    BY <2>1, <2>2
<1>3. ASSUME NEW i \in 1 .. Len(F), NEW j \in 1 .. Len(F), F[i] = F[j] PROVE i = j
  BY <1>1, <1>2, <1>3
<1>4. ASSUME NEW i \in 1 .. Len(F), NEW j \in 1 .. Len(F)
      PROVE  i < j <=> FirstAt(W, F[i]) < FirstAt(W, F[j])
  <2>1. CASE i < j
    BY <2>1
  <2>2. CASE i = j
    BY <1>2, <2>2
  <2>3. CASE j < i
    <3>1. FirstAt(W, F[j]) < FirstAt(W, F[i])
      BY <2>3
    <3>2. FirstAt(W, F[i]) \in Nat /\ FirstAt(W, F[j]) \in Nat
      BY <1>2
    <3> QED
      BY <1>1, <2>3, <3>1, <3>2
  <2> QED
    BY <1>1, <2>1, <2>2, <2>3
<1> QED
  BY <1>2, <1>3, <1>4 DEF OnceEach

LEMMA SpineStaysRead == EpubInv /\ opf # "missing" => SpineOrderIsKept
<1> SUFFICES ASSUME EpubInv, opf # "missing" PROVE SpineOrderIsKept
  OBVIOUS
<1> DEFINE F == Epub!SpineOrder
           H == Epub!HtmlFiles
           E == Epub!ExtractWithZipfile
<1>1. PICK W : Ordered(W)
  BY SpineComesFirst
<1>2. /\ F \in Seq(Nat)
      /\ \A x : (\E i \in 1 .. Len(F) : F[i] = x)
                  <=> x # 0 /\ (\E i \in 1 .. Len(W) : W[i] = x)
      /\ \A i, j \in 1 .. Len(F) : i < j => FirstAt(W, F[i]) < FirstAt(W, F[j])
  <2>1. W \in Seq(Nat) /\ F = Reading(W)
    BY <1>1 DEF Ordered
  <2> HIDE DEF F
  <2>2. Unseen(F, Nat, W)
    BY <2>1, OrderKeeps
  <2> QED
    BY <2>2 DEF Unseen
<1>3. 0 \notin Epub!Due
  BY DEF Epub!Due, Epub!Listed
<1>4. \A x : (\E i \in 1 .. Len(F) : F[i] = x) <=> x \in Epub!Due
  BY <1>1, <1>2, <1>3 DEF Ordered
<1>5. E = Epub!Those(H, members)
  BY DEF Epub!ExtractWithZipfile
<1> HIDE DEF F, H, E
<1>6. Documents \in Nat /\ Content \in SUBSET (1 .. Documents)
      /\ members \in SUBSET (1 .. Documents)
  BY ContentIsNamed DEF Epub!Hrefs, EpubInv
<1>7. /\ H \in Seq(Nat) /\ OnceEach(H)
      /\ \A x : (\E i \in 1 .. Len(H) : H[i] = x)
                  <=> x \in (IF Epub!Due # {} THEN Epub!Due ELSE members \cap Content)
      /\ Epub!Due # {} => H = F
  <2>1. CASE F # <<>>
    <3>1. H = F
      BY <2>1 DEF Epub!HtmlFiles, F, H
    <3>2. Epub!Due # {}
      <4>1. Len(F) # 0 /\ Len(F) \in Nat
        BY <1>2, <2>1, EmptySeq
      <4>2. 1 \in 1 .. Len(F)
        BY <4>1
      <4> QED
        BY <1>4, <4>2
    <3>3. OnceEach(F)
      BY <1>1, <1>2, RisingIsOnce DEF Ordered
    <3> QED
      BY <1>2, <1>4, <3>1, <3>2, <3>3
  <2>2. CASE F = <<>>
    <3> DEFINE N == [href \in Epub!Hrefs |-> href]
    <3>1. H = Epub!Those(N, members \cap Content)
      BY <2>2 DEF Epub!HtmlFiles, F, H
    <3>2. Epub!Due = {}
      BY <1>4, <2>2
    <3>3. /\ N \in Seq(Nat) /\ Len(N) = Documents /\ OnceEach(N)
          /\ \A i \in 1 .. Documents : N[i] = i
      <4>1. N \in [1 .. Documents -> Nat] /\ \A i \in 1 .. Documents : N[i] = i
        BY <1>6 DEF Epub!Hrefs
      <4> HIDE DEF N
      <4>2. N \in Seq(Nat) /\ Len(N) = Documents
        BY <1>6, <4>1
      <4> QED
        BY <4>1, <4>2 DEF OnceEach
    <3> HIDE DEF N
    <3>4. /\ H \in Seq(Nat)
          /\ \A x : (\E i \in 1 .. Len(H) : H[i] = x)
                      <=> x \in members \cap Content /\ (\E i \in 1 .. Len(N) : N[i] = x)
          /\ \A i, j \in 1 .. Len(H) : i < j => FirstAt(N, H[i]) < FirstAt(N, H[j])
      <4>1. Chosen(H, Nat, N, members \cap Content)
        BY <3>1, <3>3, ThoseKeep
      <4> QED
        BY <4>1 DEF Chosen
    <3>5. OnceEach(H)
      BY <3>3, <3>4, RisingIsOnce
    <3>6. \A x \in members \cap Content : \E i \in 1 .. Len(N) : N[i] = x
      BY <1>6, <3>3
    <3> QED
      BY <3>2, <3>4, <3>5, <3>6
  <2> QED
    BY <2>1, <2>2
<1>8. /\ E \in Seq(Nat)
      /\ \A x : (\E i \in 1 .. Len(E) : E[i] = x)
                  <=> x \in members /\ (\E i \in 1 .. Len(H) : H[i] = x)
      /\ \A i, j \in 1 .. Len(E) : i < j => FirstAt(H, E[i]) < FirstAt(H, E[j])
  <2>1. Chosen(E, Nat, H, members)
    BY <1>5, <1>7, ThoseKeep
  <2> QED
    BY <2>1 DEF Chosen
<1>9. DOMAIN E = 1 .. Len(E) /\ Len(E) \in Nat
  BY <1>8
<1>10. Epub!IsInjective(E)
  <2>1. OnceEach(E)
    BY <1>7, <1>8, RisingIsOnce
  <2> QED
    BY <1>9, <2>1 DEF OnceEach, Epub!IsInjective
<1>11. Epub!ToSet(E) = members \cap (IF Epub!Due # {} THEN Epub!Due ELSE Content)
  <2>1. \A x : x \in Epub!ToSet(E) <=> \E i \in 1 .. Len(E) : E[i] = x
    BY <1>9 DEF Epub!ToSet
  <2> QED
    BY <1>7, <1>8, <2>1
<1>12. ASSUME NEW i \in DOMAIN E, NEW j \in DOMAIN E, Epub!Spined(E[i]) # {}
       PROVE  i < j <=> /\ i # j
                        /\ \/ Epub!Spined(E[j]) = {}
                           \/ Epub!Min(Epub!Spined(E[i])) < Epub!Min(Epub!Spined(E[j]))
  <2> DEFINE x == E[i]
             y == E[j]
  <2>1. i \in 1 .. Len(E) /\ j \in 1 .. Len(E)
    BY <1>9
  <2>2. x # 0 /\ y # 0
    BY <1>6, <1>8, <2>1
  <2>3. x \in Epub!Due
    <3>1. PICK k \in DOMAIN itemrefs : Epub!Named(itemrefs[k]) = x
      BY <1>12 DEF Epub!Spined
    <3>2. itemrefs[k] \in Ids
      BY <3>1 DEF EpubInv
    <3> QED
      BY <1>12, <2>2, <3>1, <3>2 DEF Epub!Due, Epub!Listed
  <2>4. H = F /\ Epub!Due # {}
    BY <1>7, <2>3
  <2>5. /\ \E k \in 1 .. Len(F) : F[k] = x
        /\ \E k \in 1 .. Len(F) : F[k] = y
    BY <1>8, <2>1, <2>4
  <2>6. PICK k \in 1 .. Len(F) : F[k] = x
    BY <2>5
  <2>7. PICK l \in 1 .. Len(F) : F[l] = y
    BY <2>5
  <2>8. y \in Epub!Due
    BY <1>4, <2>7
  <2>9. FirstAt(F, x) = k /\ FirstAt(F, y) = l
    <3>1. \A q \in 1 .. Len(F) : \A m \in 1 .. q - 1 : F[m] # F[q]
      <4>1. Len(F) \in Nat /\ OnceEach(F)
        BY <1>2, <1>7, <2>4
      <4>2. \A q \in 1 .. Len(F) : \A m \in 1 .. q - 1 : m \in 1 .. Len(F) /\ m # q
        BY <4>1
      <4> QED
        BY <4>1, <4>2 DEF OnceEach
    <3> QED
      BY <1>2, <2>6, <2>7, <3>1, FirstAtIsFirst
  <2>10. i < j <=> k < l
    <3>1. i < j <=> FirstAt(H, E[i]) < FirstAt(H, E[j])
      BY <1>7, <1>8, <2>1, RisingIsOnce
    <3> QED
      BY <2>4, <2>9, <3>1
  <2>11. k < l <=> FirstAt(W, x) < FirstAt(W, y)
    <3>1. k < l <=> FirstAt(W, F[k]) < FirstAt(W, F[l])
      BY <1>1, <1>2, RisingIsOnce DEF Ordered
    <3> QED
      BY <2>6, <2>7, <3>1
  <2>12. i = j => x = y
    OBVIOUS
  <2>13. FirstAt(W, x) \in Nat
    <3>1. FirstAt(W, F[k]) \in Nat
      BY <1>1, <1>2, RisingIsOnce DEF Ordered
    <3> QED
      BY <2>6, <3>1
  <2>14. FirstAt(W, x) = Epub!Min(Epub!Spined(x))
    BY <1>1, <1>12, <2>2 DEF Ordered
  <2>15. CASE Epub!Spined(y) = {}
    <3>1. FirstAt(W, x) < FirstAt(W, y)
      BY <1>1, <1>12, <2>2, <2>8, <2>15 DEF Ordered
    <3>2. i # j
      BY <1>12, <2>15
    <3> QED
      BY <2>10, <2>11, <2>15, <3>1, <3>2
  <2>16. CASE Epub!Spined(y) # {}
    <3>1. FirstAt(W, y) = Epub!Min(Epub!Spined(y))
      BY <1>1, <2>2, <2>16 DEF Ordered
    <3>2. i < j <=> Epub!Min(Epub!Spined(x)) < Epub!Min(Epub!Spined(y))
      BY <2>10, <2>11, <2>14, <3>1
    <3>3. i < j => i # j
      BY <2>1
    <3> QED
      BY <2>16, <3>2, <3>3
  <2> QED
    BY <2>15, <2>16
<1> QED
  BY <1>10, <1>11, <1>12 DEF SpineOrderIsKept, Epub!SpineOrderIsKept, E

LEMMA SpineStays == EpubInv => SpineOrderIsKept
<1> SUFFICES ASSUME opf = "missing" PROVE SpineOrderIsKept
  BY SpineStaysRead
<1>1. Epub!ExtractWithZipfile = <<>>
  BY DEF Epub!ExtractWithZipfile
<1>2. DOMAIN <<>> = {}
  OBVIOUS
<1> QED
  BY <1>1, <1>2 DEF SpineOrderIsKept, Epub!SpineOrderIsKept, Epub!IsInjective

LEMMA InitEpubInv == Epub!Init => EpubInv
BY DEF Epub!Init, EpubInv

LEMMA NextEpubInv == EpubInv /\ [Epub!Next]_(Epub!vars) => EpubInv'
<1> SUFFICES ASSUME EpubInv, [Epub!Next]_(Epub!vars) PROVE EpubInv'
  OBVIOUS
<1>1. ASSUME NEW id \in Ids, NEW href \in Epub!Hrefs, Epub!AddItem(id, href) PROVE EpubInv'
  <2>1. [id |-> id, href |-> href] \in Items
    BY DEF Items
  <2> QED
    BY <1>1, <2>1 DEF EpubInv, Epub!AddItem
<1>2. ASSUME NEW id \in Ids, Epub!AddItemref(id) PROVE EpubInv'
  BY <1>2 DEF EpubInv, Epub!AddItemref
<1>3. CASE UNCHANGED Epub!vars
  BY <1>3 DEF EpubInv, Epub!vars
<1> QED
  BY <1>1, <1>2, <1>3 DEF Epub!Next
-----------------------------------------------------------------------------
(* The detection of chapters.                                                 *)
LEMMA ChapterOperators ==
  /\ \A S : Chapter!Max(S) = Max(S)
  /\ \A s : Chapter!ToSet(s) = ToSet(s)
BY Zenon DEF Chapter!Max, Max, Chapter!ToSet, ToSet

(* The scans of a text, as folds over the numbers of its lines.               *)
Idx(lns) == [i \in DOMAIN lns |-> i]
NoFence == [opener |-> 0, inside |-> {}]
FenceScans == [opener : Nat, inside : SUBSET Nat]
FenceScan(lns) ==
  Chapter!FoldLeftDomain(LAMBDA scan, i : Chapter!FenceStep(lns, scan, i), NoFence, lns)
NoHeading == [prev |-> 0, at |-> <<>>, titles |-> {}, numbered |-> <<>>]
Depths(lns) == {lns[i].mark : i \in DOMAIN lns}
Names(lns) == {lns[i].title : i \in DOMAIN lns}
HeadingScans(lns) ==
  [prev : 0 .. Len(lns), at : Seq(1 .. Len(lns)), titles : SUBSET (Depths(lns) \X Names(lns)),
   numbered : Seq(Depths(lns) \X Names(lns) \X (1 .. Len(lns)))]
HeadingScan(lns, inner) ==
  Chapter!FoldLeftDomain(LAMBDA scan, i : Chapter!HeadingStep(lns, inner, scan, i),
                         NoHeading, lns)

LEMMA IdxIsIndex ==
  ASSUME NEW S, NEW lns \in Seq(S)
  PROVE  /\ Idx(lns) \in Seq(Nat) /\ Len(Idx(lns)) = Len(lns) /\ Len(lns) \in Nat
         /\ DOMAIN lns = 1 .. Len(lns) /\ DOMAIN Idx(lns) = 1 .. Len(lns)
         /\ \A i \in 1 .. Len(lns) : Idx(lns)[i] = i
<1>1. DOMAIN lns = 1 .. Len(lns) /\ Len(lns) \in Nat
  OBVIOUS
<1>2. Idx(lns) \in [1 .. Len(lns) -> Nat] /\ \A i \in 1 .. Len(lns) : Idx(lns)[i] = i
  BY <1>1 DEF Idx
<1> QED
  BY <1>1, <1>2

LEMMA HeadingStepIsTyped ==
  ASSUME NEW S, NEW lns \in Seq(S), NEW inner, NEW scan \in HeadingScans(lns),
         NEW i \in 1 .. Len(lns)
  PROVE  Chapter!HeadingStep(lns, inner, scan, i) \in HeadingScans(lns)
<1> DEFINE new == Chapter!HeadingStep(lns, inner, scan, i)
<1>1. Len(lns) \in Nat /\ DOMAIN lns = 1 .. Len(lns)
  OBVIOUS
<1>2. /\ scan.prev \in 0 .. Len(lns) /\ scan.at \in Seq(1 .. Len(lns))
      /\ scan.titles \in SUBSET (Depths(lns) \X Names(lns))
      /\ scan.numbered \in Seq(Depths(lns) \X Names(lns) \X (1 .. Len(lns)))
      /\ scan = [prev |-> scan.prev, at |-> scan.at, titles |-> scan.titles,
                 numbered |-> scan.numbered]
  BY DEF HeadingScans
<1>3. lns[i].mark \in Depths(lns) /\ lns[i].title \in Names(lns)
  BY <1>1 DEF Depths, Names
<1>4. Append(scan.at, i) \in Seq(1 .. Len(lns)) /\ 0 \in 0 .. Len(lns) /\ i \in 0 .. Len(lns)
  BY <1>1, <1>2
<1>5. CASE i \in inner
  <2>1. new = [scan EXCEPT !.prev = 0]
    BY <1>5 DEF Chapter!HeadingStep
  <2> QED
    BY <1>4, <2>1 DEF HeadingScans
<1>6. CASE i \notin inner /\ Chapter!IsSetext(lns, i, scan.prev)
  <2>1. new = [scan EXCEPT !.prev = 0, !.at = Append(@, i),
                 !.titles = @ \cup {<<lns[i].mark, lns[scan.prev].title>>}]
    <3>1. lns[i].kind # "heading"
      BY <1>6 DEF Chapter!IsSetext
    <3> QED
      BY <1>6, <3>1, Zenon DEF Chapter!HeadingStep
  <2>2. scan.prev \in DOMAIN lns
    <3>1. scan.prev # 0
      BY <1>6, Zenon DEF Chapter!IsSetext
    <3> QED
      BY <1>1, <1>2, <3>1
  <2>3. <<lns[i].mark, lns[scan.prev].title>> \in Depths(lns) \X Names(lns)
    BY <1>3, <2>2 DEF Names
  <2>4. scan.titles \cup {<<lns[i].mark, lns[scan.prev].title>>}
          \in SUBSET (Depths(lns) \X Names(lns))
    BY <1>2, <2>3
  <2> QED
    BY <1>4, <2>1, <2>4 DEF HeadingScans
<1>7. CASE i \notin inner /\ ~Chapter!IsSetext(lns, i, scan.prev) /\ lns[i].kind = "heading"
  <2> DEFINE t == IF lns[i].number # 0 THEN scan.titles
                  ELSE scan.titles \cup {<<lns[i].mark, lns[i].title>>}
             d == IF lns[i].number = 0 THEN scan.numbered
                  ELSE Append(scan.numbered, <<lns[i].mark, lns[i].title, i>>)
  <2>1. new = [prev |-> 0, at |-> Append(scan.at, i), titles |-> t, numbered |-> d]
    BY <1>7 DEF Chapter!HeadingStep
  <2>2. t \in SUBSET (Depths(lns) \X Names(lns))
    BY <1>2, <1>3
  <2>3. d \in Seq(Depths(lns) \X Names(lns) \X (1 .. Len(lns)))
    <3>1. <<lns[i].mark, lns[i].title, i>> \in Depths(lns) \X Names(lns) \X (1 .. Len(lns))
      BY <1>3
    <3> QED
      BY <1>2, <3>1
  <2> HIDE DEF t, d
  <2> QED
    BY <1>4, <2>1, <2>2, <2>3 DEF HeadingScans
<1>8. CASE i \notin inner /\ ~Chapter!IsSetext(lns, i, scan.prev) /\ lns[i].kind # "heading"
  <2>1. new = [scan EXCEPT !.prev = IF lns[i].kind = "blank" THEN 0 ELSE i]
    BY <1>8 DEF Chapter!HeadingStep
  <2> QED
    BY <1>4, <2>1 DEF HeadingScans
<1> QED
  BY <1>5, <1>6, <1>7, <1>8

(* What the scan for code blocks has found, line by line.                     *)
LEMMA FencesFold ==
  ASSUME NEW S, NEW lns \in Seq(S)
  PROVE  \E h : /\ h[0] = NoFence
                /\ \A k \in 0 .. Len(Idx(lns)) : h[k] \in FenceScans
                /\ \A k \in 0 .. Len(Idx(lns)) :
                     k < Len(Idx(lns)) => h[k + 1] = Chapter!FenceStep(lns, h[k], Idx(lns)[k + 1])
                /\ h[Len(Idx(lns))] = FenceScan(lns)
<1> DEFINE n == Len(Idx(lns))
           step == [p \in FenceScans \X (1 .. n) |-> Chapter!FenceStep(lns, p[1], Idx(lns)[p[2]])]
           Eq(g) == g = [s \in SUBSET DOMAIN Idx(lns) |->
                           IF s = {} THEN NoFence
                           ELSE Chapter!FenceStep(lns, g[s \ {Chapter!Max(s)}], Idx(lns)[Chapter!Max(s)])]
           iter == CHOOSE g : Eq(g)
<1>1. /\ n \in Nat /\ DOMAIN Idx(lns) = 1 .. n /\ NoFence \in FenceScans
      /\ \A i \in 1 .. n : Idx(lns)[i] \in 1 .. n
  <2>1. n = Len(lns) /\ DOMAIN lns = 1 .. n
    BY IdxIsIndex
  <2> QED
    BY <2>1, IdxIsIndex DEF NoFence, FenceScans
<1>2. \A m \in FenceScans, i \in 1 .. n : Chapter!FenceStep(lns, m, i) \in FenceScans
  <2> SUFFICES ASSUME NEW m \in FenceScans, NEW i \in 1 .. n
               PROVE  Chapter!FenceStep(lns, m, i) \in FenceScans
    OBVIOUS
  <2>1. m.opener .. i \subseteq Nat
    BY <1>1 DEF FenceScans
  <2>2. m.inside \cup (m.opener .. i) \subseteq Nat /\ i \in Nat
    BY <1>1, <2>1 DEF FenceScans
  <2>3. [m EXCEPT !.opener = i] \in FenceScans
    BY <2>2 DEF FenceScans
  <2>4. [opener |-> 0, inside |-> m.inside \cup (m.opener .. i)] \in FenceScans
    BY <2>2 DEF FenceScans
  <2> QED
    BY <2>3, <2>4 DEF Chapter!FenceStep
<1>3. step \in [FenceScans \X (1 .. n) -> FenceScans]
  <2>1. \A q \in FenceScans \X (1 .. n) :
        Chapter!FenceStep(lns, q[1], Idx(lns)[q[2]]) \in FenceScans
    BY <1>1, <1>2
  <2> QED
    BY <2>1
<1>4. FenceScan(lns) = iter[DOMAIN Idx(lns)]
  BY Zenon DEF FenceScan, NoFence, Idx, Chapter!FoldLeftDomain, Chapter!FoldLeft,
     Chapter!MapThenFoldSet
<1>5. PICK g : Folded(g, FenceScans, NoFence, step, n)
  BY <1>1, <1>3, FoldExists
<1>6. ASSUME NEW s \in SUBSET (1 .. n), s # {}, NEW f, f[s \ {Max(s)}] \in FenceScans
      PROVE  step[<<f[s \ {Max(s)}], Max(s)>>]
               = Chapter!FenceStep(lns, f[s \ {Chapter!Max(s)}], Idx(lns)[Chapter!Max(s)])
  <2>1. Max(s) \in 1 .. n
    BY <1>1, <1>6, MaxIsGreatest
  <2>2. Chapter!Max(s) = Max(s)
    BY ChapterOperators
  <2>3. step[<<f[s \ {Max(s)}], Max(s)>>] =
        Chapter!FenceStep(lns, f[s \ {Max(s)}], Idx(lns)[Max(s)])
    BY <1>6, <2>1
  <2> HIDE DEF step
  <2> QED
    BY <2>2, <2>3, Zenon
<1>7. Eq(g)
  <2>1. ASSUME NEW s \in SUBSET (1 .. n), s # {}
        PROVE  g[s] = Chapter!FenceStep(lns, g[s \ {Chapter!Max(s)}], Idx(lns)[Chapter!Max(s)])
    <3>1. g[s \ {Max(s)}] \in FenceScans
      BY <1>5 DEF Folded
    <3>2. g[s] = step[<<g[s \ {Max(s)}], Max(s)>>]
      BY <1>5, <2>1, Zenon DEF Folded
    <3> HIDE DEF step
    <3> QED
      BY <1>6, <2>1, <3>1, <3>2, Zenon
  <2> QED
    BY <1>1, <1>5, <2>1 DEF Folded
<1>8. iter = [s \in SUBSET DOMAIN Idx(lns) |->
                IF s = {} THEN NoFence
                ELSE Chapter!FenceStep(lns, iter[s \ {Chapter!Max(s)}], Idx(lns)[Chapter!Max(s)])]
  BY <1>7, Zenon
<1>9. iter[{}] = NoFence
  <2> HIDE DEF iter
  <2> QED
    BY <1>8
<1>10. ASSUME NEW s \in SUBSET (1 .. n), s # {}, iter[s \ {Max(s)}] \in FenceScans
       PROVE  iter[s] = step[<<iter[s \ {Max(s)}], Max(s)>>]
  <2> HIDE DEF iter, step
  <2>1. iter[s] = Chapter!FenceStep(lns, iter[s \ {Chapter!Max(s)}], Idx(lns)[Chapter!Max(s)])
    <3>1. s \in SUBSET DOMAIN Idx(lns)
      BY <1>1, Zenon
    <3>2. iter[s] = IF s = {} THEN NoFence
                    ELSE Chapter!FenceStep(lns, iter[s \ {Chapter!Max(s)}], Idx(lns)[Chapter!Max(s)])
      BY <1>8, <3>1, Zenon
    <3> QED
      BY <1>10, <3>2, Zenon
  <2> QED
    BY <1>6, <1>10, <2>1, Zenon
<1> HIDE DEF iter
<1>11. PICK h : Steps(h, FenceScans, NoFence, step, n, iter[1 .. n])
  <2>1. Iterated(iter, FenceScans, NoFence, step, n)
    BY <1>9, <1>10, Zenon DEF Iterated
  <2>2. NoFence \in FenceScans /\ n \in Nat
    BY <1>1
  <2> HIDE DEF step, n
  <2> QED
    BY <1>3, <2>1, <2>2, FoldSteps
<1>12. ASSUME NEW k \in 0 .. n, k < n PROVE h[k + 1] = Chapter!FenceStep(lns, h[k], Idx(lns)[k + 1])
  <2>1. h[k] \in FenceScans /\ k + 1 \in 1 .. n
    BY <1>1, <1>11, <1>12 DEF Steps
  <2>2. step[<<h[k], k + 1>>] = Chapter!FenceStep(lns, h[k], Idx(lns)[k + 1])
    BY <2>1
  <2> HIDE DEF step
  <2> QED
    BY <1>11, <1>12, <2>2, Zenon DEF Steps
<1>13. h[n] = FenceScan(lns)
  BY <1>1, <1>4, <1>11, Zenon DEF Steps
<1> QED
  <2> HIDE DEF step
  <2> QED
    BY <1>11, <1>12, <1>13 DEF Steps

(* What the scan for headings has found, line by line.                        *)
LEMMA HeadingsFold ==
  ASSUME NEW S, NEW lns \in Seq(S), NEW inner
  PROVE  \E h : /\ h[0] = NoHeading
                /\ \A k \in 0 .. Len(Idx(lns)) : h[k] \in HeadingScans(lns)
                /\ \A k \in 0 .. Len(Idx(lns)) :
                     k < Len(Idx(lns)) =>
                       h[k + 1] = Chapter!HeadingStep(lns, inner, h[k], Idx(lns)[k + 1])
                /\ h[Len(Idx(lns))] = HeadingScan(lns, inner)
<1> DEFINE n == Len(Idx(lns))
           step == [p \in HeadingScans(lns) \X (1 .. n) |->
                 Chapter!HeadingStep(lns, inner, p[1], Idx(lns)[p[2]])]
           Eq(g) == g = [s \in SUBSET DOMAIN Idx(lns) |->
                           IF s = {} THEN NoHeading
                           ELSE Chapter!HeadingStep(lns, inner, g[s \ {Chapter!Max(s)}], Idx(lns)[Chapter!Max(s)])]
           iter == CHOOSE g : Eq(g)
<1>1. /\ n \in Nat /\ DOMAIN Idx(lns) = 1 .. n /\ NoHeading \in HeadingScans(lns)
      /\ \A i \in 1 .. n : Idx(lns)[i] \in 1 .. n
  <2>1. n = Len(lns) /\ DOMAIN lns = 1 .. n
    BY IdxIsIndex
  <2> QED
    BY <2>1, IdxIsIndex DEF NoHeading, HeadingScans
<1>2. \A m \in HeadingScans(lns), i \in 1 .. n :
        Chapter!HeadingStep(lns, inner, m, i) \in HeadingScans(lns)
  BY IdxIsIndex, HeadingStepIsTyped
<1>3. step \in [HeadingScans(lns) \X (1 .. n) -> HeadingScans(lns)]
  <2>1. \A q \in HeadingScans(lns) \X (1 .. n) :
        Chapter!HeadingStep(lns, inner, q[1], Idx(lns)[q[2]]) \in HeadingScans(lns)
    BY <1>1, <1>2
  <2> QED
    BY <2>1
<1>4. HeadingScan(lns, inner) = iter[DOMAIN Idx(lns)]
  BY Zenon DEF HeadingScan, NoHeading, Idx, Chapter!FoldLeftDomain, Chapter!FoldLeft,
     Chapter!MapThenFoldSet
<1>5. PICK g : Folded(g, HeadingScans(lns), NoHeading, step, n)
  BY <1>1, <1>3, FoldExists
<1>6. ASSUME NEW s \in SUBSET (1 .. n), s # {}, NEW f, f[s \ {Max(s)}] \in HeadingScans(lns)
      PROVE  step[<<f[s \ {Max(s)}], Max(s)>>]
               = Chapter!HeadingStep(lns, inner, f[s \ {Chapter!Max(s)}], Idx(lns)[Chapter!Max(s)])
  <2>1. Max(s) \in 1 .. n
    BY <1>1, <1>6, MaxIsGreatest
  <2>2. Chapter!Max(s) = Max(s)
    BY ChapterOperators
  <2>3. step[<<f[s \ {Max(s)}], Max(s)>>] =
        Chapter!HeadingStep(lns, inner, f[s \ {Max(s)}], Idx(lns)[Max(s)])
    BY <1>6, <2>1
  <2> HIDE DEF step
  <2> QED
    BY <2>2, <2>3, Zenon
<1>7. Eq(g)
  <2>1. ASSUME NEW s \in SUBSET (1 .. n), s # {}
        PROVE  g[s] = Chapter!HeadingStep(lns, inner, g[s \ {Chapter!Max(s)}], Idx(lns)[Chapter!Max(s)])
    <3>1. g[s \ {Max(s)}] \in HeadingScans(lns)
      BY <1>5 DEF Folded
    <3>2. g[s] = step[<<g[s \ {Max(s)}], Max(s)>>]
      BY <1>5, <2>1, Zenon DEF Folded
    <3> HIDE DEF step
    <3> QED
      BY <1>6, <2>1, <3>1, <3>2, Zenon
  <2> QED
    BY <1>1, <1>5, <2>1 DEF Folded
<1>8. iter = [s \in SUBSET DOMAIN Idx(lns) |->
                IF s = {} THEN NoHeading
                ELSE Chapter!HeadingStep(lns, inner, iter[s \ {Chapter!Max(s)}], Idx(lns)[Chapter!Max(s)])]
  BY <1>7, Zenon
<1>9. iter[{}] = NoHeading
  <2> HIDE DEF iter
  <2> QED
    BY <1>8
<1>10. ASSUME NEW s \in SUBSET (1 .. n), s # {}, iter[s \ {Max(s)}] \in HeadingScans(lns)
       PROVE  iter[s] = step[<<iter[s \ {Max(s)}], Max(s)>>]
  <2> HIDE DEF iter, step
  <2>1. iter[s] = Chapter!HeadingStep(lns, inner, iter[s \ {Chapter!Max(s)}], Idx(lns)[Chapter!Max(s)])
    <3>1. s \in SUBSET DOMAIN Idx(lns)
      BY <1>1, Zenon
    <3>2. iter[s] = IF s = {} THEN NoHeading
                    ELSE Chapter!HeadingStep(lns, inner, iter[s \ {Chapter!Max(s)}], Idx(lns)[Chapter!Max(s)])
      BY <1>8, <3>1, Zenon
    <3> QED
      BY <1>10, <3>2, Zenon
  <2> QED
    BY <1>6, <1>10, <2>1, Zenon
<1> HIDE DEF iter
<1>11. PICK h : Steps(h, HeadingScans(lns), NoHeading, step, n, iter[1 .. n])
  <2>1. Iterated(iter, HeadingScans(lns), NoHeading, step, n)
    BY <1>9, <1>10, Zenon DEF Iterated
  <2>2. NoHeading \in HeadingScans(lns) /\ n \in Nat
    BY <1>1
  <2> HIDE DEF step, n
  <2> QED
    BY <1>3, <2>1, <2>2, FoldSteps
<1>12. ASSUME NEW k \in 0 .. n, k < n
       PROVE  h[k + 1] = Chapter!HeadingStep(lns, inner, h[k], Idx(lns)[k + 1])
  <2>1. h[k] \in HeadingScans(lns) /\ k + 1 \in 1 .. n
    BY <1>1, <1>11, <1>12 DEF Steps
  <2>2. step[<<h[k], k + 1>>] = Chapter!HeadingStep(lns, inner, h[k], Idx(lns)[k + 1])
    BY <2>1
  <2> HIDE DEF step
  <2> QED
    BY <1>11, <1>12, <2>2, Zenon DEF Steps
<1>13. h[n] = HeadingScan(lns, inner)
  BY <1>1, <1>4, <1>11, Zenon DEF Steps
<1> QED
  <2> HIDE DEF step
  <2> QED
    BY <1>11, <1>12, <1>13 DEF Steps

(* The two scans, by the number of the line.                                  *)
FenceSteps(h, lns) ==
  /\ h[0] = NoFence
  /\ \A k \in 0 .. Len(lns) : h[k] \in FenceScans
  /\ \A k \in 0 .. Len(lns) :
       k < Len(lns) => h[k + 1] = Chapter!FenceStep(lns, h[k], k + 1)
  /\ h[Len(lns)] = FenceScan(lns)

LEMMA FencesStep ==
  ASSUME NEW S, NEW lns \in Seq(S)
  PROVE  \E h : FenceSteps(h, lns)
<1>1. PICK h : /\ h[0] = NoFence
               /\ \A k \in 0 .. Len(Idx(lns)) : h[k] \in FenceScans
               /\ \A k \in 0 .. Len(Idx(lns)) :
                    k < Len(Idx(lns)) => h[k + 1] = Chapter!FenceStep(lns, h[k], Idx(lns)[k + 1])
               /\ h[Len(Idx(lns))] = FenceScan(lns)
  BY FencesFold
<1>2. Len(Idx(lns)) = Len(lns) /\ Len(lns) \in Nat /\ \A i \in 1 .. Len(lns) : Idx(lns)[i] = i
  BY IdxIsIndex
<1>3. ASSUME NEW k \in 0 .. Len(lns), k < Len(lns)
      PROVE  h[k + 1] = Chapter!FenceStep(lns, h[k], k + 1)
  <2>1. k + 1 \in 1 .. Len(lns)
    BY <1>2, <1>3
  <2>2. Idx(lns)[k + 1] = k + 1
    BY <1>2, <2>1
  <2>3. h[k + 1] = Chapter!FenceStep(lns, h[k], Idx(lns)[k + 1])
    BY <1>1, <1>2, <1>3
  <2> QED
    BY <2>2, <2>3
<1>4. FenceSteps(h, lns)
  BY <1>1, <1>2, <1>3 DEF FenceSteps
<1> QED
  BY <1>4

HeadingSteps(h, lns, inner) ==
  /\ h[0] = NoHeading
  /\ \A k \in 0 .. Len(lns) : h[k] \in HeadingScans(lns)
  /\ \A k \in 0 .. Len(lns) :
       k < Len(lns) => h[k + 1] = Chapter!HeadingStep(lns, inner, h[k], k + 1)
  /\ h[Len(lns)] = HeadingScan(lns, inner)

LEMMA HeadingsStep ==
  ASSUME NEW S, NEW lns \in Seq(S), NEW inner
  PROVE  \E h : HeadingSteps(h, lns, inner)
<1>1. PICK h : /\ h[0] = NoHeading
               /\ \A k \in 0 .. Len(Idx(lns)) : h[k] \in HeadingScans(lns)
               /\ \A k \in 0 .. Len(Idx(lns)) :
                    k < Len(Idx(lns)) =>
                      h[k + 1] = Chapter!HeadingStep(lns, inner, h[k], Idx(lns)[k + 1])
               /\ h[Len(Idx(lns))] = HeadingScan(lns, inner)
  BY HeadingsFold
<1>2. Len(Idx(lns)) = Len(lns) /\ Len(lns) \in Nat /\ \A i \in 1 .. Len(lns) : Idx(lns)[i] = i
  BY IdxIsIndex
<1>3. ASSUME NEW k \in 0 .. Len(lns), k < Len(lns)
      PROVE  h[k + 1] = Chapter!HeadingStep(lns, inner, h[k], k + 1)
  <2>1. k + 1 \in 1 .. Len(lns)
    BY <1>2, <1>3
  <2>2. Idx(lns)[k + 1] = k + 1
    BY <1>2, <2>1
  <2>3. h[k + 1] = Chapter!HeadingStep(lns, inner, h[k], Idx(lns)[k + 1])
    BY <1>1, <1>2, <1>3
  <2> QED
    BY <2>2, <2>3
<1>4. HeadingSteps(h, lns, inner)
  BY <1>1, <1>2, <1>3 DEF HeadingSteps
<1> QED
  BY <1>4

(* A block ends at the first fence of the character that opened it.           *)
IsFence(lns, i) == lns[i].kind = "fence"
Alike(lns, i, j) == IsFence(lns, i) /\ lns[i].mark = lns[j].mark
Between(lns, i, k) ==
  \E j \in 1 .. i, q \in i .. k :
    /\ IsFence(lns, j) /\ Alike(lns, q, j)
    /\ \A l \in j + 1 .. q - 1 : ~Alike(lns, l, j)

LEMMA FencesEnclose ==
  ASSUME NEW S, NEW lns \in Seq(S)
  PROVE  \A i \in FenceScan(lns).inside : i \in 1 .. Len(lns) /\ Between(lns, i, Len(lns))
<1> DEFINE n == Len(lns)
<1>1. PICK h : FenceSteps(h, lns)
  BY FencesStep
<1>2. n \in Nat
  OBVIOUS
<1> DEFINE Opened(scan, k) ==
             scan.opener # 0 =>
               /\ scan.opener \in 1 .. k /\ IsFence(lns, scan.opener)
               /\ \A l \in scan.opener + 1 .. k : ~Alike(lns, l, scan.opener)
           Closed(scan, k) == \A i \in scan.inside : i \in 1 .. k /\ Between(lns, i, k)
           T == {k \in Nat : k <= n => Opened(h[k], k) /\ Closed(h[k], k)}
<1>3. 0 \in T
  BY <1>1 DEF FenceSteps, NoFence
<1>4. ASSUME NEW k \in Nat, k \in T, k + 1 <= n
      PROVE  Opened(h[k + 1], k + 1) /\ Closed(h[k + 1], k + 1)
  <2> DEFINE scan == h[k]
             new == h[k + 1]
  <2>1. k \in 0 .. n /\ k < n
    BY <1>2, <1>4
  <2>2. scan \in FenceScans /\ new = Chapter!FenceStep(lns, scan, k + 1)
    BY <1>1, <2>1 DEF FenceSteps
  <2>3. Opened(scan, k) /\ Closed(scan, k)
    <3> HIDE DEF Opened, Closed
    <3> QED
      BY <1>4, <2>1
  <2> HIDE DEF scan, new
  <2>4. Closed(scan, k + 1)
    <3>1. \A i \in 1 .. k : i \in 1 .. k + 1 /\ i .. k \subseteq i .. k + 1
      BY <1>4
    <3> QED
      BY <2>3, <3>1 DEF Between
  <2>9. ASSUME scan.opener # 0 => ~Alike(lns, k + 1, scan.opener)
        PROVE  Opened(scan, k + 1)
    <3> SUFFICES ASSUME scan.opener # 0 PROVE Opened(scan, k + 1)
      OBVIOUS
    <3>1. scan.opener \in 1 .. k /\ IsFence(lns, scan.opener)
      BY <2>3
    <3>2. scan.opener \in 1 .. k + 1
      BY <1>4, <3>1
    <3>3. \A l \in scan.opener + 1 .. k + 1 : l = k + 1 \/ l \in scan.opener + 1 .. k
      BY <1>4, <3>1
    <3> QED
      BY <2>3, <2>9, <3>1, <3>2, <3>3
  <2>5. CASE ~IsFence(lns, k + 1)
    <3>1. new = scan
      BY <2>2, <2>5 DEF Chapter!FenceStep, IsFence
    <3>2. ~Alike(lns, k + 1, scan.opener)
      BY <2>5 DEF Alike
    <3> QED
      BY <2>4, <2>9, <3>1, <3>2 DEF new
  <2>6. CASE IsFence(lns, k + 1) /\ scan.opener = 0
    <3>1. new = [scan EXCEPT !.opener = k + 1]
      BY <2>2, <2>6 DEF Chapter!FenceStep, IsFence
    <3>2. new.opener = k + 1 /\ new.inside = scan.inside
      BY <2>2, <3>1 DEF FenceScans
    <3>3. Opened(new, k + 1)
      <4>1. k + 1 \in 1 .. k + 1 /\ k + 1 + 1 .. k + 1 = {}
        BY <1>4
      <4> QED
        BY <2>6, <3>2, <4>1
    <3>4. Closed(new, k + 1)
      BY <2>4, <3>2
    <3> QED
      BY <3>3, <3>4 DEF new
  <2>7. CASE IsFence(lns, k + 1) /\ scan.opener # 0 /\ lns[k + 1].mark # lns[scan.opener].mark
    <3>1. new = scan
      BY <2>2, <2>7 DEF Chapter!FenceStep, IsFence
    <3>2. ~Alike(lns, k + 1, scan.opener)
      BY <2>7 DEF Alike
    <3> QED
      BY <2>4, <2>9, <3>1, <3>2 DEF new
  <2>8. CASE IsFence(lns, k + 1) /\ scan.opener # 0 /\ lns[k + 1].mark = lns[scan.opener].mark
    <3>1. new = [opener |-> 0, inside |-> scan.inside \cup (scan.opener .. k + 1)]
      BY <2>2, <2>8 DEF Chapter!FenceStep, IsFence
    <3>2. new.opener = 0 /\ new.inside = scan.inside \cup (scan.opener .. k + 1)
      BY <3>1
    <3>3. /\ scan.opener \in 1 .. k /\ IsFence(lns, scan.opener)
          /\ \A l \in scan.opener + 1 .. (k + 1) - 1 : ~Alike(lns, l, scan.opener)
      <4>1. (k + 1) - 1 = k
        BY <1>4
      <4> QED
        BY <2>3, <2>8, <4>1
    <3>4. ASSUME NEW i \in scan.opener .. k + 1
          PROVE  i \in 1 .. k + 1 /\ Between(lns, i, k + 1)
      <4>1. i \in 1 .. k + 1 /\ scan.opener \in 1 .. i /\ k + 1 \in i .. k + 1
        BY <1>4, <3>3
      <4>2. Alike(lns, k + 1, scan.opener)
        BY <2>8 DEF Alike
      <4> QED
        BY <3>3, <4>1, <4>2 DEF Between
    <3>5. Closed(new, k + 1)
      BY <2>4, <3>2, <3>4
    <3> QED
      BY <3>2, <3>5 DEF new
  <2> QED
    BY <2>5, <2>6, <2>7, <2>8
<1>5. \A k \in Nat : k \in T
  <2>1. \A k \in Nat : k \in T => k + 1 \in T
    <3> HIDE DEF Opened, Closed
    <3> QED
      BY <1>2, <1>4
  <2> HIDE DEF T
  <2> QED
    BY <1>3, <2>1, Induction
<1> QED
  BY <1>1, <1>2, <1>5 DEF FenceSteps

(* Two texts with the same fences have the same blocks.                       *)
LEMMA SameFences ==
  ASSUME NEW S, NEW a \in Seq(S), NEW b \in Seq(S), Len(a) = Len(b),
         \A i \in 1 .. Len(a) :
           /\ IsFence(a, i) <=> IsFence(b, i)
           /\ IsFence(a, i) => a[i].mark = b[i].mark
  PROVE  FenceScan(a) = FenceScan(b)
<1> DEFINE n == Len(a)
<1>1. PICK g : FenceSteps(g, a)
  BY FencesStep
<1>2. PICK h : FenceSteps(h, b)
  BY FencesStep
<1>3. n \in Nat
  OBVIOUS
<1> DEFINE Opened(scan, k) == scan.opener # 0 => scan.opener \in 1 .. k /\ IsFence(a, scan.opener)
           T == {k \in Nat : k <= n => Opened(g[k], k) /\ g[k] = h[k]}
<1>4. 0 \in T
  BY <1>1, <1>2 DEF FenceSteps, NoFence
<1>5. ASSUME NEW k \in Nat, k \in T, k + 1 <= n
      PROVE  Opened(g[k + 1], k + 1) /\ g[k + 1] = h[k + 1]
  <2> DEFINE scan == g[k]
  <2>1. k \in 0 .. n /\ k < n /\ k + 1 \in 1 .. n
    BY <1>3, <1>5
  <2>2. /\ scan \in FenceScans /\ g[k + 1] = Chapter!FenceStep(a, scan, k + 1)
        /\ h[k + 1] = Chapter!FenceStep(b, h[k], k + 1)
    BY <1>1, <1>2, <2>1 DEF FenceSteps
  <2>3. Opened(scan, k) /\ scan = h[k]
    <3> HIDE DEF Opened
    <3> QED
      BY <1>5, <2>1
  <2> HIDE DEF scan
  <2>4. Opened(scan, k + 1)
    BY <1>5, <2>3
  <2>5. CASE ~IsFence(a, k + 1)
    <3>1. Chapter!FenceStep(a, scan, k + 1) = scan /\ Chapter!FenceStep(b, scan, k + 1) = scan
      BY <2>1, <2>5 DEF Chapter!FenceStep, IsFence
    <3> QED
      BY <2>2, <2>3, <2>4, <3>1
  <2>6. CASE IsFence(a, k + 1) /\ scan.opener = 0
    <3> DEFINE new == [scan EXCEPT !.opener = k + 1]
    <3>1. Chapter!FenceStep(a, scan, k + 1) = new /\ Chapter!FenceStep(b, scan, k + 1) = new
      BY <2>1, <2>6 DEF Chapter!FenceStep, IsFence
    <3>2. Opened(new, k + 1)
      BY <1>5, <2>2, <2>6 DEF FenceScans
    <3> HIDE DEF new
    <3> QED
      BY <2>2, <2>3, <3>1, <3>2
  <2>7. CASE IsFence(a, k + 1) /\ scan.opener # 0
    <3> DEFINE new == IF a[k + 1].mark = a[scan.opener].mark
                      THEN [opener |-> 0, inside |-> scan.inside \cup (scan.opener .. k + 1)]
                      ELSE scan
    <3>1. scan.opener \in 1 .. n /\ IsFence(a, scan.opener)
      BY <1>3, <1>5, <2>3, <2>7
    <3>2. a[k + 1].mark = b[k + 1].mark /\ a[scan.opener].mark = b[scan.opener].mark
      BY <2>1, <2>7, <3>1
    <3>3. Chapter!FenceStep(a, scan, k + 1) = new /\ Chapter!FenceStep(b, scan, k + 1) = new
      BY <2>1, <2>7, <3>2 DEF Chapter!FenceStep, IsFence
    <3>4. Opened(new, k + 1)
      BY <2>4
    <3> HIDE DEF new
    <3> QED
      BY <2>2, <2>3, <3>3, <3>4
  <2> QED
    BY <2>5, <2>6, <2>7
<1>6. \A k \in Nat : k \in T
  <2>1. \A k \in Nat : k \in T => k + 1 \in T
    <3> HIDE DEF Opened
    <3> QED
      BY <1>3, <1>5
  <2> HIDE DEF T
  <2> QED
    BY <1>4, <2>1, Induction
<1> QED
  BY <1>1, <1>2, <1>3, <1>6 DEF FenceSteps

(* Two texts that differ inside blocks have the same headings.                *)
LEMMA SameHeadings ==
  ASSUME NEW S, NEW a \in Seq(S), NEW b \in Seq(S), Len(a) = Len(b), NEW inner,
         \A i \in 1 .. Len(a) : i \notin inner => a[i] = b[i]
  PROVE  HeadingScan(a, inner) = HeadingScan(b, inner)
<1> DEFINE n == Len(a)
<1>1. PICK g : HeadingSteps(g, a, inner)
  BY HeadingsStep
<1>2. PICK h : HeadingSteps(h, b, inner)
  BY HeadingsStep
<1>3. n \in Nat
  OBVIOUS
<1> DEFINE Free(scan, k) == scan.prev # 0 => scan.prev \in 1 .. k /\ scan.prev \notin inner
           T == {k \in Nat : k <= n => Free(g[k], k) /\ g[k] = h[k]}
<1>4. 0 \in T
  BY <1>1, <1>2 DEF HeadingSteps, NoHeading
<1>5. ASSUME NEW k \in Nat, k \in T, k + 1 <= n
      PROVE  Free(g[k + 1], k + 1) /\ g[k + 1] = h[k + 1]
  <2> DEFINE scan == g[k]
             A == Chapter!HeadingStep(a, inner, scan, k + 1)
             B == Chapter!HeadingStep(b, inner, scan, k + 1)
  <2>1. k \in 0 .. n /\ k < n /\ k + 1 \in 1 .. n
    BY <1>3, <1>5
  <2>2. scan = h[k] /\ Free(scan, k)
    <3> HIDE DEF Free
    <3> QED
      BY <1>5, <2>1
  <2>3. scan \in HeadingScans(a) /\ g[k + 1] = A /\ h[k + 1] = B
    BY <1>1, <1>2, <2>1, <2>2 DEF HeadingSteps
  <2> HIDE DEF scan
  <2>4. scan.prev # 0 => scan.prev \in 1 .. n /\ scan.prev \notin inner /\ a[scan.prev] = b[scan.prev]
    BY <1>3, <1>5, <2>2
  <2>5. CASE k + 1 \in inner
    <3>1. A = [scan EXCEPT !.prev = 0] /\ B = [scan EXCEPT !.prev = 0]
      BY <2>5 DEF Chapter!HeadingStep
    <3>2. A = B /\ A.prev = 0
      BY <2>3, <3>1 DEF HeadingScans
    <3> QED
      BY <2>3, <3>2
  <2>6. CASE k + 1 \notin inner
    <3>1. a[k + 1] = b[k + 1]
      BY <2>1, <2>6
    <3>2. Chapter!IsSetext(a, k + 1, scan.prev) <=> Chapter!IsSetext(b, k + 1, scan.prev)
      BY <2>4, <3>1 DEF Chapter!IsSetext
    <3>3. A = B
      <4>1. CASE Chapter!IsSetext(a, k + 1, scan.prev)
        <5>1. a[scan.prev] = b[scan.prev]
          BY <2>4, <4>1 DEF Chapter!IsSetext
        <5> QED
          BY <3>1, <3>2, <5>1 DEF Chapter!HeadingStep
      <4>2. CASE ~Chapter!IsSetext(a, k + 1, scan.prev)
        BY <3>1, <3>2, <4>2 DEF Chapter!HeadingStep
      <4> QED
        BY <4>1, <4>2
    <3>4. A.prev \in {0, k + 1}
      <4>1. CASE Chapter!IsSetext(a, k + 1, scan.prev)
        <5>1. a[k + 1].kind # "heading"
          BY <4>1 DEF Chapter!IsSetext
        <5>2. A = [scan EXCEPT !.prev = 0, !.at = Append(@, k + 1),
                     !.titles = @ \cup {<<a[k + 1].mark, a[scan.prev].title>>}]
          BY <2>6, <4>1, <5>1, Zenon DEF Chapter!HeadingStep
        <5> QED
          BY <2>3, <5>2 DEF HeadingScans
      <4>2. CASE ~Chapter!IsSetext(a, k + 1, scan.prev)
        BY <2>3, <2>6, <4>2 DEF Chapter!HeadingStep, HeadingScans
      <4> QED
        BY <4>1, <4>2
    <3>5. Free(A, k + 1)
      <4> HIDE DEF A
      <4> QED
        BY <1>5, <2>6, <3>4
    <3> QED
      BY <2>3, <3>3, <3>5
  <2> QED
    BY <2>5, <2>6
<1>6. \A k \in Nat : k \in T
  <2>1. \A k \in Nat : k \in T => k + 1 \in T
    <3> HIDE DEF Free
    <3> QED
      BY <1>3, <1>5
  <2> HIDE DEF T
  <2> QED
    BY <1>4, <2>1, Induction
<1> QED
  BY <1>1, <1>2, <1>3, <1>6 DEF HeadingSteps

(* A heading that no block hides is found.                                    *)
LEMMA HeadingsAreFound ==
  ASSUME NEW S, NEW lns \in Seq(S), NEW inner
  PROVE  \A i \in 1 .. Len(lns) :
           (i \notin inner /\ lns[i].kind = "heading") =>
             \E e \in 1 .. Len(HeadingScan(lns, inner).at) : HeadingScan(lns, inner).at[e] = i
<1> DEFINE n == Len(lns)
           Found(scan, k) ==
             \A i \in 1 .. k : (i \notin inner /\ lns[i].kind = "heading") =>
               \E e \in 1 .. Len(scan.at) : scan.at[e] = i
<1>1. PICK h : HeadingSteps(h, lns, inner)
  BY HeadingsStep
<1>2. n \in Nat
  OBVIOUS
<1> DEFINE T == {k \in Nat : k <= n => Found(h[k], k)}
<1>3. 0 \in T
  OBVIOUS
<1>4. ASSUME NEW k \in Nat, k \in T, k + 1 <= n PROVE Found(h[k + 1], k + 1)
  <2> DEFINE scan == h[k]
             new == h[k + 1]
  <2>1. k \in 0 .. n /\ k < n /\ k + 1 \in 1 .. n
    BY <1>2, <1>4
  <2>2. Found(scan, k)
    <3> HIDE DEF Found
    <3> QED
      BY <1>4, <2>1
  <2>3. scan \in HeadingScans(lns) /\ new = Chapter!HeadingStep(lns, inner, scan, k + 1)
    BY <1>1, <2>1 DEF HeadingSteps
  <2> HIDE DEF scan, new
  <2>4. scan.at \in Seq(1 .. n)
    BY <2>3 DEF HeadingScans
  <2>5. \A i \in 1 .. k + 1 : i \in 1 .. k \/ i = k + 1
    BY <1>4
  <2>6. CASE new.at = scan.at /\ ~(k + 1 \notin inner /\ lns[k + 1].kind = "heading")
    BY <2>2, <2>5, <2>6 DEF new
  <2>7. CASE new.at = Append(scan.at, k + 1)
    <3>1. /\ Len(new.at) = Len(scan.at) + 1 /\ Len(scan.at) \in Nat
          /\ new.at[Len(scan.at) + 1] = k + 1
          /\ \A e \in 1 .. Len(scan.at) : new.at[e] = scan.at[e]
      BY <2>1, <2>4, <2>7
    <3>2. Len(scan.at) + 1 \in 1 .. Len(new.at) /\ 1 .. Len(scan.at) \subseteq 1 .. Len(new.at)
      BY <3>1
    <3>3. Found(new, k + 1)
      BY <2>2, <2>5, <3>1, <3>2
    <3> QED
      BY <3>3 DEF new
  <2>8. (new.at = scan.at /\ ~(k + 1 \notin inner /\ lns[k + 1].kind = "heading"))
          \/ new.at = Append(scan.at, k + 1)
    <3>1. CASE k + 1 \in inner
      BY <2>3, <3>1 DEF Chapter!HeadingStep, HeadingScans
    <3>2. CASE k + 1 \notin inner /\ Chapter!IsSetext(lns, k + 1, scan.prev)
      <4>1. lns[k + 1].kind # "heading"
        BY <3>2 DEF Chapter!IsSetext
      <4>2. new = [scan EXCEPT !.prev = 0, !.at = Append(@, k + 1),
                     !.titles = @ \cup {<<lns[k + 1].mark, lns[scan.prev].title>>}]
        BY <2>3, <3>2, <4>1, Zenon DEF Chapter!HeadingStep
      <4> QED
        BY <2>3, <4>2 DEF HeadingScans
    <3>3. CASE k + 1 \notin inner /\ ~Chapter!IsSetext(lns, k + 1, scan.prev)
      BY <2>3, <3>3 DEF Chapter!HeadingStep, HeadingScans
    <3> QED
      BY <3>1, <3>2, <3>3
  <2> QED
    BY <2>6, <2>7, <2>8
<1>5. \A k \in Nat : k \in T
  <2>1. \A k \in Nat : k \in T => k + 1 \in T
    <3> HIDE DEF Found
    <3> QED
      BY <1>2, <1>4
  <2> HIDE DEF T
  <2> QED
    BY <1>3, <2>1, Induction
<1>6. Found(h[n], n)
  BY <1>2, <1>5
<1> QED
  BY <1>1, <1>6 DEF HeadingSteps

(* What is inside a block that closes is masked; everything but the chapter   *)
(* numbers and the contents it names is found without it.                     *)
Line ==
  [kind : LineKinds, mark : Nat, title : STRING, number : Nat, chapter : Nat, size : Nat]
ChapterInv == lines \in Seq(Lines) /\ counts = Chapter!Counts(lines)

LEMMA ScansAreDetections ==
  /\ \A lns : Chapter!FencedLines(lns) = FenceScan(lns).inside
  /\ \A lns : Chapter!Headings(lns) = HeadingScan(lns, Chapter!FencedLines(lns))
<1>1. \A lns : Chapter!FencedLines(lns) = FenceScan(lns).inside
  BY Zenon DEF Chapter!FencedLines, Chapter!ClosedFenceLines, FenceScan, NoFence
<1>2. \A lns : Chapter!Headings(lns) = HeadingScan(lns, Chapter!FencedLines(lns))
  BY Zenon DEF Chapter!Headings, HeadingScan, NoHeading
<1> QED
  BY <1>1, <1>2

LEMMA MaskChangesBlocks ==
  ASSUME NEW lns \in Seq(Line)
  PROVE  LET mask == Chapter!Mask(lns)
             inner == Chapter!FencedLines(lns)
         IN  /\ mask \in Seq(Line) /\ Len(mask) = Len(lns)
             /\ \A i \in 1 .. Len(lns) :
                  IF i \in inner /\ lns[i].kind # "fence"
                  THEN mask[i].kind = "text" /\ mask[i].size = lns[i].size
                  ELSE mask[i] = lns[i]
<1> DEFINE mask == Chapter!Mask(lns)
           inner == Chapter!FencedLines(lns)
<1>1. DOMAIN lns = 1 .. Len(lns) /\ Len(lns) \in Nat /\ \A i \in 1 .. Len(lns) : lns[i] \in Line
  OBVIOUS
<1>2. mask = [i \in 1 .. Len(lns) |->
                IF i \in inner /\ lns[i].kind # "fence"
                THEN [lns[i] EXCEPT !.kind = "text", !.mark = 0] ELSE lns[i]]
  BY <1>1, Zenon DEF Chapter!Mask
<1> HIDE DEF mask, inner
<1>3. ASSUME NEW line \in Line
      PROVE  LET new == [line EXCEPT !.kind = "text", !.mark = 0]
             IN  new \in Line /\ new.kind = "text" /\ new.size = line.size
  <2> DEFINE half == [line EXCEPT !.kind = "text"]
             new == [half EXCEPT !.mark = 0]
  <2>1. half \in Line /\ half.kind = "text" /\ half.size = line.size
    BY <1>3 DEF Line, LineKinds
  <2> HIDE DEF half
  <2>2. new \in Line /\ new.kind = half.kind /\ new.size = half.size
    BY <2>1 DEF Line
  <2>3. new = [line EXCEPT !.kind = "text", !.mark = 0]
    BY Zenon DEF half
  <2> HIDE DEF new
  <2> QED
    BY <2>1, <2>2, <2>3
<1>4. ASSUME NEW i \in 1 .. Len(lns)
      PROVE  /\ mask[i] \in Line
             /\ IF i \in inner /\ lns[i].kind # "fence"
                THEN mask[i].kind = "text" /\ mask[i].size = lns[i].size
                ELSE mask[i] = lns[i]
  <2>1. CASE i \in inner /\ lns[i].kind # "fence"
    <3>1. mask[i] = [lns[i] EXCEPT !.kind = "text", !.mark = 0]
      BY <1>2, <2>1
    <3> QED
      BY <1>1, <1>3, <2>1, <3>1
  <2>2. CASE ~(i \in inner /\ lns[i].kind # "fence")
    <3>1. mask[i] = lns[i]
      BY <1>2, <2>2
    <3> QED
      BY <1>1, <2>2, <3>1
  <2> QED
    BY <2>1, <2>2
<1>5. mask \in [1 .. Len(lns) -> Line]
  <2>1. mask = [i \in 1 .. Len(lns) |-> mask[i]]
    BY <1>2
  <2> QED
    BY <1>4, <2>1
<1>6. mask \in Seq(Line) /\ Len(mask) = Len(lns)
  BY <1>1, <1>5
<1> QED
  BY <1>4, <1>6 DEF mask, inner

LEMMA MaskIsNeutral ==
  ASSUME NEW lns \in Seq(Line)
  PROVE  LET mask == Chapter!Mask(lns)
         IN  /\ Chapter!FencedLines(mask) = Chapter!FencedLines(lns)
             /\ Chapter!Headings(mask) = Chapter!Headings(lns)
             /\ Chapter!Sizes(mask) = Chapter!Sizes(lns)
<1> DEFINE mask == Chapter!Mask(lns)
           inner == Chapter!FencedLines(lns)
<1>1. /\ mask \in Seq(Line) /\ Len(mask) = Len(lns)
      /\ \A i \in 1 .. Len(lns) :
           IF i \in inner /\ lns[i].kind # "fence"
           THEN mask[i].kind = "text" /\ mask[i].size = lns[i].size
           ELSE mask[i] = lns[i]
  BY MaskChangesBlocks
<1> HIDE DEF mask
<1>2. Chapter!FencedLines(mask) = inner
  <2>1. \A i \in 1 .. Len(lns) :
          /\ IsFence(lns, i) <=> IsFence(mask, i)
          /\ IsFence(lns, i) => lns[i].mark = mask[i].mark
    BY <1>1 DEF IsFence
  <2>2. FenceScan(lns) = FenceScan(mask)
    BY <1>1, <2>1, SameFences
  <2> QED
    BY <2>2, ScansAreDetections
<1>3. HeadingScan(lns, inner) = HeadingScan(mask, inner)
  <2> HIDE DEF inner
  <2>1. \A i \in 1 .. Len(lns) : i \notin inner => lns[i] = mask[i]
    BY <1>1
  <2> QED
    BY <1>1, <2>1, SameHeadings
<1>4. Chapter!Headings(mask) = Chapter!Headings(lns)
  BY <1>2, <1>3, ScansAreDetections
<1>5. Chapter!Sizes(mask) = Chapter!Sizes(lns)
  <2>1. DOMAIN mask = 1 .. Len(lns) /\ DOMAIN lns = 1 .. Len(lns)
    BY <1>1
  <2>2. \A i \in 1 .. Len(lns) : mask[i].size = lns[i].size
    BY <1>1
  <2> QED
    BY <2>1, <2>2 DEF Chapter!Sizes
<1> QED
  BY <1>2, <1>4, <1>5 DEF mask

LEMMA FencesStay == ChapterInv => FencesAreNeutral
<1> SUFFICES ASSUME ChapterInv PROVE FencesAreNeutral
  OBVIOUS
<1> DEFINE mask == Chapter!Mask(lines)
           inner == Chapter!FencedLines(lines)
           was == Chapter!Counts(mask)
<1>1. lines \in Seq(Line) /\ counts = Chapter!Counts(lines)
  <2>1. Lines \subseteq Line
    BY LinesAreRead DEF Line
  <2>2. lines \in Seq(Lines) /\ counts = Chapter!Counts(lines)
    BY DEF ChapterInv
  <2> QED
    BY <2>1, <2>2
<1>2. DOMAIN lines = 1 .. Len(lines) /\ Len(lines) \in Nat
  BY <1>1
<1>3. /\ mask \in Seq(Line) /\ Len(mask) = Len(lines)
      /\ \A i \in 1 .. Len(lines) :
           IF i \in inner /\ lines[i].kind # "fence"
           THEN mask[i].kind = "text" /\ mask[i].size = lines[i].size
           ELSE mask[i] = lines[i]
  BY <1>1, MaskChangesBlocks
<1>4. DOMAIN mask = 1 .. Len(lines)
  BY <1>3
<1>5. /\ Chapter!Headings(mask) = Chapter!Headings(lines)
      /\ Chapter!Sizes(mask) = Chapter!Sizes(lines)
  BY <1>1, MaskIsNeutral
<1> HIDE DEF mask, inner
<1>6. counts.structural = was.structural
  <2>1. Chapter!StructuralChapterCount(lines) = Chapter!StructuralChapterCount(mask)
    BY <1>5, Zenon DEF Chapter!StructuralChapterCount
  <2>2. counts.structural = Chapter!StructuralChapterCount(lines)
    BY <1>1 DEF Chapter!Counts
  <2>3. was.structural = Chapter!StructuralChapterCount(mask)
    BY DEF Chapter!Counts
  <2> QED
    BY <2>1, <2>2, <2>3
<1>7. ASSUME ~Chapter!Speaks(lines) PROVE counts = was
  <2>1. \A i \in 1 .. Len(lines) :
          i \in inner => Chapter!ChapterNumber(lines[i]) = 0 /\ lines[i].kind # "contents"
    BY <1>7 DEF Chapter!Speaks, inner
  <2>2. ASSUME NEW i \in 1 .. Len(lines)
        PROVE  /\ Chapter!ChapterNumber(mask[i]) = Chapter!ChapterNumber(lines[i])
               /\ mask[i].kind = "contents" <=> lines[i].kind = "contents"
    <3>1. CASE i \in inner /\ lines[i].kind # "fence"
      <4>1. mask[i].kind = "text"
        BY <1>3, <3>1
      <4>2. Chapter!ChapterNumber(mask[i]) = 0
        BY <4>1 DEF Chapter!ChapterNumber
      <4> QED
        BY <2>1, <3>1, <4>1, <4>2
    <3>2. CASE ~(i \in inner /\ lines[i].kind # "fence")
      <4>1. mask[i] = lines[i]
        BY <1>3, <3>2
      <4> QED
        BY <4>1
    <3> QED
      BY <3>1, <3>2
  <2>3. Chapter!ChapterNumbers(mask) = Chapter!ChapterNumbers(lines)
    BY <1>2, <1>4, <2>2 DEF Chapter!ChapterNumbers
  <2>4. (\E i \in DOMAIN mask : i <= Window /\ mask[i].kind = "contents")
          <=> (\E i \in DOMAIN lines : i <= Window /\ lines[i].kind = "contents")
    BY <1>2, <1>4, <2>2
  <2>5. Chapter!StructuralChapterCount(lines) = Chapter!StructuralChapterCount(mask)
    BY <1>5, Zenon DEF Chapter!StructuralChapterCount
  <2> QED
    BY <1>1, <2>3, <2>4, <2>5 DEF Chapter!Counts
<1>8. ASSUME NEW i \in Chapter!Passed(lines)
      PROVE  \E j \in 1 .. i - 1, k \in i + 1 .. Len(lines) :
               /\ Chapter!Fence(j, lines[j].mark) /\ Chapter!Fence(k, lines[j].mark)
               /\ \A l \in j + 1 .. k - 1 : ~Chapter!Fence(l, lines[j].mark)
  <2>1. /\ i \in 1 .. Len(lines) /\ lines[i].kind = "heading"
        /\ i \notin Chapter!ToSet(Chapter!Headings(lines).at)
    BY <1>2, <1>8 DEF Chapter!Passed
  <2>2. i \in inner
    <3> SUFFICES ASSUME i \notin inner PROVE FALSE
      OBVIOUS
    <3> DEFINE scan == HeadingScan(lines, inner)
    <3>1. \E e \in 1 .. Len(scan.at) : scan.at[e] = i
      BY <1>1, <2>1, HeadingsAreFound
    <3>2. scan.at \in Seq(1 .. Len(lines))
      <4>1. PICK h : HeadingSteps(h, lines, inner)
        BY <1>1, HeadingsStep
      <4>2. Len(lines) \in 0 .. Len(lines)
        BY <1>2
      <4>3. scan \in HeadingScans(lines)
        BY <4>1, <4>2 DEF HeadingSteps
      <4> QED
        BY <4>3 DEF HeadingScans
    <3>3. scan = Chapter!Headings(lines)
      BY ScansAreDetections DEF inner
    <3> HIDE DEF scan
    <3>4. i \in Chapter!ToSet(scan.at)
      BY <3>1, <3>2 DEF Chapter!ToSet
    <3> QED
      BY <2>1, <3>3, <3>4
  <2>3. Between(lines, i, Len(lines))
    BY <1>1, <2>2, FencesEnclose, ScansAreDetections DEF inner
  <2>4. PICK j \in 1 .. i, k \in i .. Len(lines) :
          /\ IsFence(lines, j) /\ Alike(lines, k, j)
          /\ \A l \in j + 1 .. k - 1 : ~Alike(lines, l, j)
    BY <2>3 DEF Between
  <2>5. j # i /\ k # i
    BY <2>1, <2>4 DEF IsFence, Alike
  <2>6. j \in 1 .. i - 1 /\ k \in i + 1 .. Len(lines)
    BY <1>2, <2>1, <2>4, <2>5
  <2> QED
    BY <2>4, <2>6 DEF IsFence, Alike, Chapter!Fence
<1> QED
  <2>1. Chapter!Speaks(lines) \/ Chapter!DetectStructure(counts) = Chapter!DetectStructure(was)
    BY <1>7
  <2> QED
    BY <1>6, <1>8, <2>1 DEF FencesAreNeutral, Chapter!FencesAreNeutral, mask

LEMMA InitChapterInv == Chapter!Init => ChapterInv
BY DEF Chapter!Init, ChapterInv

LEMMA NextChapterInv == ChapterInv /\ [Chapter!Next]_<<lines, counts>> => ChapterInv'
<1> SUFFICES ASSUME ChapterInv, [Chapter!Next]_<<lines, counts>> PROVE ChapterInv'
  OBVIOUS
<1>1. ASSUME NEW line \in Lines, Chapter!AddLine(line) PROVE ChapterInv'
  <2>1. lines' = Append(lines, line) /\ counts' = Chapter!Counts(lines')
    BY <1>1 DEF Chapter!AddLine
  <2> QED
    BY <2>1 DEF ChapterInv
<1>2. CASE UNCHANGED <<lines, counts>>
  BY <1>2 DEF ChapterInv
<1> QED
  BY <1>1, <1>2 DEF Chapter!Next
-----------------------------------------------------------------------------
(* A scan opens the files of its scope, and while it reads, every file of the *)
(* scope that nobody changed is read or still to read.                        *)
Readable(file) == Scan!Is(file) \in {"clean", "flagged"}
Scanned ==
  /\ disk \in [Scan!Files -> Scan!Kinds]
  /\ unread \in Seq(Scan!Files) /\ opened \subseteq Scan!Files /\ flagged \subseteq opened
  /\ scanning \in {"start", "read", "looked", "ended"}
  /\ scanning = "start" => unread = <<>> /\ opened = {} /\ flagged = {}
  /\ scanning # "ended" => status = "running" /\ unscanned = {}
  /\ scanning = "ended" => status # "running"
  /\ scanning \in {"read", "looked"} =>
       Scan!Scope \cap settled \subseteq opened \cup ToSet(unread)
  /\ scanning = "looked" =>
       /\ unread # <<>>
       /\ Head(unread) \in settled => Scan!Is(Head(unread)) \notin {"link", "large", "absent"}
  /\ (opened \cup ToSet(unread)) \cap settled \subseteq Scan!Scope
  /\ \A file \in opened \cap settled :
       Readable(file) /\ (file \in flagged <=> Scan!Is(file) = "flagged")
  /\ PassedMeansScanned

LEMMA SetToSeqHasAll ==
  ASSUME NEW S, IsFiniteSet(S)
  PROVE  Scan!SetToSeq(S) \in Seq(S) /\ ToSet(Scan!SetToSeq(S)) = S
<1> DEFINE n == Cardinality(S)
            good(f) == f \in [1..n -> S] /\ Scan!IsInjective(f)
            s == Scan!SetToSeq(S)
<1>1. n \in Nat /\ ExistsBijection(1..n, S)
  BY FS_CardinalityType
<1>2. PICK f \in Bijection(1..n, S) : TRUE
  BY <1>1 DEF ExistsBijection
<1>3. good(f)
  BY <1>2 DEF Bijection, Injection, IsInjective, Scan!IsInjective
<1>4. good(s)
  <2>1. \E g \in [1..n -> S] : Scan!IsInjective(g)
    BY <1>3
  <2>2. s = CHOOSE g \in [1..n -> S] : Scan!IsInjective(g)
    BY Zenon DEF Scan!SetToSeq, Scan!Cardinality, Cardinality
  <2> HIDE DEF n, s
  <2> QED
    BY <2>1, <2>2, Zenon
<1>5. s \in Injection(1..n, S)
  BY <1>4 DEF Injection, IsInjective, Scan!IsInjective
<1>6. IsFiniteSet(1..n) /\ Cardinality(1..n) = n
  BY <1>1, FS_Interval
<1>7. s \in Surjection(1..n, S)
  BY <1>5, <1>6, FS_Injection
<1> QED
  BY <1>1, <1>4, <1>7 DEF Surjection, ToSet

LEMMA HeadIsFirst ==
  ASSUME NEW S, NEW s \in Seq(S), s # <<>>
  PROVE  /\ Head(s) \in S /\ Tail(s) \in Seq(S)
         /\ ToSet(s) = {Head(s)} \cup ToSet(Tail(s))
<1>1. Head(s) \in S /\ Tail(s) \in Seq(S) /\ Len(Tail(s)) = Len(s) - 1 /\ Len(s) > 0
  BY HeadTailProperties
<1>2. /\ Head(s) = s[1]
      /\ \A i \in 1..Len(Tail(s)) : Tail(s)[i] = s[i + 1]
  BY HeadTailProperties
<1>3. \A i \in 2..Len(s) : s[i] = Tail(s)[i - 1] /\ i - 1 \in 1..Len(Tail(s))
  BY <1>1, <1>2
<1>4. /\ DOMAIN s = 1..Len(s) /\ DOMAIN Tail(s) = 1..Len(Tail(s))
      /\ Len(s) \in Nat
  BY <1>1
<1>5. ToSet(s) \subseteq {Head(s)} \cup ToSet(Tail(s))
  <2>1. \A i \in 1..Len(s) : i = 1 \/ i \in 2..Len(s)
    BY <1>4
  <2>2. ASSUME NEW i \in 2..Len(s)
        PROVE  s[i] \in ToSet(Tail(s))
    BY <1>3, <1>4 DEF ToSet
  <2>3. \A i \in DOMAIN s : s[i] \in {Head(s)} \cup ToSet(Tail(s))
    BY <1>2, <1>4, <2>1, <2>2
  <2> QED
    BY <2>3 DEF ToSet
<1>6. {Head(s)} \cup ToSet(Tail(s)) \subseteq ToSet(s)
  <2>1. 1 \in DOMAIN s /\ \A i \in DOMAIN Tail(s) : i + 1 \in DOMAIN s
    BY <1>1, <1>4
  <2> QED
    BY <1>2, <1>4, <2>1 DEF ToSet
<1> QED
  BY <1>1, <1>5, <1>6

LEMMA ScopeIsFinite == Scan!Scope \subseteq Scan!Files /\ IsFiniteSet(Scan!Scope)
<1>1. IsFiniteSet(Scan!Files)
  BY FilesAreFinite, FS_Singleton, FS_Union DEF Scan!Files
<1>2. Scan!Scope \subseteq Scan!Files
  BY DEF Scan!Scope, Scan!Files, Scan!WalkMarkdown
<1> QED
  BY <1>1, <1>2, FS_Subset

(* What nobody changed is what it was.                                        *)
LEMMA SettledIsSame ==
  ASSUME disk \in [Scan!Files -> Scan!Kinds], NEW file \in Scan!Files,
         file \in settled',
         \/ \E other \in Scan!Files, kind_ \in Scan!Kinds : Scan!Edit(other, kind_)
         \/ \E kind_ \in {"directory", "link", "absent"} : Scan!EditFolder(kind_)
  PROVE  /\ file \in settled
         /\ Scan!Is(file)' = Scan!Is(file)
         /\ file \in Scan!Scope' <=> file \in Scan!Scope
<1>1. file \in settled /\ Scan!Is(file)' = Scan!Is(file)
  BY DEF Scan!Edit, Scan!EditFolder, Scan!Is, Scan!Files
<1> QED
  BY <1>1 DEF Scan!Scope, Scan!WalkMarkdown

LEMMA KindOfFile ==
  ASSUME disk \in [Scan!Files -> Scan!Kinds], NEW file \in Scan!Files
  PROVE  Scan!Is(file) \in Scan!Kinds
BY DEF Scan!Is, Scan!Kinds

LEMMA InitScanned == Scan!Init => Scanned
<1> SUFFICES ASSUME Scan!Init PROVE Scanned
  OBVIOUS
<1>1. disk \in [Scan!Files -> Scan!Kinds]
  BY DEF Scan!Init, Scan!Kinds, Scan!Regular
<1>2. unread = <<>> /\ opened = {} /\ ToSet(unread) = {}
  BY DEF Scan!Init, ToSet
<1> QED
  BY <1>1, <1>2 DEF Scan!Init, Scanned, PassedMeansScanned, Scan!PassedMeansScanned

LEMMA NextScanned == Scanned /\ [Scan!Next]_(Scan!vars) => Scanned'
<1> SUFFICES ASSUME Scanned, [Scan!Next]_(Scan!vars) PROVE Scanned'
  OBVIOUS
<1> USE DEF Scan!skill, Scan!scan
<1>1. CASE \/ \E file \in Scan!Files, kind_ \in Scan!Kinds : Scan!Edit(file, kind_)
           \/ \E kind_ \in {"directory", "link", "absent"} : Scan!EditFolder(kind_)
  <2>1. /\ UNCHANGED <<scanning, unread, opened, flagged, unscanned, status>>
        /\ status = "running"
        /\ disk' \in [Scan!Files -> Scan!Kinds]
    BY <1>1 DEF Scanned, Scan!Edit, Scan!EditFolder
  <2>2. \A file \in Scan!Files \cap settled' :
          /\ file \in settled /\ Scan!Is(file)' = Scan!Is(file)
          /\ file \in Scan!Scope' <=> file \in Scan!Scope
    BY <1>1, SettledIsSame DEF Scanned
  <2>3. scanning # "ended" /\ unscanned = {}
    BY <2>1 DEF Scanned
  <2>4. ToSet(unread) \subseteq Scan!Files /\ ToSet(unread)' = ToSet(unread)
    BY <2>1 DEF Scanned, ToSet
  <2>5. scanning \in {"read", "looked"} =>
          Scan!Scope' \cap settled' \subseteq opened \cup ToSet(unread)
    <3>1. Scan!Scope' \subseteq Scan!Files
      BY DEF Scan!Scope, Scan!Files, Scan!WalkMarkdown
    <3> QED
      BY <2>2, <3>1 DEF Scanned
  <2>6. \A file \in opened' \cap settled' :
          Readable(file)' /\ (file \in flagged' <=> Scan!Is(file)' = "flagged")
    BY <2>1, <2>2 DEF Scanned, Readable
  <2>7. PassedMeansScanned'
    BY <2>1, <2>3, <2>6 DEF PassedMeansScanned, Scan!PassedMeansScanned
  <2>8. ASSUME scanning = "looked", Head(unread) \in settled'
        PROVE  Scan!Is(Head(unread))' \notin {"link", "large", "absent"}
    <3>1. unread # <<>> /\ unread \in Seq(Scan!Files)
      BY <2>8 DEF Scanned
    <3>2. Head(unread) \in Scan!Files
      BY <3>1, HeadIsFirst
    <3>3. Head(unread) \in settled /\ Scan!Is(Head(unread))' = Scan!Is(Head(unread))
      BY <2>1, <2>2, <2>8, <3>2
    <3> QED
      BY <2>8, <3>3 DEF Scanned
  <2> QED
    BY <2>1, <2>2, <2>3, <2>4, <2>5, <2>6, <2>7, <2>8 DEF Scanned
<1>2. ASSUME UNCHANGED <<disk, folder>>
      PROVE  /\ \A file : Scan!Is(file)' = Scan!Is(file) /\ Readable(file)' = Readable(file)
             /\ Scan!Scope' = Scan!Scope
  BY <1>2 DEF Scan!Is, Readable, Scan!Scope, Scan!WalkMarkdown
<1>3. CASE Scan!Collect
  <2>1. /\ UNCHANGED <<disk, folder, edits, opened, flagged, unscanned>>
        /\ unread = <<>> /\ opened = {} /\ flagged = {} /\ unscanned = {}
        /\ settled' = Scan!Files /\ status = "running"
    BY <1>3 DEF Scanned, Scan!Collect
  <2>2. ToSet(<<>>) = {}
    BY DEF ToSet
  <2>3. CASE Scan!Refused
    <3>1. scanning' = "ended" /\ status' = "2" /\ unread' = unread
      BY <1>3, <2>3 DEF Scan!Collect, Scan!End
    <3> QED
      BY <2>1, <2>2, <3>1 DEF Scanned, PassedMeansScanned, Scan!PassedMeansScanned
  <2>4. CASE ~Scan!Refused
    <3>1. scanning' = "read" /\ status' = status /\ unread' = Scan!SetToSeq(Scan!Scope)
      BY <1>3, <2>4 DEF Scan!Collect
    <3>2. unread' \in Seq(Scan!Scope) /\ ToSet(unread') = Scan!Scope
      BY <3>1, ScopeIsFinite, SetToSeqHasAll
    <3>3. unread' \in Seq(Scan!Files)
      BY <3>2, ScopeIsFinite
    <3> QED
      BY <1>2, <2>1, <3>1, <3>2, <3>3
         DEF Scanned, PassedMeansScanned, Scan!PassedMeansScanned
  <2> QED
    BY <2>3, <2>4
<1>7. CASE Scan!Look
  <2>1. /\ UNCHANGED <<disk, folder, edits, settled, unread, opened, flagged, unscanned>>
        /\ scanning = "read" /\ unread # <<>>
    BY <1>7 DEF Scan!Look
  <2>2. CASE scanning' = "ended" /\ status' \in {"2", "traceback"}
    BY <1>2, <2>1, <2>2 DEF Scanned, PassedMeansScanned, Scan!PassedMeansScanned
  <2>3. CASE /\ scanning' = "looked" /\ status' = status
             /\ Scan!Is(Head(unread)) \notin {"link", "large", "absent"}
    BY <1>2, <2>1, <2>3 DEF Scanned, PassedMeansScanned, Scan!PassedMeansScanned
  <2> QED
    BY <1>7, <2>2, <2>3 DEF Scan!Look, Scan!Refusal, Scan!End
<1>4. ASSUME NEW given \in {"clean", "flagged", "unreadable"}, Scan!Read(given)
      PROVE  Scanned'
  <2> DEFINE file == Head(unread)
  <2>1. /\ UNCHANGED <<disk, folder, edits, settled, unscanned>>
        /\ scanning = "looked" /\ unread # <<>>
    BY <1>4 DEF Scan!Read, Scanned
  <2>2. CASE scanning' = "ended" /\ status' \in {"2", "traceback"}
             /\ UNCHANGED <<unread, opened, flagged>>
    BY <1>2, <2>1, <2>2 DEF Scanned, PassedMeansScanned, Scan!PassedMeansScanned
  <2>3. CASE /\ scanning' = "read" /\ status' = status
             /\ unread' = Tail(unread)
             /\ opened' = opened \cup {file}
             /\ flagged' = IF given = "flagged" THEN flagged \cup {file} ELSE flagged
             /\ file \in settled => Readable(file) /\ given = Scan!Is(file)
    <3>1. /\ file \in Scan!Files /\ Tail(unread) \in Seq(Scan!Files)
          /\ ToSet(unread) = {file} \cup ToSet(Tail(unread))
      BY <2>1, HeadIsFirst DEF Scanned
    <3>2. status = "running" /\ unscanned = {}
      BY <2>1 DEF Scanned
    <3>3. \A f \in opened' \cap settled' :
            Readable(f)' /\ (f \in flagged' <=> Scan!Is(f)' = "flagged")
      <4> SUFFICES ASSUME NEW f \in opened' \cap settled'
                   PROVE  Readable(f) /\ (f \in flagged' <=> Scan!Is(f) = "flagged")
        BY <1>2, <2>1
      <4>1. CASE f = file /\ f \notin opened
        <5>1. f \notin flagged
          BY <4>1 DEF Scanned
        <5> QED
          BY <2>1, <2>3, <4>1, <5>1 DEF Readable
      <4>2. CASE f \in opened
        BY <2>1, <2>3, <4>2 DEF Scanned
      <4> QED
        BY <2>3, <4>1, <4>2
    <3>4. PassedMeansScanned'
      BY <2>1, <2>3, <3>2, <3>3 DEF PassedMeansScanned, Scan!PassedMeansScanned
    <3> QED
      BY <1>2, <2>1, <2>3, <3>1, <3>3, <3>4 DEF Scanned
  <2>4. file \in Scan!Files
    BY <2>1, HeadIsFirst DEF Scanned
  <2>5. Scan!Is(file) \in Scan!Kinds
    BY <2>4, KindOfFile DEF Scanned
  <2>6. given # "unreadable" /\ file \in settled => Readable(file) /\ given = Scan!Is(file)
    <3>1. file \in settled => Scan!Is(file) \notin {"link", "large", "absent"}
      BY <2>1 DEF Scanned
    <3> QED
      BY <1>4, <2>5, <3>1
         DEF Scan!Read, Scan!ReadText, Readable, Scan!Kinds, Scan!Regular
  <2> QED
    BY <1>4, <2>2, <2>3, <2>6 DEF Scan!Read, Scan!End
<1>5. CASE Scan!Report
  <2>1. /\ UNCHANGED <<disk, folder, edits, settled, unread, opened, flagged>>
        /\ scanning = "read" /\ unread = <<>> /\ scanning' = "ended"
        /\ status' \in {"0", "1", "2"}
    BY <1>5 DEF Scan!Report, Scan!End
  <2>2. ToSet(unread) = {}
    BY <2>1 DEF ToSet
  <2>3. Scan!Scope \cap settled \subseteq opened /\ opened \cap settled \subseteq Scan!Scope
    BY <2>1, <2>2 DEF Scanned
  <2>4. unscanned' \subseteq Scan!Files /\ unscanned' \cap Scan!Scope = {}
    BY <1>5, <2>1 DEF Scan!Report, Scan!WalkMarkdown, Scanned
  <2>5. ASSUME status' = "0"
        PROVE  flagged = {} /\ unscanned' = Scan!WalkMarkdown(Scan!Files) \ Scan!Scope
    BY <1>5, <2>5 DEF Scan!Report, Scan!End
  <2>6. \A file \in opened \cap settled :
          Readable(file) /\ (file \in flagged <=> Scan!Is(file) = "flagged")
    BY DEF Scanned
  <2>7. Scan!WalkMarkdown(Scan!Files)' = Scan!WalkMarkdown(Scan!Files)
    BY <1>2, <2>1 DEF Scan!WalkMarkdown
  <2>8. status' = "0" =>
          \A file \in Scan!WalkMarkdown(Scan!Files) \cap settled :
            (file \in opened /\ Scan!Is(file) = "clean") \/ file \in unscanned'
    BY <2>3, <2>5, <2>6 DEF Readable
  <2>9. PassedMeansScanned'
    BY <1>2, <2>1, <2>3, <2>4, <2>6, <2>7, <2>8
       DEF PassedMeansScanned, Scan!PassedMeansScanned, Scanned
  <2> QED
    BY <1>2, <2>1, <2>9 DEF Scanned
<1>6. CASE UNCHANGED Scan!vars
  BY <1>6 DEF Scanned, Readable, PassedMeansScanned, Scan!PassedMeansScanned, Scan!Is,
     Scan!Scope, Scan!WalkMarkdown, Scan!vars
<1> QED
  BY <1>1, <1>3, <1>4, <1>5, <1>6, <1>7 DEF Scan!Next
-----------------------------------------------------------------------------
(* A step of the skill's programs is a step of one of them, or leaves it as   *)
(* it is.                                                                     *)
LEMMA StepsOfParts ==
  ASSUME [SkillNext]_all
  PROVE  /\ [Next]_vars
         /\ [Source!Next]_(Source!vars)
         /\ [Rtf!Next]_(Rtf!vars)
         /\ [Html!Next]_(Html!vars)
         /\ [Pdf!Next]_pages
         /\ [Epub!Next]_(Epub!vars)
         /\ [Chapter!Next]_<<lines, counts>>
         /\ [Scan!Next]_(Scan!vars)
<1> USE DEF vars, sourceVars, Source!vars, rtfVars, Rtf!vars, htmlVars, Html!vars,
        epubVars, Epub!vars, chapterVars, scanVars, Scan!vars
<1>1. CASE UNCHANGED all
  BY <1>1 DEF all
<1>2. CASE RunsStep
  BY <1>2 DEF RunsStep
<1>3. CASE SourceStep
  BY <1>3 DEF SourceStep
<1>4. CASE ScanStep
  BY <1>4 DEF ScanStep
<1>5. CASE HtmlStep
  BY <1>5 DEF HtmlStep
<1>6. CASE RtfStep
  BY <1>6 DEF RtfStep
<1>7. CASE PdfStep
  BY <1>7 DEF PdfStep
<1>8. CASE EpubStep \/ ChapterStep
  BY <1>8 DEF EpubStep, ChapterStep
<1> QED
  BY <1>1, <1>2, <1>3, <1>4, <1>5, <1>6, <1>7, <1>8 DEF SkillNext

(* Metadata in a per-run directory is its latest run's, and comes with that   *)
(* run's whole full_text.txt over the same sources, unless the run found an   *)
(* earlier run's metadata there and has not succeeded: never when the run     *)
(* made the directory (prepare_output_dir), and never after it has reported   *)
(* success (main, enrich_pdf_inspector_metadata).                             *)
THEOREM MetadataFollows == SkillSpec => []MetadataFollowsText
<1>1. SkillInit => IInv /\ OwnerInv
  BY InitIInv, InitOwnerInv DEF SkillInit
<1>2. IInv /\ OwnerInv /\ [SkillNext]_all => (IInv /\ OwnerInv)'
  BY NextIInv, NextOwnerInv, StepsOfParts
<1> QED
  BY <1>1, <1>2, MetadataIsExplained, PTL DEF SkillSpec

(* A run that finished accounts for each file its command line named, once,   *)
(* as a source or as skipped, in the order named (resolve_input_files and the *)
(* batch loop of main).                                                       *)
THEOREM BatchesAreAlwaysAccountedFor == SkillSpec => []BatchesAreAccountedFor
<1>1. SkillInit => BatchInv
  BY InitBatchInv DEF SkillInit
<1>2. BatchInv /\ [SkillNext]_all => BatchInv'
  BY NextBatchInv, StepsOfParts
<1> QED
  BY <1>1, <1>2, BatchesEnd, PTL DEF SkillSpec

(* The text extract_single_file returns for a source is visible text that a   *)
(* parser tried on that source, or pdf-inspector in text mode, drew from it,  *)
(* but for a run of ebook-convert that claims success and wrote nothing       *)
(* (extract_with_ebook_convert).                                              *)
THEOREM TextIsDrawnFromItsSource == SkillSpec => []TextIsOfItsSource
<1>1. SkillInit => Drawn
  BY InitDrawn DEF SkillInit, Begins
<1>2. Drawn /\ [SkillNext]_all => Drawn'
  BY NextDrawn, StepsOfParts
<1>3. Drawn => TextIsOfItsSource
  BY DEF Drawn, IsOfDoc, TextIsOfItsSource, Source!TextIsOfItsSource
<1> QED
  BY <1>1, <1>2, <1>3, PTL DEF SkillSpec

(* A source is given up only after every parser of its format that the        *)
(* machine has was tried, and a format that --check called ready never is     *)
(* without one of the tools the report is about.                              *)
THEOREM FallbacksAreTried == SkillSpec => []FallbackIsComplete
<1>1. SkillInit => CoveredInv
  BY InitCovered DEF SkillInit, Begins
<1>2. CoveredInv /\ [SkillNext]_all => CoveredInv'
  BY NextCovered, StepsOfParts
<1>3. CoveredInv => FallbackIsComplete
  BY DEF CoveredInv
<1> QED
  BY <1>1, <1>2, <1>3, PTL DEF SkillSpec

(* An RTF file whose braces never close more than is open keeps, in order,    *)
(* all that is outside its destination groups, and all there is when one of   *)
(* them never closes (_rtf_drop_destinations).                                *)
THEOREM OnlyDestinationsAreEverDropped == SkillSpec => []OnlyDestinationsAreDropped
<1>1. SkillInit => RtfInv
  BY InitRtfInv DEF SkillInit
<1>2. RtfInv /\ [SkillNext]_all => RtfInv'
  BY NextRtfInv, StepsOfParts
<1>3. RtfInv => OnlyDestinationsAreDropped
  BY DEF RtfInv
<1> QED
  BY <1>1, <1>2, <1>3, PTL DEF SkillSpec

(* The HTML parser keeps every word outside skipped elements, once and in     *)
(* order, and writes a newline or a tab between two neighbours exactly when a *)
(* block or a cell of the page does separate them (_TextExtractor).           *)
THEOREM BlocksAlwaysStayApart == SkillSpec => []BlocksStayApart
<1>1. SkillInit => HtmlInv
  BY InitHtmlInv DEF SkillInit
<1>2. HtmlInv /\ [SkillNext]_all => HtmlInv'
  BY NextHtmlInv, StepsOfParts
<1>3. HtmlInv => BlocksStayApart
  BY DEF HtmlInv
<1> QED
  BY <1>1, <1>2, <1>3, PTL DEF SkillSpec

(* clean_pdftotext takes from a PDF's pages only lines at their edges that    *)
(* are page numbers or at the edge of more than half the pages.               *)
THEOREM BodiesAreAlwaysKept == SkillSpec => []BodiesAreKept
<1>1. SkillInit => PdfTypes
  BY InitPdfTypes DEF SkillInit
<1>2. PdfTypes /\ [SkillNext]_all => PdfTypes'
  BY NextPdfTypes, StepsOfParts
<1> QED
  BY <1>1, <1>2, BodiesStay, PTL DEF SkillSpec

(* An EPUB becomes text in the order of its spine, each document once, then   *)
(* what content only the manifest names; nothing they name that the archive   *)
(* has is lost (extract_with_zipfile).                                        *)
THEOREM SpineOrderIsAlwaysKept == SkillSpec => []SpineOrderIsKept
<1>1. SkillInit => EpubInv
  BY InitEpubInv DEF SkillInit, Begins
<1>2. EpubInv /\ [SkillNext]_all => EpubInv'
  BY NextEpubInv, StepsOfParts
<1> QED
  BY <1>1, <1>2, SpineStays, PTL DEF SkillSpec

(* What a code block that closes says changes no chapter found by headings,   *)
(* nor, unless it numbers one or names the contents, anything detected; and a *)
(* heading is passed over only between two fences of one character with none  *)
(* of that character between them (_structural_chapter_count,                 *)
(* detect_structure).                                                         *)
THEOREM FencesAreAlwaysNeutral == SkillSpec => []FencesAreNeutral
<1>1. SkillInit => ChapterInv
  BY InitChapterInv DEF SkillInit
<1>2. ChapterInv /\ [SkillNext]_all => ChapterInv'
  BY NextChapterInv, StepsOfParts
<1> QED
  BY <1>1, <1>2, FencesStay, PTL DEF SkillSpec

(* scan_generated_skill passes only when it has read each Markdown file that  *)
(* nobody changed meanwhile, and found it clean, or names it as not scanned.  *)
THEOREM PassedScansAreWhole == SkillSpec => []PassedMeansScanned
<1>1. SkillInit => Scanned
  BY InitScanned DEF SkillInit, Begins
<1>2. Scanned /\ [SkillNext]_all => Scanned'
  BY NextScanned, StepsOfParts
<1>3. Scanned => PassedMeansScanned
  BY DEF Scanned
<1> QED
  BY <1>1, <1>2, <1>3, PTL DEF SkillSpec
=============================================================================
