------------------------------ MODULE SkillScan ------------------------------
(* tools/scan_generated_skill.py of the book-to-skill skill: which Markdown   *)
(* files of a generated skill are opened, which are only named, and with what *)
(* status the scan ends, while somebody may still be writing the skill. What  *)
(* a rule matches is abstracted to clean and flagged text.                    *)
EXTENDS Naturals, FiniteSets, SequencesExt

CONSTANTS
  Master,      \* SKILL.md
  Supporting,  \* SUPPORTING_FILENAMES
  Chapters,    \* Markdown files below chapters/, at any depth
  Notes,       \* Markdown files elsewhere in the skill's directory
  MaxFiles,    \* MAX_SKILL_FILES
  MaxBytes,    \* MAX_TOTAL_BYTES, a file that is not too large having one
  MaxEdits     \* changes to the directory, before and during the scan

Files == {Master} \cup Supporting \cup Chapters \cup Notes
(* Text, too much of it, text in another encoding, a symbolic link, or no     *)
(* file: a directory, or nothing.                                             *)
Regular == {"clean", "flagged", "large", "not UTF-8"}
Kinds == Regular \cup {"link", "directory", "absent"}

VARIABLES
  disk,      \* what each file is
  folder,    \* what chapters/ is
  edits,     \* the changes made
  settled,   \* the files nobody changed since the scan began
  scanning,  \* where main is
  unread,    \* files of _collect_skill_files still to read
  opened,    \* files read, and scanned
  flagged,   \* those with findings
  unscanned,   \* what unscanned_markdown names
  status     \* the exit status, or "traceback"

skill == <<disk, folder, edits, settled>>
scan == <<scanning, unread, opened, flagged, unscanned, status>>
vars == <<disk, folder, edits, settled, scanning, unread, opened, flagged, unscanned, status>>

Init ==
  /\ disk \in [Files -> {"clean", "absent"}] /\ folder = "directory"
  /\ edits = 0 /\ settled = Files
  /\ scanning = "start" /\ unread = <<>> /\ opened = {} /\ flagged = {}
  /\ unscanned = {} /\ status = "running"

Is(file) ==
  IF file \in Chapters /\ folder # "directory" THEN "absent" ELSE disk[file]

(* The writer of the skill changes a file, or what chapters/ is.              *)
Edit(file, kind) ==
  /\ UNCHANGED <<scan, folder>>
  /\ edits < MaxEdits /\ status = "running"
  /\ edits' = edits + 1
  /\ disk' = [disk EXCEPT ![file] = kind]
  /\ settled' = settled \ {file}
EditFolder(kind) ==
  /\ UNCHANGED <<scan, disk>>
  /\ edits < MaxEdits /\ status = "running"
  /\ edits' = edits + 1
  /\ folder' = kind
  /\ settled' = settled \ Chapters
-----------------------------------------------------------------------------
(* _walk_markdown lists the files of a tree and the links to files in it, and *)
(* follows no link to a directory.                                            *)
WalkMarkdown(tree) == {file \in tree : Is(file) \in Regular \cup {"link"}}

(* _collect_skill_files: what the scan is about, and what it refuses.         *)
Scope ==
  {Master} \cup {file \in Supporting : Is(file) # "absent"} \cup WalkMarkdown(Chapters)
Refused ==
  \/ Is(Master) \notin Regular
  \/ \E file \in Supporting : Is(file) \notin Regular \cup {"absent"}
  \/ folder \notin {"directory", "absent"}
  \/ Cardinality(Scope) > MaxFiles

End(code) == scanning' = "ended" /\ status' = code

Collect ==
  /\ UNCHANGED <<disk, folder, edits, opened, flagged, unscanned>>
  /\ scanning = "start"
  /\ settled' = Files
  /\ IF Refused
     THEN End("2") /\ UNCHANGED unread
     ELSE scanning' = "read" /\ unread' = SetToSeq(Scope) /\ UNCHANGED status

(* _read_skill_files gives one file after another to _scan_text: it looks at  *)
(* the file, then reads it. A link or too much text ends the scan at the look,*)
(* a file that is gone by then ends it with a traceback.                      *)
Refusal(kind) ==
  CASE kind = "absent" -> "traceback"
    [] kind # "absent" /\ (kind \in {"link", "large"} \/ Cardinality(opened) = MaxBytes) -> "2"
    [] OTHER -> "none"
Look ==
  LET refusal == Refusal(Is(Head(unread))) IN
  /\ UNCHANGED <<skill, unread, opened, flagged, unscanned>>
  /\ scanning = "read" /\ unread # <<>>
  /\ IF refusal = "none" THEN scanning' = "looked" /\ UNCHANGED status ELSE End(refusal)

(* What reading gives. What became a link or large since the look is read     *)
(* like any file, and has any text or none that can be read.                  *)
\* Mutant: what is not UTF-8 is read with replacements.
ReadReplaced(kind) ==
  CASE kind \in {"clean", "flagged"} -> {kind}
    [] kind \in {"link", "large"} -> {"clean", "flagged", "unreadable"}
    [] kind = "not UTF-8" -> {"clean"}
    [] OTHER -> {"unreadable"}
ReadText(kind) ==
  CASE kind \in {"clean", "flagged"} -> {kind}
    [] kind \in {"link", "large"} -> {"clean", "flagged", "unreadable"}
    [] OTHER -> {"unreadable"}
Read(given) ==
  /\ UNCHANGED <<skill, unscanned>>
  /\ scanning = "looked"
  /\ given \in ReadText(Is(Head(unread)))
  /\ IF given = "unreadable"
     THEN End("2") /\ UNCHANGED <<unread, opened, flagged>>
     ELSE /\ scanning' = "read" /\ UNCHANGED status
          /\ unread' = Tail(unread)
          /\ opened' = opened \cup {Head(unread)}
          /\ flagged' = IF given = "flagged" THEN flagged \cup {Head(unread)} ELSE flagged

(* unscanned_markdown collects again, and names what is outside the scope as  *)
(* it is now. They leave the status as the findings make it.                  *)
Report ==
  /\ UNCHANGED <<skill, unread, opened, flagged>>
  /\ scanning = "read" /\ unread = <<>>
  /\ IF Refused
     THEN End("2") /\ UNCHANGED unscanned
     ELSE /\ unscanned' = WalkMarkdown(Files) \ Scope
          /\ End(IF flagged # {} THEN "1" ELSE "0")

Next ==
  \/ \E file \in Files, kind \in Kinds : Edit(file, kind)
  \/ \E kind \in {"directory", "link", "absent"} : EditFolder(kind)
  \/ Collect \/ Look \/ Report
  \/ \E given \in {"clean", "flagged", "unreadable"} : Read(given)

Spec == Init /\ [][Next]_vars
-----------------------------------------------------------------------------
(* A scan that passes has opened every Markdown file of the skill that nobody *)
(* changed while it ran, and found it clean, or it has named the file as one  *)
(* it did not scan; a scan with findings names each of them truly.            *)
PassedMeansScanned ==
  /\ status = "0" =>
       \A file \in WalkMarkdown(Files) \cap settled :
         (file \in opened /\ Is(file) = "clean") \/ file \in unscanned
  /\ \A file \in opened \cap settled : file \in flagged <=> Is(file) = "flagged"
  /\ opened \cap unscanned \subseteq Files \ settled
=============================================================================
