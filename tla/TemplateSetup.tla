---------------------------- MODULE TemplateSetup ----------------------------
(* How a checkout of the template becomes an application: bin/configure       *)
(* renames its files and records the choice of a name, bin/setup and bin/dev  *)
(* make the local secrets, bin/setup the databases.  Any of them may be       *)
(* stopped between two steps, and so may a write between its truncation and   *)
(* its end; between two runs the user edits, commits, restores and cleans.    *)
(* One bin/configure runs at a time, and during it the user leaves the        *)
(* checkout alone; bin/setup and bin/dev run in terminals of their own.       *)
EXTENDS Naturals, Sequences, FiniteSets

CONSTANTS
  Files,       \* tracked files that mention the application's name
  Database,    \* config/database.yml, one of them
  Choices,     \* pairs of a name and an Android id
  Template,    \* the template's own such pair
  Paths,
  Path,        \* Path[f][c]: where f is under the choice c
  Ignored,     \* paths .gitignore covers
  Own,         \* a file of the user's
  Absent,
  Torn,        \* truncated, or written in part
  Secrets,     \* of health, AnyCable and imgproxy
  SecretsOf,   \* the order in which a script makes them
  Terminals,
  Empty,       \* a secrets file created and not written
  MaxWork      \* how often the user edits or creates a file

ASSUME TemplateAssumption ==
  /\ Database \in Files /\ Own \notin Files
  /\ Template \notin Choices /\ Torn \notin Choices \cup {Template}
  /\ Ignored \subseteq Paths /\ MaxWork \in Nat
  /\ Path \in [Files -> [Choices \cup {Template} -> Paths]]
  /\ \A f, g \in Files : Path[f][Template] = Path[g][Template] => f = g
  /\ \A f \in Files : Path[f][Template] \notin Ignored
  /\ \A c \in Choices : Path[Database][c] = Path[Database][Template]
  /\ SecretsOf \in [{"setup", "dev"} -> Seq(Secrets)]
  /\ \A s \in Secrets, script \in {"setup", "dev"} :
       \E i \in 1..Len(SecretsOf[script]) : SecretsOf[script][i] = s
  /\ Secrets # {}
  /\ Empty \notin Terminals /\ Absent \notin Terminals \cup {Empty}

Names == Choices \cup {Template}
Contents == [file : Files \cup {Own}, text : Names \cup {Torn}, edited : BOOLEAN]

ASSUME ContentsAssumption == Absent \notin Contents

VARIABLES
  tree,        \* what the checkout holds at a path
  record,      \* config/template.json: the choice recorded, Template if none
  head,        \* the last commit
  configure,   \* the run of bin/configure
  local,       \* config/*.local.yml: a secret is named by who wrote it
  used,        \* the secrets the services have read
  terminal,    \* the run of bin/setup or bin/dev in a terminal
  databases,   \* the names the databases were prepared under
  work         \* how often the user edited or created a file

vars == <<tree, record, head, configure, local, used, terminal, databases, work>>

Idle == [at |-> "idle", choice |-> Template, todo |-> {}]
Rested == [at |-> "idle", script |-> "dev", left |-> <<>>]

At(p, f, c) == tree[p] # Absent /\ tree[p].file = f /\ tree[p].text = c

(* The template, and files of the user's where an ignore rule covers them.    *)
Original(f) == [file |-> f, text |-> Template, edited |-> FALSE]

Cloned(own) ==
  [p \in Paths |->
    CASE \E f \in Files : Path[f][Template] = p ->
           Original(CHOOSE f \in Files : Path[f][Template] = p)
      [] p \in own -> Original(Own)
      [] OTHER -> Absent]

Init ==
  /\ \E own \in SUBSET Ignored : tree = Cloned(own)
  /\ record = Template
  /\ head = [tree |-> Cloned({}), record |-> Template]
  /\ configure = Idle
  /\ local = [s \in Secrets |-> Absent]
  /\ used = [s \in Secrets |-> {}]
  /\ terminal = [t \in Terminals |-> Rested]
  /\ databases = {}
  /\ work = 0

Scripts == <<local, used, terminal, databases>>
Checkout == <<tree, record, head, configure>>

------------------------------------------------------------------------------
(* bin/configure                                                              *)

(* Mutants: without one of the checks.                                        *)
CleanUnchecked == TRUE
LocalUnchecked == TRUE

(* template.json parses and says that nothing is configured.                  *)
Unconfigured == record = Template

(* git status --porcelain is empty: it does not see what is ignored.          *)
CleanTree ==
  /\ record = head.record
  /\ \A p \in Paths \ Ignored : tree[p] = head.tree[p]

(* No secrets: neither bin/setup, bin/dev nor Rails was run.                  *)
NothingLocal == \A s \in Secrets : local[s] = Absent

(* No destination exists, ignored or not, and no two are the same.            *)
DestinationsFree(c) ==
  /\ \A f \in Files : Path[f][c] # Path[f][record] => tree[Path[f][c]] = Absent
  /\ \A f, g \in Files : Path[f][c] = Path[g][c] => f = g

(* The files git ls-files lists under the current names.                      *)
Present ==
  {f \in Files : tree[Path[f][record]] # Absent /\ tree[Path[f][record]].file = f}

(* All the checks of a run that is not a dry one, and what it is to change.   *)
(* A run that one of them ends, and one that repeats the recorded choice,     *)
(* changes nothing.                                                           *)
Start(c) ==
  /\ configure.at = "idle"
  /\ Unconfigured /\ NothingLocal /\ CleanTree /\ DestinationsFree(c)
  /\ configure' = [at |-> "change", choice |-> c, todo |-> Present]
  /\ UNCHANGED <<tree, record, head, work, Scripts>>

(* The tree once f is at its destination with the given text.                 *)
Moved(f, text) ==
  [tree EXCEPT ![Path[f][record]] = Absent,
               ![Path[f][configure.choice]] =
                 [tree[Path[f][record]] EXCEPT !.text = text]]

(* One round of changes.each: mkdir_p, rename, binwrite.                      *)
Change(f) ==
  /\ configure.at = "change" /\ f \in configure.todo
  /\ tree' = Moved(f, configure.choice)
  /\ configure' = [configure EXCEPT !.todo = @ \ {f}]
  /\ UNCHANGED <<record, head, work, Scripts>>

(* Mutant: recorded before the last file was changed.                         *)
RefreshEarly ==
  /\ configure.at = "change" /\ Cardinality(configure.todo) <= 1
  /\ configure' = [configure EXCEPT !.at = "record", !.todo = {}]
  /\ UNCHANGED <<tree, record, head, work, Scripts>>

(* The refreshed design contracts pass; a run in which they do not stops.     *)
Refresh ==
  /\ configure.at = "change" /\ configure.todo = {}
  /\ configure' = [configure EXCEPT !.at = "record"]
  /\ UNCHANGED <<tree, record, head, work, Scripts>>

Record ==
  /\ configure.at = "record"
  /\ record' = configure.choice
  /\ configure' = Idle
  /\ UNCHANGED <<tree, head, work, Scripts>>

(* A run is stopped: between two changes, after a rename, inside a write, by  *)
(* the checks of the design, inside the write of template.json.               *)
Interrupt ==
  /\ configure.at # "idle"
  /\ configure' = Idle
  /\ \/ UNCHANGED <<tree, record>>
     \/ /\ \E f \in configure.todo, text \in {record, Torn} : tree' = Moved(f, text)
        /\ UNCHANGED record
     \/ /\ configure.at = "record" /\ record' = Torn
        /\ UNCHANGED tree
  /\ UNCHANGED <<head, work, Scripts>>

------------------------------------------------------------------------------
(* The user, between two runs of bin/configure                                *)

Edit(p) ==
  /\ configure.at = "idle" /\ work < MaxWork
  /\ tree[p] # Absent /\ ~tree[p].edited
  /\ tree' = [tree EXCEPT ![p].edited = TRUE]
  /\ work' = work + 1
  /\ UNCHANGED <<record, head, configure, Scripts>>

CreateFile(p) ==
  /\ configure.at = "idle" /\ work < MaxWork /\ tree[p] = Absent
  /\ tree' = [tree EXCEPT ![p] = [Original(Own) EXCEPT !.edited = TRUE]]
  /\ work' = work + 1
  /\ UNCHANGED <<record, head, configure, Scripts>>

(* What bin/configure changes of a path's contents.                           *)
Renaming(contents) ==
  IF contents # Absent /\ contents.file \in Files
    THEN [contents EXCEPT !.edited = FALSE] ELSE Absent

(* git add . and git commit: of the user's own work, or of a configuration    *)
(* that reported "Done"; what an interrupted run left is not committed.       *)
Commit ==
  /\ configure.at = "idle"
  /\ \/ record \in Choices
     \/ /\ record = head.record
        /\ \A p \in Paths \ Ignored : Renaming(tree[p]) = Renaming(head.tree[p])
  /\ head' = [tree |-> [p \in Paths |-> IF p \in Ignored THEN Absent ELSE tree[p]],
              record |-> record]
  /\ UNCHANGED <<tree, record, configure, work, Scripts>>

(* git restore . leaves untracked files, and is not run under bin/setup.      *)
Restore ==
  /\ configure.at = "idle"
  /\ \A t \in Terminals : terminal[t].at # "idle" => terminal[t].script # "setup"
  /\ tree' = [p \in Paths |-> IF head.tree[p] # Absent THEN head.tree[p] ELSE tree[p]]
  /\ record' = head.record
  /\ UNCHANGED <<head, configure, work, Scripts>>

(* git clean after git restore: untracked files go, ignored ones stay.        *)
Clean ==
  /\ configure.at = "idle" /\ record = head.record
  /\ \A p \in Paths : head.tree[p] # Absent => tree[p] = head.tree[p]
  /\ tree' = [p \in Paths |-> IF p \in Ignored THEN tree[p] ELSE head.tree[p]]
  /\ UNCHANGED <<record, head, configure, work, Scripts>>

------------------------------------------------------------------------------
(* bin/setup and bin/dev                                                      *)

Running(t, at) == terminal[t].at = at

(* Only bin/setup asks whether the checkout is configured.                    *)
Begin(t, script) ==
  /\ Running(t, "idle")
  /\ script = "setup" => record \in Choices
  /\ terminal' = [terminal EXCEPT ![t] =
                   [at |-> "look", script |-> script, left |-> SecretsOf[script]]]
  /\ UNCHANGED <<Checkout, local, used, databases, work>>

(* File.exist? of the next secret.                                            *)
Look(t) ==
  /\ Running(t, "look") /\ terminal[t].left # <<>>
  /\ IF local[Head(terminal[t].left)] # Absent
       THEN terminal' = [terminal EXCEPT ![t].left = Tail(@)]
       ELSE terminal' = [terminal EXCEPT ![t].at = "create"]
  /\ UNCHANGED <<Checkout, local, used, databases, work>>

(* Mutant: File.write, which creates the file or truncates it.                *)
CreateOrTruncate(t) ==
  /\ Running(t, "create")
  /\ local' = [local EXCEPT ![Head(terminal[t].left)] = Empty]
  /\ terminal' = [terminal EXCEPT ![t].at = "write"]
  /\ UNCHANGED <<Checkout, used, databases, work>>

(* File.open with CREAT and EXCL: who comes second is stopped by EEXIST.      *)
Create(t) ==
  /\ Running(t, "create")
  /\ IF local[Head(terminal[t].left)] = Absent
       THEN /\ local' = [local EXCEPT ![Head(terminal[t].left)] = Empty]
            /\ terminal' = [terminal EXCEPT ![t].at = "write"]
       ELSE /\ terminal' = [terminal EXCEPT ![t] = Rested]
            /\ UNCHANGED local
  /\ UNCHANGED <<Checkout, used, databases, work>>

Write(t) ==
  /\ Running(t, "write")
  /\ local' = [local EXCEPT ![Head(terminal[t].left)] = t]
  /\ terminal' = [terminal EXCEPT ![t].at = "look", ![t].left = Tail(@)]
  /\ UNCHANGED <<Checkout, used, databases, work>>

(* db:prepare under the name config/database.yml gives, then bin/dev or,      *)
(* with --skip-server, the end.                                               *)
Prepare(t) ==
  /\ Running(t, "look") /\ terminal[t].script = "setup" /\ terminal[t].left = <<>>
  /\ databases' = databases \cup {tree[Path[Database][Template]].text}
  /\ \/ terminal' = [terminal EXCEPT ![t] = Rested]
     \/ terminal' = [terminal EXCEPT ![t].script = "dev", ![t].left = SecretsOf["dev"]]
  /\ UNCHANGED <<Checkout, local, used, work>>

(* overmind starts the processes of Procfile.dev.                             *)
Serve(t) ==
  /\ Running(t, "look") /\ terminal[t].script = "dev" /\ terminal[t].left = <<>>
  /\ terminal' = [terminal EXCEPT ![t] = Rested]
  /\ UNCHANGED <<Checkout, local, used, databases, work>>

(* Rails, bin/cable start or bin/images start reads a secret, at any time: an *)
(* absent or an empty file stops it.                                          *)
Read(s) ==
  /\ local[s] \in Terminals
  /\ used' = [used EXCEPT ![s] = @ \cup {local[s]}]
  /\ UNCHANGED <<Checkout, local, terminal, databases, work>>

(* The user, a failed command or a crash ends the script.                     *)
Stop(t) ==
  /\ ~Running(t, "idle")
  /\ terminal' = [terminal EXCEPT ![t] = Rested]
  /\ UNCHANGED <<Checkout, local, used, databases, work>>

------------------------------------------------------------------------------
ConfigureStep ==
  \/ \E c \in Choices : Start(c)
  \/ \E f \in Files : Change(f)
  \/ Refresh \/ Record \/ Interrupt

UserStep ==
  \/ \E p \in Paths : Edit(p) \/ CreateFile(p)
  \/ Commit \/ Restore \/ Clean

TerminalStep(t) ==
  \/ \E script \in {"setup", "dev"} : Begin(t, script)
  \/ Look(t) \/ Create(t) \/ Write(t) \/ Prepare(t) \/ Serve(t) \/ Stop(t)

Next ==
  \/ ConfigureStep \/ UserStep
  \/ \E t \in Terminals : TerminalStep(t)
  \/ \E s \in Secrets : Read(s)

Spec == Init /\ [][Next]_vars

------------------------------------------------------------------------------
(* A checkout that is recorded as configured is so throughout, however many   *)
(* runs were interrupted before: every file is at its place under the         *)
(* recorded choice, and no tracked one still has the template's name.         *)
ConfiguredIsComplete ==
  record \in Choices =>
    /\ \A f \in Files : At(Path[f][record], f, record)
    /\ \A p \in Paths \ Ignored : \A f \in Files :
         ~At(p, f, Template) /\ ~At(p, f, Torn)

(* bin/configure overwrites and moves nothing that was not committed.         *)
Uncommitted(p) ==
  /\ tree[p] # Absent /\ tree[p] # head.tree[p]
  /\ tree[p].file = Own \/ tree[p].edited

WorkIsKept ==
  [][configure' # configure => \A p \in Paths : Uncommitted(p) => tree'[p] = tree[p]]_vars

(* The services that have read a secret have read the one now in its file,    *)
(* though several scripts make the secrets at once.                           *)
SecretsAgree == \A s \in Secrets : used[s] \subseteq {local[s]}

(* Databases are prepared under one name: a setup whose configuration was     *)
(* undone leaves its secrets, and they keep bin/configure from another.       *)
OneDatabaseName ==
  /\ databases \subseteq Choices
  /\ \A a, b \in databases : a = b
=============================================================================
