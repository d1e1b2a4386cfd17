------------------------ MODULE TemplateSetupProofs ------------------------
(***************************************************************************)
(* Proofs about TemplateSetup, for any set of tracked files, any choices   *)
(* of names and any number of terminals: a checkout recorded as configured *)
(* is complete, bin/configure destroys nothing that was not committed, the *)
(* services agree on each secret, and the databases have one name.         *)
(***************************************************************************)
EXTENDS TemplateSetup, SequenceTheorems, TLAPS

TypeOK ==
  /\ tree \in [Paths -> Contents \cup {Absent}]
  /\ record \in Names \cup {Torn}
  /\ head \in [tree : [Paths -> Contents \cup {Absent}], record : Names]
  /\ configure \in [at : {"idle", "change", "record"}, choice : Names, todo : SUBSET Files]
  /\ local \in [Secrets -> Terminals \cup {Empty, Absent}]
  /\ used \in [Secrets -> SUBSET Terminals]
  /\ terminal \in [Terminals -> [at     : {"idle", "look", "create", "write"},
                                 script : {"setup", "dev"},
                                 left   : Seq(Secrets)]]
  /\ databases \subseteq Names \cup {Torn}
  /\ work \in 0 .. MaxWork

-----------------------------------------------------------------------------
(* The inductive invariant: bin/configure and the user.                    *)

HeadAt(p, f, c) ==
  head.tree[p] # Absent /\ head.tree[p].file = f /\ head.tree[p].text = c

\* The last commit is the template with the user's own work, or a configured
\* checkout which nothing but that configuration can have led to.
HeadIsTemplate ==
  head.record = Template =>
    /\ \A f \in Files : HeadAt(Path[f][Template], f, Template)
    /\ \A p \in Paths \ Ignored : head.tree[p] # Absent /\ head.tree[p].file \in Files =>
         \E f \in Files : p = Path[f][Template]

HeadIsConfigured ==
  head.record \in Choices =>
    /\ record = head.record
    /\ \A f \in Files : Path[f][record] \notin Ignored => HeadAt(Path[f][record], f, record)
    /\ \A p \in Paths, f \in Files : ~HeadAt(p, f, Template) /\ ~HeadAt(p, f, Torn)

HeadIsTracked == \A p \in Ignored : head.tree[p] = Absent

\* A run of bin/configure started from the template.
RunIsOfTemplate ==
  configure.at # "idle" =>
    /\ record = Template /\ configure.choice \in Choices
    /\ configure.at = "record" => configure.todo = {}
    /\ \A f, g \in Files : Path[f][configure.choice] = Path[g][configure.choice] => f = g

\* Halfway through it, the files to do are as committed, with their destinations
\* free; the others are done, and no tracked path holds anything else.
RunIsHalfway ==
  configure.at # "idle" =>
    LET c == configure.choice IN
    /\ \A f \in configure.todo :
         /\ At(Path[f][Template], f, Template)
         /\ tree[Path[f][Template]] = head.tree[Path[f][Template]]
         /\ Path[f][c] # Path[f][Template] => tree[Path[f][c]] = Absent
    /\ \A f \in Files \ configure.todo : At(Path[f][c], f, c)
    /\ \A p \in Paths \ Ignored : tree[p] # Absent /\ tree[p].file \in Files =>
         \/ \E f \in configure.todo : p = Path[f][Template]
         \/ \E f \in Files \ configure.todo : p = Path[f][c]

CheckoutInv ==
  /\ HeadIsTemplate /\ HeadIsConfigured /\ HeadIsTracked
  /\ RunIsOfTemplate /\ RunIsHalfway /\ ConfiguredIsComplete

-----------------------------------------------------------------------------
(* The inductive invariant: bin/setup and bin/dev.                         *)

\* Two scripts never write the same secret, and write only what is empty.
WritersAreAlone ==
  \A t \in Terminals :
    /\ terminal[t].at \in {"create", "write"} => terminal[t].left # <<>>
    /\ terminal[t].at = "write" =>
         /\ local[Head(terminal[t].left)] = Empty
         /\ \A u \in Terminals :
              /\ terminal[u].at = "write"
              /\ Head(terminal[u].left) = Head(terminal[t].left)
              => u = t

SecretsInv == WritersAreAlone /\ SecretsAgree

Holds(q, s) == \E i \in 1 .. Len(q) : q[i] = s

\* What a script has passed exists.
PassedSecretsExist ==
  \A t \in Terminals : terminal[t].at # "idle" =>
    \A s \in Secrets :
      local[s] # Absent \/ Holds(terminal[t].left, s)

\* bin/setup runs in a configured checkout only.
SetupIsConfigured ==
  \A t \in Terminals : terminal[t].at # "idle" /\ terminal[t].script = "setup" =>
    record \in Choices

\* Once there is a database, its name is the only one a checkout can take.
DatabasesBind ==
  databases # {} =>
    /\ configure.at = "idle" /\ ~NothingLocal
    /\ \E c \in Choices :
         databases = {c} /\ record \in {c, Template} /\ head.record \in {c, Template}

DatabasesInv == PassedSecretsExist /\ SetupIsConfigured /\ DatabasesBind

-----------------------------------------------------------------------------
(* Types.                                                                  *)

Place == [tree : [Paths -> Contents \cup {Absent}], record : Names]
Run == [at : {"idle", "change", "record"}, choice : Names, todo : SUBSET Files]
Script == [at     : {"idle", "look", "create", "write"},
           script : {"setup", "dev"},
           left   : Seq(Secrets)]

LEMMA PathIsTyped == \A f \in Files, c \in Names : Path[f][c] \in Paths
  <1>1. Path \in [Files -> [Choices \cup {Template} -> Paths]]
    BY TemplateAssumption DEF TemplateAssumption
  <1> QED
    BY <1>1 DEF Names

\* The template's own files are tracked, each at a path of its own.
LEMMA TemplatePaths ==
  /\ \A f, g \in Files : Path[f][Template] = Path[g][Template] => f = g
  /\ \A f \in Files : Path[f][Template] \notin Ignored
  /\ Ignored \subseteq Paths
  /\ Template \notin Choices /\ Torn \notin Names /\ Own \notin Files
  BY TemplateAssumption DEF TemplateAssumption, Names

LEMMA WorkIsBounded == MaxWork \in Nat
  BY TemplateAssumption DEF TemplateAssumption

LEMMA ScriptsAreTyped ==
  /\ SecretsOf["dev"] \in Seq(Secrets)
  /\ SecretsOf["setup"] \in Seq(Secrets)
  BY TemplateAssumption DEF TemplateAssumption

LEMMA OriginalIsTyped == \A f \in Files \cup {Own} : Original(f) \in Contents
  BY DEF Original, Contents, Names

LEMMA ClonedIsTyped == \A own : Cloned(own) \in [Paths -> Contents \cup {Absent}]
  <1> SUFFICES ASSUME NEW own, NEW p \in Paths PROVE Cloned(own)[p] \in Contents \cup {Absent}
    BY DEF Cloned
  <1>1. CASE \E f \in Files : Path[f][Template] = p
    <2>1. (CHOOSE f \in Files : Path[f][Template] = p) \in Files
      BY <1>1
    <2> QED
      BY <1>1, <2>1, OriginalIsTyped DEF Cloned
  <1>2. CASE ~(\E f \in Files : Path[f][Template] = p) /\ p \in own
    BY <1>2, OriginalIsTyped DEF Cloned
  <1>3. CASE ~(\E f \in Files : Path[f][Template] = p) /\ p \notin own
    BY <1>3 DEF Cloned
  <1> QED
    BY <1>1, <1>2, <1>3

LEMMA TypeInit == Init => TypeOK
  <1> SUFFICES ASSUME Init PROVE TypeOK
    OBVIOUS
  <1>1. tree \in [Paths -> Contents \cup {Absent}]
    BY ClonedIsTyped DEF Init
  <1>2. head \in Place
    BY ClonedIsTyped DEF Init, Place, Names
  <1>3. configure \in Run
    BY DEF Init, Idle, Run, Names
  <1>4. terminal \in [Terminals -> Script]
    <2>1. Rested \in Script
      BY DEF Rested, Script
    <2> QED
      BY <2>1 DEF Init
  <1>5. work \in 0 .. MaxWork
    BY WorkIsBounded DEF Init
  <1> QED
    BY <1>1, <1>2, <1>3, <1>4, <1>5 DEF Init, TypeOK, Place, Run, Script, Names

\* What a step of bin/configure does to the tree keeps its type.
LEMMA MovedIsTyped ==
  ASSUME TypeOK, configure.at # "idle", record \in Names, NEW f \in configure.todo,
         NEW text \in Names \cup {Torn}, tree[Path[f][record]] # Absent
  PROVE  Moved(f, text) \in [Paths -> Contents \cup {Absent}]
  <1>1. f \in Files /\ configure.choice \in Names
    BY DEF TypeOK
  <1>2. Path[f][record] \in Paths /\ Path[f][configure.choice] \in Paths
    BY <1>1, PathIsTyped
  <1>3. tree[Path[f][record]] \in Contents
    BY <1>2 DEF TypeOK
  <1>4. [tree[Path[f][record]] EXCEPT !.text = text] \in Contents
    BY <1>3 DEF Contents
  <1> QED
    BY <1>2, <1>4 DEF Moved, TypeOK

\* config/database.yml, which keeps its path, has the recorded name.
LEMMA DatabaseIsRecorded ==
  ASSUME CheckoutInv, SetupIsConfigured, NEW t \in Terminals,
         terminal[t].at = "look", terminal[t].script = "setup"
  PROVE  record \in Choices /\ tree[Path[Database][Template]].text = record
  <1>1. Database \in Files /\ \A c \in Choices : Path[Database][c] = Path[Database][Template]
    BY TemplateAssumption DEF TemplateAssumption
  <1>2. record \in Choices
    BY DEF SetupIsConfigured
  <1> QED
    BY <1>1, <1>2 DEF CheckoutInv, ConfiguredIsComplete, At

LEMMA TypeStep ==
  TypeOK /\ CheckoutInv /\ WritersAreAlone /\ SetupIsConfigured /\ [Next]_vars => TypeOK'
  <1> SUFFICES ASSUME TypeOK, CheckoutInv, WritersAreAlone, SetupIsConfigured, [Next]_vars
               PROVE  TypeOK'
    OBVIOUS
  <1>1. CASE ConfigureStep
    <2>1. ASSUME NEW f \in configure.todo, NEW text \in Names \cup {Torn}, configure.at # "idle"
          PROVE  Moved(f, text) \in [Paths -> Contents \cup {Absent}]
      BY <2>1, MovedIsTyped DEF CheckoutInv, RunIsOfTemplate, RunIsHalfway, At, Names
    <2>2. ASSUME NEW c \in Choices, Start(c) PROVE TypeOK'
      BY <2>2 DEF Start, TypeOK, Scripts, Present, Names
    <2>3. ASSUME NEW f \in Files, Change(f) PROVE TypeOK'
      <3>1. tree' \in [Paths -> Contents \cup {Absent}]
        BY <2>1, <2>3 DEF Change, TypeOK
      <3>2. configure' \in Run
        BY <2>3 DEF Change, TypeOK, Run
      <3> QED
        BY <2>3, <3>1, <3>2 DEF Change, TypeOK, Scripts, Run
    <2>4. CASE Refresh \/ Record
      <3>1. configure' \in Run
        BY <2>4 DEF Refresh, Record, TypeOK, Run, Idle, Names
      <3>2. record' \in Names \cup {Torn}
        BY <2>4 DEF Refresh, Record, TypeOK
      <3> QED
        BY <2>4, <3>1, <3>2 DEF Refresh, Record, TypeOK, Scripts, Run
    <2>5. CASE Interrupt
      <3>1. tree' \in [Paths -> Contents \cup {Absent}]
        BY <2>1, <2>5 DEF Interrupt, TypeOK
      <3>2. configure' \in Run
        BY <2>5 DEF Interrupt, Idle, Run, Names
      <3> QED
        BY <2>5, <3>1, <3>2 DEF Interrupt, TypeOK, Scripts, Run
    <2> QED
      BY <1>1, <2>2, <2>3, <2>4, <2>5 DEF ConfigureStep
  <1>2. CASE UserStep
    <2>1. ASSUME NEW p \in Paths, Edit(p) PROVE TypeOK'
      <3>a. tree[p] \in Contents
        BY <2>1 DEF Edit, TypeOK
      <3>1. [tree[p] EXCEPT !.edited = TRUE] \in Contents
        BY <3>a DEF Contents
      <3>2. tree' \in [Paths -> Contents \cup {Absent}]
        BY <2>1, <3>1 DEF Edit, TypeOK
      <3>3. work' \in 0 .. MaxWork
        BY <2>1, WorkIsBounded DEF Edit, TypeOK
      <3> QED
        BY <2>1, <3>2, <3>3 DEF Edit, TypeOK, Scripts
    <2>2. ASSUME NEW p \in Paths, CreateFile(p) PROVE TypeOK'
      <3>1. [Original(Own) EXCEPT !.edited = TRUE] \in Contents
        BY DEF Original, Contents, Names
      <3>2. tree' \in [Paths -> Contents \cup {Absent}]
        BY <2>2, <3>1 DEF CreateFile, TypeOK
      <3>3. work' \in 0 .. MaxWork
        BY <2>2, WorkIsBounded DEF CreateFile, TypeOK
      <3> QED
        BY <2>2, <3>2, <3>3 DEF CreateFile, TypeOK, Scripts
    <2>3. CASE Commit
      <3>1. record \in Names
        BY <2>3 DEF Commit, TypeOK, Names
      <3>2. head' \in Place
        BY <2>3, <3>1 DEF Commit, TypeOK, Place
      <3> QED
        BY <2>3, <3>2 DEF Commit, TypeOK, Place, Scripts
    <2>4. CASE Restore \/ Clean
      BY <2>4 DEF Restore, Clean, TypeOK, Scripts
    <2> QED
      BY <1>2, <2>1, <2>2, <2>3, <2>4 DEF UserStep
  <1>3. ASSUME NEW t \in Terminals, TerminalStep(t) PROVE TypeOK'
    <2>1. Rested \in Script
      BY DEF Rested, Script
    <2>2. terminal[t] \in Script
      BY DEF TypeOK, Script
    <2>3. ASSUME NEW s \in Script, terminal' = [terminal EXCEPT ![t] = s]
          PROVE  terminal' \in [Terminals -> Script]
      BY <2>3 DEF TypeOK, Script
    <2>4. ASSUME terminal[t].left # <<>>
          PROVE  Head(terminal[t].left) \in Secrets /\ Tail(terminal[t].left) \in Seq(Secrets)
      BY <2>2, <2>4 DEF Script
    <2>5. CASE \E script \in {"setup", "dev"} : Begin(t, script)
      <3>1. PICK script \in {"setup", "dev"} : Begin(t, script)
        BY <2>5
      <3>2. [at |-> "look", script |-> script, left |-> SecretsOf[script]] \in Script
        BY ScriptsAreTyped DEF Script
      <3> QED
        BY <2>3, <3>1, <3>2 DEF Begin, TypeOK, Script, Checkout
    <2>6. CASE Look(t)
      <3>1. /\ [terminal[t] EXCEPT !.left = Tail(@)] \in Script
            /\ [terminal[t] EXCEPT !.at = "create"] \in Script
        BY <2>2, <2>4, <2>6 DEF Look, Script
      <3>2. terminal' \in [Terminals -> Script]
        BY <2>3, <2>6, <3>1 DEF Look, TypeOK, Script
      <3> QED
        BY <2>6, <3>2 DEF Look, TypeOK, Script, Checkout
    <2>7. CASE Create(t)
      <3>1. [terminal[t] EXCEPT !.at = "write"] \in Script
        BY <2>2 DEF Script
      <3>2. terminal' \in [Terminals -> Script]
        BY <2>1, <2>3, <2>7, <3>1 DEF Create, TypeOK, Script
      <3>3. local' \in [Secrets -> Terminals \cup {Empty, Absent}]
        BY <2>7 DEF Create, TypeOK
      <3> QED
        BY <2>7, <3>2, <3>3 DEF Create, TypeOK, Script, Checkout
    <2>8. CASE Write(t)
      <3>1. [terminal[t] EXCEPT !.at = "look", !.left = Tail(@)] \in Script
        BY <2>2, <2>4, <2>8 DEF Write, Running, WritersAreAlone, Script
      <3>2. terminal' = [terminal EXCEPT ![t] = [terminal[t] EXCEPT !.at = "look", !.left = Tail(@)]]
        BY <2>2, <2>8 DEF Write, TypeOK, Script
      <3>3. terminal' \in [Terminals -> Script]
        BY <2>3, <3>1, <3>2
      <3>4. local' \in [Secrets -> Terminals \cup {Empty, Absent}]
        BY <2>8 DEF Write, TypeOK
      <3> QED
        BY <2>8, <3>3, <3>4 DEF Write, TypeOK, Script, Checkout
    <2>9. CASE Prepare(t)
      <3>1. [terminal[t] EXCEPT !.script = "dev", !.left = SecretsOf["dev"]] \in Script
        BY <2>2, ScriptsAreTyped DEF Script
      <3>2. terminal' \in [Terminals -> Script]
        BY <2>1, <2>3, <2>9, <3>1 DEF Prepare, TypeOK, Script
      <3>3. tree[Path[Database][Template]].text \in Names \cup {Torn}
        BY <2>9, DatabaseIsRecorded DEF Prepare, Running, TypeOK
      <3> QED
        BY <2>9, <3>2, <3>3 DEF Prepare, TypeOK, Script, Checkout
    <2>10. CASE Serve(t) \/ Stop(t)
      <3>1. terminal' \in [Terminals -> Script]
        BY <2>1, <2>3, <2>10 DEF Serve, Stop
      <3> QED
        BY <2>10, <3>1 DEF Serve, Stop, TypeOK, Script, Checkout
    <2> QED
      BY <1>3, <2>5, <2>6, <2>7, <2>8, <2>9, <2>10 DEF TerminalStep
  <1>4. ASSUME NEW s \in Secrets, Read(s) PROVE TypeOK'
    BY <1>4 DEF Read, TypeOK, Checkout
  <1>5. CASE UNCHANGED vars
    BY <1>5 DEF vars, TypeOK
  <1> QED
    BY <1>1, <1>2, <1>3, <1>4, <1>5 DEF Next

-----------------------------------------------------------------------------
(* Secrets.                                                                *)

\* Neither a secret that is not made nor an empty one is anybody's.
LEMMA NoTerminal == Empty \notin Terminals /\ Absent \notin Terminals /\ Empty # Absent
  BY TemplateAssumption DEF TemplateAssumption

LEMMA SecretsInit == Init => SecretsInv
  BY DEF Init, SecretsInv, WritersAreAlone, SecretsAgree, Rested

LEMMA SecretsStep == TypeOK /\ SecretsInv /\ [Next]_vars => SecretsInv'
  <1> SUFFICES ASSUME TypeOK, SecretsInv, [Next]_vars PROVE SecretsInv'
    OBVIOUS
  <1> USE DEF SecretsInv, WritersAreAlone, SecretsAgree
  <1>1. CASE UNCHANGED <<local, used, terminal>>
    BY <1>1
  <1>2. CASE ConfigureStep \/ UserStep
    BY <1>1, <1>2 DEF ConfigureStep, UserStep, Start, Change, Refresh, Record, Interrupt, Edit,
      CreateFile, Commit, Restore, Clean, Scripts
  <1>3. ASSUME NEW t \in Terminals, TerminalStep(t) PROVE SecretsInv'
    <2>1. ASSUME UNCHANGED <<local, used>>, NEW run, run.at \notin {"create", "write"},
                 terminal' = [terminal EXCEPT ![t] = run]
          PROVE  SecretsInv'
      BY <2>1 DEF TypeOK
    <2>2. CASE \/ \E script \in {"setup", "dev"} : Begin(t, script)
               \/ Prepare(t) \/ Serve(t) \/ Stop(t)
      <3>1. \E run : run.at \notin {"create", "write"} /\ terminal' = [terminal EXCEPT ![t] = run]
        BY <2>2 DEF Begin, Prepare, Serve, Stop, Rested, Running, TypeOK
      <3> QED
        BY <2>1, <2>2, <3>1 DEF Begin, Prepare, Serve, Stop, Checkout
    <2>3. CASE Look(t)
      <3>1. \A u \in Terminals \ {t} : terminal'[u] = terminal[u]
        BY <2>3 DEF Look, TypeOK
      <3>2. /\ terminal'[t].at \in {"look", "create"}
            /\ terminal'[t].at = "create" => terminal'[t].left # <<>>
        BY <2>3 DEF Look, Running, TypeOK
      <3>3. UNCHANGED <<local, used>>
        BY <2>3 DEF Look
      <3> QED
        BY <3>1, <3>2, <3>3
    <2>4. CASE Create(t)
      <3> DEFINE s == Head(terminal[t].left)
      <3>1. s \in Secrets
        BY <2>4 DEF Create, Running, TypeOK
      <3>2. CASE local[s] = Absent
        <4>1. /\ local' = [local EXCEPT ![s] = Empty] /\ local'[s] = Empty
              /\ terminal'[t].at = "write" /\ terminal'[t].left = terminal[t].left
              /\ \A u \in Terminals \ {t} : terminal'[u] = terminal[u]
          BY <2>4, <3>1, <3>2 DEF Create, TypeOK
        <4>2. used[s] = {}
          BY <3>1, <3>2, NoTerminal DEF TypeOK
        <4>3. \A u \in Terminals \ {t} : terminal[u].at = "write" =>
                Head(terminal[u].left) # s /\ Head(terminal[u].left) \in Secrets
          BY <3>2, NoTerminal DEF TypeOK
        <4>4. WritersAreAlone'
          <5>1. \A u \in Terminals : terminal'[u].at \in {"create", "write"} => terminal'[u].left # <<>>
            BY <2>4, <4>1 DEF Create, Running
          <5>2. \A u \in Terminals : terminal'[u].at = "write" => local'[Head(terminal'[u].left)] = Empty
            BY <4>1, <4>3 DEF TypeOK
          <5>3. \A u, v \in Terminals :
                  /\ terminal'[u].at = "write" /\ terminal'[v].at = "write"
                  /\ Head(terminal'[u].left) = Head(terminal'[v].left)
                  => u = v
            BY <4>1, <4>3
          <5> QED
            BY <5>1, <5>2, <5>3
        <4>5. SecretsAgree'
          BY <2>4, <4>1, <4>2 DEF Create, TypeOK
        <4> QED
          BY <4>4, <4>5
      <3>3. CASE local[s] # Absent
        BY <2>1, <2>4, <3>3 DEF Create, Rested
      <3> QED
        BY <3>2, <3>3
    <2>5. CASE Write(t)
      <3> DEFINE s == Head(terminal[t].left)
      <3>1. s \in Secrets /\ local[s] = Empty
        BY <2>5 DEF Write, Running, TypeOK
      <3>2. /\ local' = [local EXCEPT ![s] = t]
            /\ terminal'[t].at = "look"
            /\ \A u \in Terminals \ {t} : terminal'[u] = terminal[u]
        BY <2>5 DEF Write, TypeOK
      <3>3. used[s] = {}
        BY <3>1, NoTerminal DEF TypeOK
      <3>4. \A u \in Terminals \ {t} : terminal[u].at = "write" =>
              Head(terminal[u].left) # s /\ Head(terminal[u].left) \in Secrets
        BY <2>5 DEF Write, Running, TypeOK
      <3>5. WritersAreAlone'
        <4>1. \A u \in Terminals : terminal'[u].at \in {"create", "write"} => terminal'[u].left # <<>>
          BY <3>2
        <4>2. \A u \in Terminals : terminal'[u].at = "write" => local'[Head(terminal'[u].left)] = Empty
          BY <3>2, <3>4 DEF TypeOK
        <4>3. \A u, v \in Terminals :
                /\ terminal'[u].at = "write" /\ terminal'[v].at = "write"
                /\ Head(terminal'[u].left) = Head(terminal'[v].left)
                => u = v
          BY <3>2
        <4> QED
          BY <4>1, <4>2, <4>3
      <3>6. SecretsAgree'
        BY <2>5, <3>2, <3>3 DEF Write, TypeOK
      <3> QED
        BY <3>5, <3>6
    <2> QED
      BY <1>3, <2>2, <2>3, <2>4, <2>5 DEF TerminalStep
  <1>4. ASSUME NEW s \in Secrets, Read(s) PROVE SecretsInv'
    BY <1>4 DEF Read, TypeOK, Checkout
  <1>5. CASE UNCHANGED vars
    BY <1>1, <1>5 DEF vars
  <1> QED
    BY <1>2, <1>3, <1>4, <1>5 DEF Next

-----------------------------------------------------------------------------
(* The checkout.                                                           *)

LEMMA ClonedHolds ==
  ASSUME NEW own \in SUBSET Ignored
  PROVE  /\ \A f \in Files : Cloned(own)[Path[f][Template]] = Original(f)
         /\ \A p \in Paths : (\A f \in Files : p # Path[f][Template]) =>
              Cloned(own)[p] = IF p \in own THEN Original(Own) ELSE Absent
  <1>1. ASSUME NEW f \in Files PROVE Cloned(own)[Path[f][Template]] = Original(f)
    <2>1. Path[f][Template] \in Paths
      BY PathIsTyped DEF Names
    <2>2. (CHOOSE g \in Files : Path[g][Template] = Path[f][Template]) = f
      BY TemplatePaths
    <2>3. (\E g \in Files : Path[g][Template] = Path[f][Template]) /\ Path[f][Template] \notin own
      BY TemplatePaths
    <2> QED
      BY <2>1, <2>2, <2>3 DEF Cloned
  <1> QED
    BY <1>1 DEF Cloned

LEMMA CheckoutInit == Init => CheckoutInv
  <1> SUFFICES ASSUME Init PROVE CheckoutInv
    OBVIOUS
  <1>0. {} \in SUBSET Ignored
    OBVIOUS
  <1>1. head.tree = Cloned({}) /\ head.record = Template /\ record = Template /\ configure.at = "idle"
    BY DEF Init, Idle
  <1>2. \A f \in Files : Original(f) # Absent /\ Original(f).file = f /\ Original(f).text = Template
    BY OriginalIsTyped, ContentsAssumption DEF Original, ContentsAssumption
  <1>3. HeadIsTemplate
    BY <1>0, <1>1, <1>2, ClonedHolds DEF HeadIsTemplate, HeadAt
  <1>4. HeadIsTracked
    BY <1>0, <1>1, ClonedHolds, TemplatePaths DEF HeadIsTracked
  <1> QED
    BY <1>1, <1>3, <1>4, TemplatePaths DEF CheckoutInv, HeadIsConfigured, RunIsOfTemplate,
      RunIsHalfway, ConfiguredIsComplete

\* A start finds every file of the template where the last commit has it.
LEMMA CheckoutStart ==
  ASSUME TypeOK, CheckoutInv, NEW c \in Choices, Start(c)
  PROVE  CheckoutInv'
  <1>1. /\ configure' = [at |-> "change", choice |-> c, todo |-> Present]
        /\ UNCHANGED <<tree, record, head>>
        /\ record = Template /\ head.record = Template
    BY DEF Start, Unconfigured, CleanTree
  <1>2. \A p \in Paths \ Ignored : tree[p] = head.tree[p]
    BY DEF Start, CleanTree
  <1>3. ASSUME NEW f \in Files
        PROVE  At(Path[f][Template], f, Template) /\ tree[Path[f][Template]] = head.tree[Path[f][Template]]
    <2>1. Path[f][Template] \in Paths \ Ignored
      BY PathIsTyped, TemplatePaths DEF Names
    <2> QED
      BY <1>1, <1>2, <2>1 DEF CheckoutInv, HeadIsTemplate, HeadAt, At
  <1>4. Present = Files
    BY <1>1, <1>3 DEF Present, At
  <1>5. RunIsOfTemplate'
    BY <1>1 DEF Start, RunIsOfTemplate, DestinationsFree
  <1>6. RunIsHalfway'
    <2>1. \A p \in Paths \ Ignored : tree[p] # Absent /\ tree[p].file \in Files =>
            \E f \in Files : p = Path[f][Template]
      BY <1>1, <1>2 DEF CheckoutInv, HeadIsTemplate
    <2>2. \A f \in Files : Path[f][c] # Path[f][Template] => tree[Path[f][c]] = Absent
      BY <1>1 DEF Start, DestinationsFree
    <2> QED
      BY <1>1, <1>3, <1>4, <2>1, <2>2 DEF RunIsHalfway, At
  <1> QED
    BY <1>1, <1>5, <1>6 DEF CheckoutInv, HeadIsTemplate, HeadIsConfigured, HeadIsTracked, HeadAt,
      ConfiguredIsComplete, At

\* The checkout as bin/configure leaves it half done stays what it was but for f.
LEMMA CheckoutChange ==
  ASSUME TypeOK, CheckoutInv, NEW f \in Files, Change(f)
  PROVE  CheckoutInv'
  <1> DEFINE c == configure.choice
             from == Path[f][Template]
             to == Path[f][c]
  <1>1. /\ tree' = Moved(f, c)
        /\ configure' = [configure EXCEPT !.todo = @ \ {f}]
        /\ UNCHANGED <<record, head>>
        /\ configure.at = "change" /\ f \in configure.todo
        /\ record = Template /\ c \in Choices
    BY DEF Change, CheckoutInv, RunIsOfTemplate
  <1>2. /\ configure'.at = "change" /\ configure'.choice = c
        /\ configure'.todo = configure.todo \ {f}
    BY <1>1 DEF TypeOK
  <1>3. \A g \in Files : Path[g][Template] \in Paths /\ Path[g][c] \in Paths
    BY <1>1, PathIsTyped DEF Names
  <1>4. /\ At(from, f, Template)
        /\ to # from => tree[to] = Absent
    BY <1>1 DEF CheckoutInv, RunIsHalfway
  <1>5. tree[from] \in Contents
    BY <1>3, <1>4 DEF TypeOK, At
  <1>6. /\ tree'[to] = [tree[from] EXCEPT !.text = c]
        /\ from # to => tree'[from] = Absent
        /\ \A p \in Paths \ {from, to} : tree'[p] = tree[p]
    BY <1>1, <1>3 DEF Moved, TypeOK
  <1>7. At(to, f, c)'
    <2>1. [tree[from] EXCEPT !.text = c] \in Contents
      BY <1>1, <1>5 DEF Contents, Names
    <2>2. tree'[to] # Absent
      BY <1>6, <2>1, ContentsAssumption DEF ContentsAssumption
    <2>3. tree'[to].file = f /\ tree'[to].text = c
      BY <1>4, <1>5, <1>6 DEF At, Contents
    <2> QED
      BY <1>2, <2>2, <2>3 DEF At
  <1>8. RunIsOfTemplate'
    BY <1>1, <1>2 DEF CheckoutInv, RunIsOfTemplate
  <1>9. ASSUME NEW g \in configure'.todo
        PROVE  /\ At(Path[g][Template], g, Template)'
               /\ tree'[Path[g][Template]] = head'.tree[Path[g][Template]]
               /\ Path[g][c] # Path[g][Template] => tree'[Path[g][c]] = Absent
    <2>1. g \in configure.todo /\ g # f /\ g \in Files
      BY <1>2 DEF TypeOK
    <2>2. /\ At(Path[g][Template], g, Template)
          /\ tree[Path[g][Template]] = head.tree[Path[g][Template]]
          /\ Path[g][c] # Path[g][Template] => tree[Path[g][c]] = Absent
      BY <1>1, <2>1 DEF CheckoutInv, RunIsHalfway
    <2>3. Path[g][Template] # from /\ Path[g][Template] # to
      BY <1>4, <2>1, <2>2, TemplatePaths DEF At
    <2>4. Path[g][c] # to
      BY <1>1, <2>1 DEF CheckoutInv, RunIsOfTemplate
    <2>5. Path[g][c] # Path[g][Template] => tree'[Path[g][c]] = Absent
      BY <1>3, <1>6, <2>1, <2>2, <2>4
    <2> QED
      BY <1>1, <1>3, <1>6, <2>1, <2>2, <2>3, <2>5 DEF At
  <1>10. ASSUME NEW g \in Files \ configure'.todo PROVE At(Path[g][c], g, c)'
    <2>1. CASE g = f
      BY <1>7, <2>1
    <2>2. CASE g # f
      <3>1. g \notin configure.todo /\ At(Path[g][c], g, c)
        BY <1>1, <1>2, <2>2 DEF CheckoutInv, RunIsHalfway
      <3>2. Path[g][c] # to
        BY <1>1, <2>2 DEF CheckoutInv, RunIsOfTemplate
      <3>3. Path[g][c] # from
        BY <1>4, <2>2, <3>1 DEF At
      <3> QED
        BY <1>2, <1>3, <1>6, <3>1, <3>2, <3>3 DEF At
    <2> QED
      BY <2>1, <2>2
  <1>11. ASSUME NEW p \in Paths \ Ignored, tree'[p] # Absent, tree'[p].file \in Files
         PROVE  \/ \E g \in configure'.todo : p = Path[g][Template]
                \/ \E g \in Files \ configure'.todo : p = Path[g][c]
    <2>1. CASE p = to
      BY <1>2, <2>1
    <2>2. CASE p # to
      <3>1. p # from /\ tree'[p] = tree[p]
        BY <1>6, <1>11, <2>2
      <3>2. \/ \E g \in configure.todo : p = Path[g][Template]
            \/ \E g \in Files \ configure.todo : p = Path[g][c]
        BY <1>1, <1>11, <3>1 DEF CheckoutInv, RunIsHalfway
      <3> QED
        BY <1>2, <3>1, <3>2
    <2> QED
      BY <2>1, <2>2
  <1>12. RunIsHalfway'
    BY <1>2, <1>9, <1>10, <1>11 DEF RunIsHalfway
  <1> QED
    BY <1>1, <1>8, <1>12, TemplatePaths DEF CheckoutInv, HeadIsTemplate, HeadIsConfigured,
      HeadIsTracked, HeadAt, ConfiguredIsComplete

\* The last change done, the choice is recorded.
LEMMA CheckoutRecord ==
  ASSUME TypeOK, CheckoutInv, Refresh \/ Record
  PROVE  CheckoutInv'
  <1>1. CASE Refresh
    <2>1. /\ UNCHANGED <<tree, record, head>>
          /\ configure'.choice = configure.choice /\ configure'.todo = configure.todo
          /\ configure.at = "change" /\ configure.todo = {}
      BY <1>1 DEF Refresh, TypeOK
    <2> QED
      BY <2>1 DEF CheckoutInv, HeadIsTemplate, HeadIsConfigured, HeadIsTracked, HeadAt,
        RunIsOfTemplate, RunIsHalfway, ConfiguredIsComplete, At
  <1>2. CASE Record
    <2> DEFINE c == configure.choice
    <2>1. /\ UNCHANGED <<tree, head>> /\ record' = c /\ configure'.at = "idle"
          /\ c \in Choices /\ record = Template /\ configure.todo = {}
      BY <1>2 DEF Record, Idle, CheckoutInv, RunIsOfTemplate
    <2>2. \A f \in Files : At(Path[f][c], f, c)
      BY <1>2, <2>1 DEF Record, CheckoutInv, RunIsHalfway
    <2>3. \A p \in Paths \ Ignored : \A f \in Files : At(p, f, Template) \/ At(p, f, Torn) =>
            \E g \in Files : p = Path[g][c]
      BY <1>2, <2>1 DEF Record, CheckoutInv, RunIsHalfway, At
    <2>4. c # Template /\ c # Torn
      BY <2>1, TemplatePaths DEF Names
    <2>5. ConfiguredIsComplete'
      BY <2>1, <2>2, <2>3, <2>4 DEF ConfiguredIsComplete, At
    <2>6. head.record \notin Choices
      BY <2>1, TemplatePaths DEF CheckoutInv, HeadIsConfigured
    <2> QED
      BY <2>1, <2>5, <2>6 DEF CheckoutInv, HeadIsTemplate, HeadIsConfigured, HeadIsTracked, HeadAt,
        RunIsOfTemplate, RunIsHalfway
  <1> QED
    BY <1>1, <1>2

\* A run that stops leaves a checkout which is not recorded as configured.
LEMMA CheckoutInterrupt ==
  ASSUME TypeOK, CheckoutInv, Interrupt
  PROVE  CheckoutInv'
  <1>1. /\ configure'.at = "idle" /\ UNCHANGED head
        /\ record = Template /\ record' \in {Template, Torn}
    BY DEF Interrupt, Idle, CheckoutInv, RunIsOfTemplate
  <1>2. record' \notin Choices /\ record \notin Choices
    BY <1>1, TemplatePaths DEF Names
  <1>3. head.record \notin Choices
    BY <1>2 DEF CheckoutInv, HeadIsConfigured
  <1> QED
    BY <1>1, <1>2, <1>3 DEF CheckoutInv, HeadIsTemplate, HeadIsConfigured, HeadIsTracked, HeadAt,
      RunIsOfTemplate, RunIsHalfway, ConfiguredIsComplete

\* The user's own work changes no file's place or name.
LEMMA CheckoutWork ==
  ASSUME TypeOK, CheckoutInv, NEW p \in Paths, Edit(p) \/ CreateFile(p)
  PROVE  CheckoutInv'
  <1>1. UNCHANGED <<record, head, configure>> /\ configure.at = "idle"
    BY DEF Edit, CreateFile
  <1>2. \A q \in Paths : \/ tree'[q] # Absent /\ tree[q] # Absent
                            /\ tree'[q].file = tree[q].file /\ tree'[q].text = tree[q].text
                         \/ tree'[q] = tree[q]
                         \/ tree[q] = Absent /\ tree'[q].file = Own
    <2>1. CASE Edit(p)
      <3>1. tree[p] \in Contents
        BY <2>1 DEF Edit, TypeOK
      <3>2. [tree[p] EXCEPT !.edited = TRUE] \in Contents
        BY <3>1 DEF Contents
      <3>3. tree' = [tree EXCEPT ![p] = [tree[p] EXCEPT !.edited = TRUE]]
        BY <2>1 DEF Edit
      <3>4. tree'[p] # Absent /\ tree[p] # Absent
        BY <3>1, <3>2, <3>3, ContentsAssumption DEF ContentsAssumption, TypeOK
      <3>5. tree'[p].file = tree[p].file /\ tree'[p].text = tree[p].text
        BY <3>1, <3>3 DEF Contents, TypeOK
      <3> QED
        BY <3>3, <3>4, <3>5 DEF TypeOK
    <2>2. CASE CreateFile(p)
      <3>1. [Original(Own) EXCEPT !.edited = TRUE].file = Own
        BY DEF Original
      <3> QED
        BY <2>2, <3>1 DEF CreateFile, TypeOK
    <2> QED
      BY <2>1, <2>2
  <1>3. \A q \in Paths, f \in Files, c \in Names \cup {Torn} : At(q, f, c)' <=> At(q, f, c)
    BY <1>2, TemplatePaths DEF At
  <1>4. ConfiguredIsComplete'
    BY <1>1, <1>3, PathIsTyped, TemplatePaths DEF CheckoutInv, ConfiguredIsComplete, Names
  <1> QED
    BY <1>1, <1>4 DEF CheckoutInv, HeadIsTemplate, HeadIsConfigured, HeadIsTracked, HeadAt,
      RunIsOfTemplate, RunIsHalfway

\* A commit takes the template with the user's work, or a configured checkout.
LEMMA CheckoutCommit ==
  ASSUME TypeOK, CheckoutInv, Commit
  PROVE  CheckoutInv'
  <1>1. /\ UNCHANGED <<tree, record, configure>> /\ configure.at = "idle"
        /\ head'.record = record
        /\ \A p \in Paths : head'.tree[p] = IF p \in Ignored THEN Absent ELSE tree[p]
    BY DEF Commit
  <1>2. HeadIsTracked'
    BY <1>1, TemplatePaths DEF HeadIsTracked
  <1>3. ConfiguredIsComplete'
    BY <1>1 DEF CheckoutInv, ConfiguredIsComplete, At
  <1>4. RunIsOfTemplate' /\ RunIsHalfway'
    BY <1>1 DEF RunIsOfTemplate, RunIsHalfway
  <1>5. HeadIsConfigured'
    <2> SUFFICES ASSUME record \in Choices
                 PROVE  /\ \A f \in Files : Path[f][record] \notin Ignored =>
                             HeadAt(Path[f][record], f, record)'
                        /\ \A p \in Paths, f \in Files : ~HeadAt(p, f, Template)' /\ ~HeadAt(p, f, Torn)'
      BY <1>1 DEF HeadIsConfigured, HeadAt
    <2> QED
      BY <1>1, PathIsTyped DEF HeadAt, At, CheckoutInv, ConfiguredIsComplete, Names
  <1>6. HeadIsTemplate'
    <2> SUFFICES ASSUME record = Template PROVE HeadIsTemplate'
      BY <1>1 DEF HeadIsTemplate
    <2>1. /\ head.record = Template
          /\ \A p \in Paths \ Ignored : Renaming(tree[p]) = Renaming(head.tree[p])
      BY TemplatePaths DEF Commit
    <2>2. ASSUME NEW p \in Paths \ Ignored
          PROVE  /\ (tree[p] # Absent /\ tree[p].file \in Files)
                      <=> (head.tree[p] # Absent /\ head.tree[p].file \in Files)
                 /\ tree[p] # Absent /\ tree[p].file \in Files =>
                      tree[p].file = head.tree[p].file /\ tree[p].text = head.tree[p].text
      <3>1. tree[p] \in Contents \cup {Absent} /\ head.tree[p] \in Contents \cup {Absent}
        BY DEF TypeOK
      <3>2. ASSUME NEW x \in Contents \cup {Absent}
            PROVE  /\ (x # Absent /\ x.file \in Files) <=> Renaming(x) # Absent
                   /\ Renaming(x) # Absent => Renaming(x).file = x.file /\ Renaming(x).text = x.text
        <4>1. CASE x # Absent /\ x.file \in Files
          <5>1. x \in Contents /\ Renaming(x) = [x EXCEPT !.edited = FALSE]
            BY <4>1 DEF Renaming
          <5>2. [x EXCEPT !.edited = FALSE] \in Contents
            BY <5>1 DEF Contents
          <5>3. Renaming(x) # Absent
            BY <5>1, <5>2, ContentsAssumption DEF ContentsAssumption
          <5>4. Renaming(x).file = x.file /\ Renaming(x).text = x.text
            BY <5>1 DEF Contents
          <5> QED
            BY <4>1, <5>3, <5>4
        <4>2. CASE ~(x # Absent /\ x.file \in Files)
          BY <4>2 DEF Renaming
        <4> QED
          BY <4>1, <4>2
      <3> QED
        BY <2>1, <3>1, <3>2
    <2>3. \A f \in Files : Path[f][Template] \in Paths \ Ignored
      BY PathIsTyped, TemplatePaths DEF Names
    <2>4. \A f \in Files : HeadAt(Path[f][Template], f, Template)'
      BY <1>1, <2>1, <2>2, <2>3 DEF HeadAt, CheckoutInv, HeadIsTemplate
    <2>5. \A p \in Paths \ Ignored : head'.tree[p] # Absent /\ head'.tree[p].file \in Files =>
            \E f \in Files : p = Path[f][Template]
      BY <1>1, <2>1, <2>2 DEF CheckoutInv, HeadIsTemplate
    <2> QED
      BY <2>4, <2>5 DEF HeadIsTemplate
  <1> QED
    BY <1>2, <1>3, <1>4, <1>5, <1>6 DEF CheckoutInv

\* Going back to the last commit goes back to a checkout that was whole.
LEMMA CheckoutRestore ==
  ASSUME TypeOK, CheckoutInv, Restore
  PROVE  CheckoutInv'
  <1>1. /\ UNCHANGED <<head, configure>> /\ configure.at = "idle" /\ record' = head.record
        /\ \A p \in Paths : tree'[p] = IF head.tree[p] # Absent THEN head.tree[p] ELSE tree[p]
    BY DEF Restore
  <1>2. ConfiguredIsComplete'
    <2> SUFFICES ASSUME head.record \in Choices PROVE ConfiguredIsComplete'
      BY <1>1 DEF ConfiguredIsComplete
    <2>1. record = head.record /\ record' = record
      BY <1>1 DEF CheckoutInv, HeadIsConfigured
    <2>2. ASSUME NEW f \in Files PROVE At(Path[f][record], f, record)'
      <3>1. Path[f][record] \in Paths /\ At(Path[f][record], f, record)
        BY <2>1, PathIsTyped DEF CheckoutInv, ConfiguredIsComplete, Names
      <3>2. CASE Path[f][record] \in Ignored
        BY <1>1, <2>1, <3>1, <3>2 DEF CheckoutInv, HeadIsTracked, At
      <3>3. CASE Path[f][record] \notin Ignored
        BY <1>1, <2>1, <3>1, <3>3 DEF CheckoutInv, HeadIsConfigured, HeadAt, At
      <3> QED
        BY <3>2, <3>3
    <2>3. ASSUME NEW p \in Paths \ Ignored, NEW f \in Files
          PROVE  ~At(p, f, Template)' /\ ~At(p, f, Torn)'
      BY <1>1, <2>1 DEF CheckoutInv, HeadIsConfigured, ConfiguredIsComplete, HeadAt, At
    <2> QED
      BY <2>1, <2>2, <2>3 DEF ConfiguredIsComplete
  <1>3. HeadIsConfigured'
    BY <1>1 DEF CheckoutInv, HeadIsConfigured, HeadAt
  <1> QED
    BY <1>1, <1>2, <1>3 DEF CheckoutInv, HeadIsTemplate, HeadIsTracked, HeadAt, RunIsOfTemplate,
      RunIsHalfway

LEMMA CheckoutClean ==
  ASSUME TypeOK, CheckoutInv, Clean
  PROVE  CheckoutInv'
  <1>1. /\ UNCHANGED <<record, head, configure>> /\ configure.at = "idle" /\ record = head.record
        /\ \A p \in Paths : tree'[p] = IF p \in Ignored THEN tree[p] ELSE head.tree[p]
    BY DEF Clean
  <1>2. ConfiguredIsComplete'
    <2> SUFFICES ASSUME record \in Choices PROVE ConfiguredIsComplete'
      BY <1>1 DEF ConfiguredIsComplete
    <2>1. \A f \in Files : Path[f][record] \in Paths /\ At(Path[f][record], f, record)
      BY PathIsTyped DEF CheckoutInv, ConfiguredIsComplete, Names
    <2> QED
      BY <1>1, <2>1 DEF CheckoutInv, HeadIsConfigured, ConfiguredIsComplete, HeadAt, At
  <1> QED
    BY <1>1, <1>2 DEF CheckoutInv, HeadIsTemplate, HeadIsConfigured, HeadIsTracked, HeadAt,
      RunIsOfTemplate, RunIsHalfway

LEMMA CheckoutStep == TypeOK /\ CheckoutInv /\ [Next]_vars => CheckoutInv'
  <1> SUFFICES ASSUME TypeOK, CheckoutInv, [Next]_vars PROVE CheckoutInv'
    OBVIOUS
  <1>1. ASSUME UNCHANGED Checkout PROVE CheckoutInv'
    BY <1>1 DEF Checkout, CheckoutInv, HeadIsTemplate, HeadIsConfigured, HeadIsTracked, HeadAt,
      RunIsOfTemplate, RunIsHalfway, ConfiguredIsComplete, At
  <1>2. CASE ConfigureStep
    BY <1>2, CheckoutStart, CheckoutChange, CheckoutRecord, CheckoutInterrupt DEF ConfigureStep
  <1>3. CASE UserStep
    BY <1>3, CheckoutWork, CheckoutCommit, CheckoutRestore, CheckoutClean DEF UserStep
  <1>4. ASSUME NEW t \in Terminals, TerminalStep(t) PROVE CheckoutInv'
    BY <1>1, <1>4 DEF TerminalStep, Begin, Look, Create, Write, Prepare, Serve, Stop
  <1>5. ASSUME NEW s \in Secrets, Read(s) PROVE CheckoutInv'
    BY <1>1, <1>5 DEF Read
  <1>6. CASE UNCHANGED vars
    BY <1>1, <1>6 DEF vars, Checkout
  <1> QED
    BY <1>2, <1>3, <1>4, <1>5, <1>6 DEF Next

-----------------------------------------------------------------------------
(* bin/setup, bin/dev and the databases.                                   *)

LEMMA InTail ==
  ASSUME NEW q \in Seq(Secrets), q # <<>>, NEW s, Holds(q, s), s # Head(q)
  PROVE  Holds(Tail(q), s)
  <1>1. PICK i \in 1 .. Len(q) : q[i] = s
    BY DEF Holds
  <1>2. i - 1 \in 1 .. Len(Tail(q)) /\ Tail(q)[i - 1] = q[i]
    BY <1>1
  <1> QED
    BY <1>1, <1>2 DEF Holds

LEMMA DatabasesInit == Init => DatabasesInv
  BY DEF Init, DatabasesInv, PassedSecretsExist, SetupIsConfigured, DatabasesBind, Rested

\* What is made stays made.
LEMMA SecretsStay ==
  TypeOK /\ WritersAreAlone /\ [Next]_vars =>
    \A s \in Secrets : local[s] # Absent => local'[s] # Absent
  <1> SUFFICES ASSUME TypeOK, WritersAreAlone, [Next]_vars,
                      NEW s \in Secrets, local[s] # Absent
               PROVE  local'[s] # Absent
    OBVIOUS
  <1>1. ASSUME NEW t \in Terminals, Create(t) \/ Write(t) PROVE local'[s] # Absent
    BY <1>1, NoTerminal DEF Create, Write, TypeOK
  <1>2. local' = local \/ \E t \in Terminals : Create(t) \/ Write(t)
    BY DEF Next, ConfigureStep, UserStep, TerminalStep, Start, Change, Refresh, Record, Interrupt,
      Edit, CreateFile, Commit, Restore, Clean, Begin, Look, Prepare, Serve, Stop, Read, vars, Scripts
  <1> QED
    BY <1>1, <1>2

LEMMA PassedStep ==
  TypeOK /\ WritersAreAlone /\ PassedSecretsExist /\ [Next]_vars => PassedSecretsExist'
  <1> SUFFICES ASSUME TypeOK, WritersAreAlone, PassedSecretsExist, [Next]_vars
               PROVE  PassedSecretsExist'
    OBVIOUS
  <1>0. \A s \in Secrets : local[s] # Absent => local'[s] # Absent
    BY SecretsStay
  <1>1. ASSUME UNCHANGED terminal PROVE PassedSecretsExist'
    BY <1>0, <1>1 DEF PassedSecretsExist
  <1>2. ASSUME NEW t \in Terminals, TerminalStep(t) PROVE PassedSecretsExist'
    <2>1. ASSUME NEW run, terminal' = [terminal EXCEPT ![t] = run],
                 run.at # "idle" => \A s \in Secrets : local'[s] # Absent \/ Holds(run.left, s)
          PROVE  PassedSecretsExist'
      BY <1>0, <2>1 DEF PassedSecretsExist, TypeOK
    <2>2. \A script \in {"setup", "dev"}, s \in Secrets : Holds(SecretsOf[script], s)
      BY TemplateAssumption DEF TemplateAssumption, Holds
    <2>3. ASSUME terminal[t].at # "idle"
          PROVE  \A s \in Secrets : local'[s] # Absent \/ Holds(terminal[t].left, s)
      BY <1>0, <2>3 DEF PassedSecretsExist
    <2>4. ASSUME terminal[t].at # "idle", terminal[t].left # <<>>, local'[Head(terminal[t].left)] # Absent
          PROVE  \A s \in Secrets : local'[s] # Absent \/ Holds(Tail(terminal[t].left), s)
      <3> SUFFICES ASSUME NEW s \in Secrets, local'[s] = Absent PROVE Holds(Tail(terminal[t].left), s)
        OBVIOUS
      <3>1. terminal[t].left \in Seq(Secrets)
        BY DEF TypeOK
      <3> QED
        BY <2>3, <2>4, <3>1, InTail
    <2>5. CASE \E script \in {"setup", "dev"} : Begin(t, script)
      <3>1. PICK script \in {"setup", "dev"} : Begin(t, script)
        BY <2>5
      <3> DEFINE run == [at |-> "look", script |-> script, left |-> SecretsOf[script]]
      <3>2. terminal' = [terminal EXCEPT ![t] = run] /\ run.left = SecretsOf[script]
        BY <3>1 DEF Begin
      <3> QED
        BY <2>1, <2>2, <3>2
    <2>6. CASE Look(t)
      <3>1. CASE local[Head(terminal[t].left)] # Absent
        <4> DEFINE run == [terminal[t] EXCEPT !.left = Tail(@)]
        <4>1. terminal' = [terminal EXCEPT ![t] = run] /\ run.left = Tail(terminal[t].left)
              /\ terminal[t].at # "idle" /\ terminal[t].left # <<>> /\ local' = local
          BY <2>6, <3>1 DEF Look, Running, TypeOK
        <4> HIDE DEF run
        <4> QED
          BY <2>1, <2>4, <3>1, <4>1
      <3>2. CASE local[Head(terminal[t].left)] = Absent
        <4> DEFINE run == [terminal[t] EXCEPT !.at = "create"]
        <4>1. terminal' = [terminal EXCEPT ![t] = run] /\ run.left = terminal[t].left
              /\ terminal[t].at # "idle"
          BY <2>6, <3>2 DEF Look, Running, TypeOK
        <4> HIDE DEF run
        <4> QED
          BY <2>1, <2>3, <4>1
      <3> QED
        BY <3>1, <3>2
    <2>7. CASE Create(t)
      <3>1. CASE local[Head(terminal[t].left)] = Absent
        <4> DEFINE run == [terminal[t] EXCEPT !.at = "write"]
        <4>1. terminal' = [terminal EXCEPT ![t] = run] /\ run.left = terminal[t].left
              /\ terminal[t].at # "idle"
          BY <2>7, <3>1 DEF Create, Running, TypeOK
        <4> HIDE DEF run
        <4> QED
          BY <2>1, <2>3, <4>1
      <3>2. CASE local[Head(terminal[t].left)] # Absent
        BY <2>1, <2>7, <3>2 DEF Create, Rested
      <3> QED
        BY <3>1, <3>2
    <2>8. CASE Write(t)
      <3> DEFINE run == [terminal[t] EXCEPT !.at = "look", !.left = Tail(@)]
      <3>1. terminal' = [terminal EXCEPT ![t] = run] /\ run.left = Tail(terminal[t].left)
            /\ terminal[t].at # "idle" /\ terminal[t].left # <<>>
        BY <2>8 DEF Write, Running, TypeOK, WritersAreAlone
      <3>2. Head(terminal[t].left) \in Secrets
        BY <3>1 DEF TypeOK
      <3>3. local'[Head(terminal[t].left)] # Absent
        BY <2>8, <3>2, NoTerminal DEF Write, TypeOK
      <3> HIDE DEF run
      <3> QED
        BY <2>1, <2>4, <3>1, <3>3
    <2>9. CASE Prepare(t)
      <3>1. CASE terminal' = [terminal EXCEPT ![t] = Rested]
        BY <2>1, <3>1 DEF Rested
      <3>2. CASE terminal' = [terminal EXCEPT ![t].script = "dev", ![t].left = SecretsOf["dev"]]
        <4> DEFINE run == [terminal[t] EXCEPT !.script = "dev", !.left = SecretsOf["dev"]]
        <4>1. terminal' = [terminal EXCEPT ![t] = run] /\ run.left = SecretsOf["dev"]
          BY <3>2 DEF TypeOK
        <4> QED
          BY <2>1, <2>2, <4>1
      <3> QED
        BY <2>9, <3>1, <3>2 DEF Prepare
    <2>10. CASE Serve(t) \/ Stop(t)
      BY <2>1, <2>10 DEF Serve, Stop, Rested
    <2> QED
      BY <1>2, <2>5, <2>6, <2>7, <2>8, <2>9, <2>10 DEF TerminalStep
  <1>3. CASE ConfigureStep \/ UserStep
    BY <1>1, <1>3 DEF ConfigureStep, UserStep, Start, Change, Refresh, Record, Interrupt, Edit,
      CreateFile, Commit, Restore, Clean, Scripts
  <1>4. CASE (\E s \in Secrets : Read(s)) \/ UNCHANGED vars
    BY <1>1, <1>4 DEF Read, vars
  <1> QED
    BY <1>2, <1>3, <1>4 DEF Next

\* A checkout under bin/setup stays configured: bin/configure does not start in
\* it, and git restore waits.
LEMMA SetupStep ==
  TypeOK /\ CheckoutInv /\ SetupIsConfigured /\ [Next]_vars => SetupIsConfigured'
  <1> SUFFICES ASSUME TypeOK, CheckoutInv, SetupIsConfigured, [Next]_vars
               PROVE  SetupIsConfigured'
    OBVIOUS
  <1>1. ASSUME UNCHANGED terminal, record \in Choices => record' \in Choices
        PROVE  SetupIsConfigured'
    BY <1>1 DEF SetupIsConfigured
  <1>2. CASE ConfigureStep
    <2>1. record \in Choices => configure.at = "idle"
      BY TemplatePaths DEF CheckoutInv, RunIsOfTemplate
    <2> QED
      BY <1>1, <1>2, <2>1, TemplatePaths DEF ConfigureStep, Start, Change, Refresh, Record,
        Interrupt, Scripts, Unconfigured
  <1>3. CASE UserStep
    <2>1. CASE Restore
      BY <2>1 DEF Restore, SetupIsConfigured, Scripts
    <2> QED
      BY <1>1, <1>3, <2>1 DEF UserStep, Edit, CreateFile, Commit, Clean, Scripts
  <1>4. ASSUME NEW t \in Terminals, TerminalStep(t) PROVE SetupIsConfigured'
    <2>1. /\ record' = record
          /\ \A u \in Terminals \ {t} : terminal'[u] = terminal[u]
      BY <1>4 DEF TerminalStep, Begin, Look, Create, Write, Prepare, Serve, Stop, Checkout, TypeOK
    <2>2. terminal'[t].at # "idle" /\ terminal'[t].script = "setup" =>
            \/ record \in Choices
            \/ terminal[t].at # "idle" /\ terminal[t].script = "setup"
      <3>1. CASE \E script \in {"setup", "dev"} : Begin(t, script)
        BY <3>1 DEF Begin, TypeOK
      <3>2. CASE Look(t) \/ Create(t) \/ Write(t)
        BY <3>2 DEF Look, Create, Write, Running, Rested, TypeOK
      <3>3. CASE Prepare(t) \/ Serve(t) \/ Stop(t)
        BY <3>3 DEF Prepare, Serve, Stop, Running, Rested, TypeOK
      <3> QED
        BY <1>4, <3>1, <3>2, <3>3 DEF TerminalStep
    <2> QED
      BY <2>1, <2>2 DEF SetupIsConfigured
  <1>5. CASE (\E s \in Secrets : Read(s)) \/ UNCHANGED vars
    BY <1>1, <1>5 DEF Read, vars, Checkout
  <1> QED
    BY <1>2, <1>3, <1>4, <1>5 DEF Next

LEMMA DatabasesStep ==
  TypeOK /\ CheckoutInv /\ WritersAreAlone /\ DatabasesInv /\ [Next]_vars => DatabasesInv'
  <1> SUFFICES ASSUME TypeOK, CheckoutInv, WritersAreAlone, DatabasesInv, [Next]_vars
               PROVE  DatabasesBind'
    BY PassedStep, SetupStep DEF DatabasesInv
  <1>1. ~NothingLocal => ~NothingLocal'
    BY SecretsStay DEF NothingLocal
  <1>2. ASSUME UNCHANGED <<databases, configure>>, record' \in {record, head.record},
               head'.record \in {record, head.record}
        PROVE  DatabasesBind'
    BY <1>1, <1>2 DEF DatabasesInv, DatabasesBind
  <1>3. CASE ConfigureStep
    <2>1. databases' = databases
      BY <1>3 DEF ConfigureStep, Start, Change, Refresh, Record, Interrupt, Scripts
    <2>2. databases = {}
      BY <1>3 DEF DatabasesInv, DatabasesBind, ConfigureStep, Start, Change, Refresh, Record,
        Interrupt
    <2> QED
      BY <2>1, <2>2 DEF DatabasesBind
  <1>4. CASE UserStep
    BY <1>2, <1>4 DEF UserStep, Edit, CreateFile, Commit, Restore, Clean, Scripts
  <1>5. ASSUME NEW t \in Terminals, TerminalStep(t) PROVE DatabasesBind'
    <2>1. CASE Prepare(t)
      <3>1. record \in Choices /\ databases' = databases \cup {record}
        BY <2>1, DatabaseIsRecorded DEF Prepare, Running, DatabasesInv
      <3>2. configure.at = "idle" /\ head.record \in {record, Template}
        BY <3>1, TemplatePaths DEF CheckoutInv, RunIsOfTemplate, HeadIsConfigured, TypeOK, Names
      <3>3. ~NothingLocal
        <4>1. PICK s \in Secrets : TRUE
          BY TemplateAssumption DEF TemplateAssumption
        <4>2. terminal[t].left = <<>> /\ terminal[t].at # "idle"
          BY <2>1 DEF Prepare, Running
        <4> QED
          BY <4>1, <4>2 DEF DatabasesInv, PassedSecretsExist, NothingLocal, Holds
      <3>4. databases \subseteq {record}
        BY <3>1, TemplatePaths DEF DatabasesInv, DatabasesBind
      <3>5. databases' = {record}
        BY <3>1, <3>4
      <3> QED
        BY <1>1, <2>1, <3>1, <3>2, <3>3, <3>5 DEF Prepare, Checkout, DatabasesBind
    <2> QED
      BY <1>2, <1>5, <2>1 DEF TerminalStep, Begin, Look, Create, Write, Serve, Stop, Checkout
  <1>6. CASE (\E s \in Secrets : Read(s)) \/ UNCHANGED vars
    BY <1>2, <1>6 DEF Read, vars, Checkout
  <1> QED
    BY <1>3, <1>4, <1>5, <1>6 DEF Next

-----------------------------------------------------------------------------
(* The theorems.                                                           *)

Inductive == TypeOK /\ CheckoutInv /\ SecretsInv /\ DatabasesInv

LEMMA InductiveInit == Init => Inductive
  BY TypeInit, CheckoutInit, SecretsInit, DatabasesInit DEF Inductive

LEMMA InductiveStep == Inductive /\ [Next]_vars => Inductive'
  BY TypeStep, CheckoutStep, SecretsStep, DatabasesStep DEF Inductive, SecretsInv, DatabasesInv

LEMMA AlwaysInductive == Spec => []Inductive
  BY InductiveInit, InductiveStep, PTL DEF Spec

\* Every checkout, record, commit and terminal that can be reached has its type:
\* no step is taken on a file that is not there.
THEOREM TypeCorrect == Spec => []TypeOK
  <1>1. Inductive => TypeOK
    BY DEF Inductive
  <1> QED
    BY <1>1, AlwaysInductive, PTL

\* However many runs of bin/configure were stopped, and whatever the user edited,
\* committed, restored and cleaned between them, a checkout whose template.json
\* records a choice has every file under that choice, and none half written.
THEOREM ConfiguredIsAlwaysComplete == Spec => []ConfiguredIsComplete
  <1>1. Inductive => ConfiguredIsComplete
    BY DEF Inductive, CheckoutInv
  <1> QED
    BY <1>1, AlwaysInductive, PTL

\* Whichever terminals make the secrets at once, no service reads a secret which
\* another one has read differently.
THEOREM SecretsAlwaysAgree == Spec => []SecretsAgree
  <1>1. Inductive => SecretsAgree
    BY DEF Inductive, SecretsInv
  <1> QED
    BY <1>1, AlwaysInductive, PTL

\* A checkout never prepares databases under two names, nor under the template's.
THEOREM DatabasesHaveOneName == Spec => []OneDatabaseName
  <1>1. Inductive => OneDatabaseName
    BY DEF Inductive, DatabasesInv, DatabasesBind, OneDatabaseName
  <1> QED
    BY <1>1, AlwaysInductive, PTL

\* No step of bin/configure, nor its interruption inside a write, touches a file
\* with work in it that the last commit does not have.
THEOREM WorkIsAlwaysKept == Spec => WorkIsKept
  <1>1. Inductive /\ [Next]_vars =>
          [configure' # configure => \A p \in Paths : Uncommitted(p) => tree'[p] = tree[p]]_vars
    <2> SUFFICES ASSUME Inductive, [Next]_vars, configure' # configure,
                        NEW p \in Paths, Uncommitted(p)
                 PROVE  tree'[p] = tree[p]
      OBVIOUS
    <2>1. ASSUME NEW f \in configure.todo, configure.at # "idle", NEW text, tree' = Moved(f, text)
          PROVE  tree'[p] = tree[p]
      <3> DEFINE from == Path[f][record]
                 to == Path[f][configure.choice]
      <3>1. /\ record = Template /\ tree[from] = head.tree[from]
            /\ to # from => tree[to] = Absent
        BY <2>1 DEF Inductive, CheckoutInv, RunIsOfTemplate, RunIsHalfway
      <3>2. p # from /\ p # to
        BY <3>1 DEF Uncommitted
      <3> QED
        BY <2>1, <3>2 DEF Moved, Inductive, TypeOK
    <2>2. CASE ConfigureStep
      BY <2>1, <2>2 DEF ConfigureStep, Start, Change, Refresh, Record, Interrupt
    <2>3. ConfigureStep
      BY DEF Next, UserStep, TerminalStep, Edit, CreateFile, Commit, Restore, Clean, Begin, Look,
        Create, Write, Prepare, Serve, Stop, Read, vars, Checkout
    <2> QED
      BY <2>2, <2>3
  <1> QED
    BY <1>1, AlwaysInductive, PTL DEF Spec, WorkIsKept

=============================================================================
