# A formal model of the Rails starter

This directory models the parts of the starter in which several actors, or an
actor and a failure, meet, and the Python program it carries for its agents,
book-to-skill: TLA+ modules translated from the source, TLC
configurations that check them on small instances, and proofs that TLAPS
checks for every value of the constants. `PROJECT.json` lists the runs, the
mutants each property is known to catch, the source lines of every definition,
the hazards the properties were written against, and the theorems.

    tlc -config MCAuthentication.cfg MCAuthentication.tla
    tlapm AuthenticationProofs.tla

## 1. The system

The application is a Rails server (Puma threads), Solid Queue workers on a
database of their own, one AnyCable server, and browsers. What follows lists
its parts: the state each keeps, its operations, whom it talks to, what is hard
about it and what makes it correct.

**Sign-in, password reset, sessions** (`app/models/user.rb`, `session.rb`, the
`sessions`, `passwords` controllers, `concerns/authentication.rb`). State: the
rows of `users`, `sessions`, `session_disconnects`; reset tokens, which are
signed and not stored, but name the digest they were made for. Operations:
sign in, mail a token, reset, sign out. Each is several statements; sign-in
and reset lock the user's row after a first unlocked look, sign-out locks
nothing. Hard: what was read before the lock is stale under it; a transaction
may fail anywhere. Correct: a session row always belongs to its owner's current
password; a token changes a password once; a session never goes without an
intent to disconnect its browsers.

**Outbox of disconnects** (`session_disconnect.rb`, `DisconnectSessionsJob`,
`DispatchSessionDisconnectsJob`). State: intents in the primary database, jobs
in the queue database. Operations: enqueue after commit, sweep every minute,
publish each session's disconnect over HTTP, acknowledge by deleting the
intent. Hard: no transaction spans both databases; callbacks are lost,
enqueues refused, publications time out after they arrived, workers crash;
jobs are duplicated. Correct: an intent goes only after all it names was
published, and goes in the end.

**WebSockets** (`app/channels`, AnyCable as `compose.yml` configures it).
State: the server's connections and their streams. Operations: connect and
subscribe (RPC to Rails, carried out at the server afterwards), disconnect
command, restart. Hard: the answer of an RPC is acted on later than it was
computed, in any order with commands. Correct: a revoked session loses its
streams and gets none.

**Publisher of operations updates** (`lib/realtime/operations_updates.rb`,
`lib/observability/queue_updates.rb`). State, per process: a set of waiting
topics, a bounded queue, one worker thread. Operations: publish after a commit,
broadcast, shut down. Hard: adding a topic to the set and posting its task are
two steps; the queue refuses; processes fork; shutdown gives up after five
seconds. Correct: a change is broadcast after it was committed or reported
lost, and a burst costs one task.

**Live updates in the browser** (`app/javascript/live_updates.js`). State:
`pending`, the timer, the request. Operations: events, tab switches,
reconnections, timeouts, stop. Hard: a request is asynchronous and everything
else happens during it. Correct: one request at a time, none in the background,
no event forgotten, no older answer after a newer.

**Queue pages** (`live_region_controller.js`, `Admin::BaseController`). State:
the content, the copy that waits while the user edits, the badge. Correct: the
user's edits survive, a refusal empties the page for good, the badge is true.

**Viewer of agent traces** (`app/frontend/agents/index.tsx`). State: the page
chosen, what is shown, the last payload. Operations: those of live updates, and
two buttons. Hard: choosing a page stops live updates and starts them anew,
with a request under way or after a refusal took the stream away. Correct: what
is shown is of the page chosen, and a refusal is final.

**Agent traces** (`agent_trace.rb`, `agent_trace_recorder.rb`,
`agents_controller.rb`, `app/frontend/agents`). State: the table; the
operator's cursor. Operations: record, prune, page. Hard: rows commit out of
id order, are pruned by start time and read by id; two programs in two
languages must agree which documents are valid. Correct: what is stored can be
displayed, a walk skips nothing that is retained, prune deletes what is expired
and only that.

**Template and local set-up** (`bin/configure`, `bin/setup`, `bin/dev`, the
`setup` commands of `bin/ops`, `bin/cable`, `bin/images`). State: the checkout,
`config/template.json`, the secrets in `config/*.local.yml`, the databases.
Operations: rename the application, record it; make secrets; prepare
databases. Hard: everything can be stopped halfway and run again, two terminals
make secrets at once, git undoes one part of the state and not the others.
Correct: a recorded name is the name of everything, and final; nobody's work is
overwritten; a secret in use is not replaced.

**book-to-skill** (`.agents/skills/book-to-skill`), a Python program with no
part in the application: an agent runs `scripts/extract.py` on documents, waits
for the `metadata.json` of that run, reads `full_text.txt`, writes a skill from
it, scans the skill with `tools/scan_generated_skill.py` and removes the work
directory. Its parts:

- *Runs and their files* (`config.py`, `cli.py`, `main` of `utils.py`,
  `enrich_pdf_inspector_metadata`). State: per process the files to extract,
  the sources, the errors, the inspections; per directory the text, the
  metadata and a temporary copy of it. Hard: runs go on at once, ids of dead
  processes are used again, a run may be killed between any two writes, the
  temporary directory is shared. Correct: metadata of a run stands beside that
  run's own whole text, and an earlier run's is found only until a run that took
  over its directory succeeds; a batch accounts for every file once.
- *One source* (`extract_single_file`, the PDF inspector around it,
  `dependencies.py`, `parsers/`). State: the tools of the machine, the chain of
  parsers, Calibre's one output file. Hard: every parser may be absent, raise,
  or find nothing, in three modes of installing. Correct: nothing the machine
  has is left untried, and what is published was drawn from this source (unless
  Calibre claims a conversion it did not write).
- *Its own parsers*: the HTML text extractor, the scan for RTF's destination
  groups, the reading order of an EPUB, the running lines of a PDF. Hard: flags
  and depths kept over nested input. Correct: words of different blocks stay
  apart, and no text of the book is dropped.
- *Detection of chapters* (`detect_structure`). Hard: code blocks that look
  like headings, and fences that lost their other half. Correct: a code block
  neither adds a chapter nor hides one.
- *Scan of the skill*. Hard: it is still being written. Correct: a pass means
  that everything nobody changed meanwhile was read, or named as not read.

**Not modelled**: the request context of jobs, the test
harnesses and the classes of settings keep one attribute or run by hand; the
LLM adapter, health, metrics, logs, mail, images, localization, pages, Android
and deployment are conversions, reads or configuration with no state that
outlives a request; `validate_skill.py`, `discovery_tax.py` and `tools/evals`
judge or count one file each; vendored code and the other skills hold no
program. `PROJECT.json` names each with its files.

### How the parts interact

    browser --HTTP--> Rails --transaction--> users, sessions, session_disconnects
       ^                |                                   | after commit, sweep
       | WebSocket      | RPC answers                       v
    AnyCable <----------+            DisconnectSessionsJob (queue database)
       ^   ^------------- HTTP disconnect commands ---------+
       |
       +-- HTTP broadcasts -- OperationsUpdates (one thread per process)
                                ^ after commit: queue, agents, access

A page that hears of a change fetches it over HTTP, where the session and the
role are checked again.

    agent --command line--> run --one source at a time--> parsers, tools, pip
      |                      |
      |  waits for           v
      +------- full_text.txt, metadata.json in a directory named by the pid
      |
      +--writes--> skill <--reads-- scan

The run calls the detection of chapters on each text and on all of them; EPUB
and HTML sources that no library reads go to the same text extractor.

## 2. The modules

| Module | Models | State, and the code behind it |
| --- | --- | --- |
| `SessionPolicy` | what sign-in, reset and sign-out promise about sessions | abstract |
| `Authentication` | the row-locked transactions | `digest`, `rows`, `owner`, `outbox`, `covers`: the tables as committed; `lock`: row locks; `mailed`: unexpired tokens; `thread`: where each request is between two statements |
| `SessionDisconnects` | outbox, jobs, sweep | `outbox`, `covers`; `callbacks`: after-commit blocks to run; `batch`: rows `find_each` has loaded; `jobs`: the queue |
| `Cable` | connections and channels | `sockets`: per connection its phase, session and streams; `commands`: disconnects accepted and not carried out; `owed`: sessions with an intent |
| `Revocation` | the three together | the union of their variables; the tables and the queue are shared, not copied; `admin` stays `Administrators` |
| `OperationsUpdates` | the publisher | `pending`, `queue`, `worker`, `executor` as in the code, `executor` also `"ended"` when the process is (`Exit`); `calls`: where each thread is in `publish`; `stale`: the process was forked |
| `LiveUpdates` | `startLiveUpdates` | `stopped`, `pending`, `timer`, `request` as in the code; `runs`: the requests; `seen`, `noticed`: versions read and told of |
| `LiveRegion` | the queue pages | `LiveUpdates` plus `content`, `kept` (pendingContent), `status`, `editing` |
| `AgentViewer` | the viewer of agent traces | `LiveUpdates` plus `cursor`, `state`, `previous` as in the code; `asked`: the cursor each request was made with; `source`: the stream element is there |
| `OperationsFreshness` | publisher, stream and page together | the union, plus the stream's undelivered events |
| `TraceDocuments` | what the recorder makes of a span list, what the viewer accepts | pure operators |
| `AgentTraces` | recording, pruning, paging | `rows`, `inserts` (open transactions), `prune`, `walk` |
| `TemplateSetup` | from a checkout of the template to an application | `tree`, `head`: files on disk and as committed; `record`: template.json; `configure`: the run of `bin/configure`; `local`, `used`: secrets in their files and in services; `terminal`: runs of `bin/setup` and `bin/dev`; `databases` |
| `ExtractionRuns` | runs of the extractor and their files | `at`: where each run is in `main`; `todo`, `sources`, `skipped`, `inspected`: `input_files`, `extracted_sources`, `errors`, `_INSPECTIONS`; `kind`: what a directory is; `text`, `meta`, `tmp`: its files, each with its writer and the sources it holds; `latest`: the last run that took the directory; `reused`: whether it found it there |
| `SourceExtraction` | `extract_single_file` and the hook around it | `tools`: importable modules and commands on PATH; `chain`, `tried`: parsers to try and tried; `text`: whose text, by which parser; `left`: whose text Calibre's output file holds, at first perhaps an earlier batch's; `silent`: Calibre claimed success for this source and wrote nothing; `report`: what `--check` said |
| `HtmlText` | `_HTMLTextExtractor` | `parts`, `skipDepth`, `pending` as in the code; `page`: what was fed |
| `RtfGroups` | `_strip_destination_groups` | `out`, `depth`, `skipAtDepth` as in the code; `raw`: what was read |
| `EpubOrder` | the order of `extract_with_zipfile` | `members`, `items`, `itemrefs`: the archive, its manifest and spine; `opf`: the package document is there, not named, or named and absent; the order is an operator |
| `PdfPages` | `clean_pdftotext` | `pages`; the cleaning is an operator |
| `ChapterDetection` | `detect_structure` | `lines`; `counts`: what is counted in them |
| `SkillScan` | the scan of a generated skill | `disk`, `folder`: the skill as it is; `unread`, `opened`, `flagged`, `unscanned`: the scan, which looks at a file in one step and reads it in the next; `settled`: files nobody changed meanwhile |
| `BookToSkill` | the eight above side by side | their variables, and `part`, the program at work |

Each operation is one action per atomic step: a database statement that other
transactions can see or wait for, a callback between two `await`s, a critical
section of the mutex. `MC*` modules give the constants values; `*Proofs`
modules hold theorems. Definitions whose comment begins with "Mutant:" are no
part of the model: each is a definition with a plausible mistake, and the
property it is paired with in `PROJECT.json` fails with it.

What stands for data:

- A password digest is a password and a salt that counts the changes, since
  every `password=` draws a new salt and a token is bound to it. A password too
  short, or not confirmed, is `Invalid`; a blank one is refused by
  `params.expect` before the model sees it.
- The session ids of an intent are a set: the order in which their disconnects
  are published is any.
- A snapshot of the server is, per topic, the number of changes committed when
  it was read. An odd number of access changes is a user who is no
  administrator.
- A tracked file is which file it is, the name it mentions and whether the user
  edited it; the eight spellings a name is replaced in are one. A secret is
  named by the script that wrote it.
- A span is its id, its parent and whether everything else about it is in
  order; depths and sizes count.
- A document of a batch is a number, in the order of paths; a file holds the
  numbers of its sources. A parser's answer is text, a blank, invisible
  characters alone, or an exception; a word of an HTML page and a run of text
  of an RTF file stand for their place. A line of a text is what the patterns
  of `utils.py` find in it: a fence, a heading with its depth and number, an
  underline, a line of the contents; a file of a skill is clean, flagged, too
  large, in another encoding, a link, a directory or absent.

History variables (`born`, `published`, `accepted`, `told`, `lost`, `seen`,
`noticed`, the spans of a row, `walk.expected`, `latest`, `reused`, `silent`,
`settled`, `page`, `raw`) are read by properties and mutants alone.

## 3. What is checked

| Run | Question | States |
| --- | --- | --- |
| `authentication` | Do sessions, digests, tokens and intents stay consistent, do requests implement `SessionPolicy`, and does each end, in every interleaving with crashes? | 135,000 |
| `session_disconnects` | Is an intent acknowledged only when published, and in the end, with duplicates, jobs of several sessions that fail half-way, and other faults? | 1,285,000 |
| `revocation` | From the request to the browser, is every stream of a revoked session about to be closed, and closed for good, and does the application keep what `Cable` assumes? | 266,000 |
| `operations_updates` | Does coalescing lose a change? | 154,000 |
| `live_region` | Does the page go blank after a refusal, show a true badge, and use `startLiveUpdates` as it is meant? | 94,000 |
| `agent_viewer` | `startLiveUpdates` and the viewer on it: no event forgotten, no step back? Is what is shown that of the page chosen, and is a refusal final? | 149,000 |
| `live_region_failure` | Does the badge of a connected page whose last request failed never say live? It does: see 6. | - |
| `operations_freshness` | Is a visible page that is behind always explained, and does it catch up? | 437,000 |
| `template_setup` | Is a recorded configuration complete, is work kept, do secrets and databases agree, whatever was stopped, undone or run at once before? | 2,263,000 |
| `agent_traces` | Can all that is stored be displayed, does a walk skip a trace, does prune delete what is expired? | 208,000 |
| `book_to_skill` | Is metadata always that of the text beside it and every file of a batch accounted for? Is every parser tried, and no text taken for another source's? Do the parsers, the detection and the scan lose nothing they should keep, on every small input? | 1,467,000 |
| `lost_fence` | Does a fence that extraction lost hide no heading? It does: see 6. | - |

Type invariants (`TypeOK`) are proved where a module of theorems has
`TypeCorrect`, for every value of the constants. So are `OneRequestAtATime`,
`EditsAreKept` and, of `Cable` alone, `StreamsOfRevokedAreOwed`. No run repeats
them. The states of the compositions are those of
their parts. `RevokedFallSilent`, of `Cable` alone, is `RevokedSessionsFallSilent`
with the application left open; the run `revocation` checks the latter.

### Bounds

- `authentication`: one user, three sessions, two threads, one password
  change. The races are between two requests on one user (two threads); the
  third session lets one be opened after two were revoked together. Locks,
  digests and revocations are per user, and the theorems hold for any users. No
  symmetry, since `RequestsEnd` is a liveness property.
- `session_disconnects`: two intents, each of one or both of two sessions, and
  a job queued before the outbox existed, for a third; two jobs, two attempts,
  two faults. A job of two sessions can publish the first and fail at the
  second, and the two faults can be both of its attempts, or a rejection, a lost
  callback or a crash besides one; two jobs are the duplicate of one intent, or
  one for each. The code has three attempts: the theorem
  `AcknowledgedIsAlwaysPublished` holds for any number.
- `revocation`: one user, one session, an administrator's, so that all streams
  are granted, one connection, one thread, two faults, one restart, two attempts. The
  outbox is checked with more of everything; here what matters is that the parts
  meet. Connections know nothing of one another, so one will do. One thread
  revokes a session once, so a second intent is never drawn; that two may name
  one session is covered by `CableAssumptionsAlwaysHold`, for any threads.
- `operations_updates`: two threads, two topics, a queue of one, three changes
  of a topic. A queue of one is full as soon as another topic waits; a third
  change comes while one is waiting and one being broadcast.
- `agent_viewer`, `live_region`: two topics, two changes of each. `Requests`
  has two values though the code keeps to one request, so that two at once
  would be representable.
- `agent_viewer`: two traces at first and up to four, on pages of one, so that an
  earlier page is chosen from an earlier page.
- `operations_freshness`: one topic, three changes, a queue of none (every task
  is handed to the thread or refused), one request.
- `agent_traces`: three traces, two open inserts, pages and batches of two,
  four ids, one passing of time (a trace is expired or not). Three rows make
  a page with a successor, and a full batch with a partial one after it. Span
  lists: a tree at the size limit, one at the depth limit, and one list for
  each reason to refuse.
- `template_setup`: three files, one whose path keeps, one whose path has the
  name, one whose path has the prefix; three choices, two to choose after one
  another and one under which two paths collide; an ignored destination, on
  which the user may have a file; two terminals and two secrets, made in
  opposite orders; one piece of uncommitted work. Terminals are symmetric.
- `book_to_skill`: two runs, two process ids, so that runs have the same id one
  after the other or different ones at once, and `BOOK_SKILL_WORKDIR` besides;
  three files, one of an unsupported extension, named twice by overlapping
  arguments. Two sources, so that what the first leaves meets the second; four
  machines, with no tool, with all, and with two complementary halves; every
  format and an unknown extension. Pages of five tokens hold a block between
  two words with a skipped element; seven tokens of RTF a group inside a
  skipped one with text around both; three items and three references repeat an
  id and a reference; seven lines and form feeds make four pages, of which
  two share a line; five lines of text hold two blocks and a heading between,
  or a block, a heading in it and one after. `MinTitles` and `MinBody` are two and one, for three and 200: what
  matters is to be below and above them. Five files of a skill, four of
  them in the scope, against a limit of three, and two changes, before, during and between the steps of the scan. Only
  one program takes steps in a behaviour (`part`), since they share nothing
  but files that `ExtractionRuns` and `SkillScan` each model with their other
  users. Runs and process ids are symmetric.

`MaxSalt`, `MaxFaults`, `MaxRestarts`, `MaxChanges`, `MaxVersion`, `MaxId`,
`MaxTime`, `MaxWork`, `MaxTokens`, `MaxRtf`, `MaxItems`, `MaxRefs`, `MaxText`,
`MaxLines` and `MaxEdits` bound counters and inputs in guards. Runs with `CHECK_DEADLOCK FALSE` are those
in which everything may be at rest once the bounded counters are used up, or
once the process was killed or the page left.

### Fairness

- Requests: a thread goes on (weak fairness of `Continue`), and one that waits
  for a row lock gets it though others take it meanwhile (strong fairness of
  `SignInLock` and `ResetLock`): PostgreSQL grants a row lock in the order of
  its waiters. Requests need not arrive.
- Workers: a claimed job is performed, a due job claimed (Solid Queue polls
  every second); the sweep runs (`config/recurring.yml`, every minute). Faults
  are never fair, and what `MaxFaults` counts ends, so liveness is claimed for the
  time after the last one, the claim docs/realtime.md makes ("Recovery requires
  the scheduler, worker, queue database, and AnyCable to become available").
- AnyCable carries out a command it accepted, unless it restarts.
- The publisher's thread runs its tasks, and threads go on in `publish`.
- The browser fires a due timer and settles a request: fetches end within the
  ten seconds of the code's own timeout. Nothing obliges the user to show the
  tab, to stop editing or to stay.
- prune starts every hour, and, started again and again, is not stopped every
  time before its next batch (strong fairness).

## 4. What is proved

Each theorem is checked by TLAPS to the last leaf and holds for every value of the
constants allowed by the module's assumptions (bounds on counters are naturals,
limits are positive, `Nobody` is no user, and the like).

**`AuthenticationProofs`.** `Inductive` adds to the properties four facts that
they do not imply: `LockHeld` (a thread inside a user's transaction holds that
user's lock), `CheckedDigestIsCurrent` (what was checked under the lock is
still committed), `PluckIsComplete` (a reset's list of ids names every session
its user has, since no sign-in can add one under the lock, while a sign-out may
have removed some) and `OnlyDrawnIds`. From it: `TypeCorrect`,
`LiveSessionsAlwaysMatchDigest`, `RemovedSessionsAlwaysHaveIntent`,
`PasswordChangesConsumeTokens`, and `SessionsAlwaysFollowPolicy`, the
refinement of `SessionPolicy`: a commit of a reset is `Rotate`, of a sign-in
`Open`, of a sign-out `Close` or, when a reset came first, a stutter.

**`DisconnectionProofs`.** Of the outbox, `ListsAreComplete` says that what a
job still has to publish, with what was published, covers its intent. From it:
`AcknowledgedIsAlwaysPublished`, and in `TypeCorrect` that no job is performed
more than `Attempts` times. Of the sockets, `StreamsOfRevokedAreAlwaysOwed`:
`ListenersAreOwed` is inductive because `current_user` finds the session again
in the database. The two are proved each on its own, for any values of their
variables the other parts may choose.

**`RevocationProofs`.** `CableAssumptionsAlwaysHold`: requests, outbox and
workers together implement what `Cable` assumes of the application. Each step of
the composition is a step, or a stutter, of each part (`AuthStep`, `OutboxStep`,
`CableStep`), so the parts' invariants carry over through `INSTANCE`; `Linked`
adds what only the tables between them say: the outbox names revoked sessions
only, so does what a worker publishes, and an intent was drawn for one thread.
A session may be named by two intents (a sign-out beside a reset), and leaves
`Owed` with the last. `RevokedStreamsAreAlwaysOwed` then follows end to end.

**`OperationsUpdatesProofs`.** `PendingIsOwned` (the set holds exactly the
topics somebody is to broadcast) and `QueueIsWorked` make `NoChangeForgotten`
inductive, and that a topic never waits twice (`EachKeyHasOneTask`).

**`LiveUpdatesProofs`**, about `startLiveUpdates` and what is built on it.

- `PendingIsScheduled`, `TimerIsAlone`, `OldestFirst` and `AnswersAreCurrent`
  make `OneRequestRuns`, `HiddenPagesAreQuiet`, `NoticesAlwaysSurvive` and
  `SeenOnlyAdvances` follow.
- Queue pages. `RegionUsesLiveUpdates`: the controller implements
  `LiveUpdates`, so all of its theorems hold there. `EditsAreAlwaysKept`.
  `BadgeIsAlwaysTrue`: `Shown` (what was read last is on the screen or kept for
  the user, and the badge says which unless a request is to come, under way or
  failed) with the lemmas about `startLiveUpdates`: on a settled page nothing
  noticed is unseen. It assumes `NullIsNoPage`: null is no content.
- The viewer. Choosing a page starts live updates anew, and `StartStep` shows
  that each start is as good as the first. `AskedIsChosen` (a request that is
  still listened to was made with the cursor now chosen), `GoneIsStopped`,
  `PreviousIsShown` and `FirstIsComing` make `ShownIsAlwaysChosen` follow, and
  the action property `RefusalIsAlwaysFinal`. The viewer listens to one topic:
  the hypothesis `ViewerTopics`, which its page's one stream tag justifies.
- From commit to screen. `WholeUsesLiveUpdates` and `WholeUsesOperationsUpdates`:
  each step of the whole is a step, or a stutter, of the page and of the
  publisher, so the publisher's invariant carries over (`PublisherInductive`).
  `ToldReaches` is what the composition adds: a change that was told is in the
  stream, in an answer under way, seen, or about to be asked for, unless the
  page stopped, is hidden or is not subscribed. From both:
  `StaleScreensAreAlwaysExplained`.

**`AgentTracesProofs`.** `IdsAreFresh` (an id under way was in no table a walk
began with), `PruneIsLate` and `PagesShowAll` make `WalksMissNoTrace` and
`PruneSparesTheRetained` follow. That a page holds everything between its
cursor and the next rests on lemmas about the newest rows of a set, whose least
and greatest elements are found by well-founded induction on finite sets.
`RowsAlwaysDecode` is about the two programs: a row has the document of its own
spans (`DocumentsAreOwn`); the levels of a document that was accepted have no
span in common (`LevelsAreApart`) and come without a gap (`DepthsAreFirst`), so
the sum the viewer takes over them counts each span once (`SumOfLevels`). It
assumes `PayloadsAssumption`: a payload is a list of spans, and a span in order
has an id, which the recorder's `identifier` asks for.

**`TemplateSetupProofs`.** `Inductive` has three parts besides the types.
`CheckoutInv`: what is committed is the template, or configured throughout and
tracked, and a run of `bin/configure` is of a template and has renamed what it
has passed, so that the record, written last, is of a whole renaming
(`ConfiguredIsAlwaysComplete`). `SecretsInv`: of the scripts that make a secret
only the one whose exclusive creation succeeded writes the file
(`WritersAreAlone`), whence `SecretsAlwaysAgree`. `DatabasesInv`: a terminal
past the secrets found them, a set-up runs in a configured checkout only, and
so does every database (`DatabasesHaveOneName`). `WorkIsAlwaysKept`, an action
property, follows step by step. It assumes that there are secrets to make.

**`BookToSkillProofs`**, about the composition `BookToSkill`, whose steps leave
all parts but one alone.

- `MetadataFollows` is not inductive: a run in the middle of its writes could be
  in somebody else's directory, or its directory be another run's by now. `IInv`
  adds that a live run is the latest in the directory of its id (`LatestIsLive`,
  from `OnePerPid` and `Placed`), that a directory that is gone is empty
  (`GoneIsEmpty`), that between its two files a run's text is whole and its
  metadata not begun (`TextIsOwn`, `NotYetDescribed`), and that the copy about
  to replace the metadata says what the metadata says (`CopyFollowsText`).
  `OwnerInv` is about what an earlier run left: a file in a directory is of a run
  that took it (`OwnersWereHere`), one that was not there when the latest run came
  is that run's (`FreshIsLatest`), and a run that is done has its own metadata
  there, or none (`LatestDescribes`). Metadata that is not the latest run's was
  therefore found in the directory, by a run that has not succeeded
  (`MetadataIsExplained`). It holds wherever a run is killed, since no conjunct
  needs a run to go on.
- `TextIsDrawnFromItsSource`, from `Drawn`: every text on its way to the result
  names the source and a parser that was tried, unless it is Calibre's, of an
  output file that a conversion of this source reported written and did not
  write. Nothing is assumed of what the file holds before.
- `FallbacksAreTried`, from `CoveredInv`: the parsers still to try are a tail of
  the format's chain, and those that left it were tried or are missing. What
  `--check` reported stays true because tools are only ever added.
- `BatchesAreAlwaysAccountedFor`, from `BatchInv`: the sources extracted, the
  files skipped and those still to do hold each file of the command line once,
  each in its order, and those to do come after the rest (`Accounted`). The
  folds that build the lists are unfolded and followed by induction over a set
  of naturals (`Induction`, from the well-foundedness of `<`). It assumes
  `ArgumentsAreLists`, since the library's sorting has no definition that the
  provers can expand: the files asked for, once sorted, are a list.
- `OnlyDestinationsAreEverDropped`, from `RtfInv`: a group has closed or is
  still open at every place since it began (`StillOpen`), what is kept is what
  no group covers so far, and while something is skipped, it is the first of
  the destination groups still open, begun where `skipAtDepth` says
  (`SkippedFrom`). A closing brace at that depth therefore ends this group and
  no other. The braces between two places are counted by `Among`, whose lemmas
  say what one more token adds.
- `BlocksAlwaysStayApart`, from `HtmlInv`: the depth is the most elements that
  any stretch of the page up to here leaves open, so that it is 0 exactly
  outside all of them, stray end tags or not (`DepthInv`); and what is pending
  is the boundary since the last word, of which nothing is written yet
  (`PendingInv`).
- `BodiesAreAlwaysKept` needs only the type of `pages`: without a page that
  begins and ends with the same line, the votes for a line are one for each page
  that has it at an edge (`PagesVoteOnce`, a bijection), so that what is cut is
  what recurs.
- `SpineOrderIsAlwaysKept` needs of the state only its types (`EpubInv`); the
  work is to follow the folds that build the reading order, one item after
  another, by `FoldSteps`: what holds of the empty start and survives one more
  item holds of the whole. The manifest knows, of an id, the href given last
  (`ManifestIsNamed`); the reading order has each document at its first place
  in the spine followed by the rest (`OrderKeeps`, `SpineComesFirst`); leaving
  documents out keeps the order of the others (`ThoseKeep`). It assumes
  `ContentIsNamed`: the kinds of member of the run are among the reader's.
- `FencesAreAlwaysNeutral`, from `ChapterInv`: the counts a detection keeps are
  those of its text. A fence that closes encloses the lines between it and the
  one it opened with (`FencesEnclose`), and none of them is a heading. A text
  with those lines blanked has the same fences (`SameFences`), the same headings
  (`SameHeadings`, with `HeadingsAreFound`) and the same sizes, and every count
  is a function of these (`MaskIsNeutral`): no sum or median need be computed.
  It assumes `LinesAreRead`: lines are what the patterns tell apart.
- `PassedScansAreWhole`, from `Scanned`: a file of the scope that nobody touched
  is read already or still to be read. It assumes `FilesAreFinite`, so that the
  list of files names each of them.

### Only model-checked

Liveness, which TLAPS's backends do not prove: `RequestsEnd`,
`IntentsAcknowledged`, `RevokedSessionsFallSilent`, `ChangesAreTold`,
 `NoticesAnswered`, `RefusedPagesGoBlank`, `ChangesAreSeen`,
`ExpiredRowsGo`. `ENABLED` appears in no proof.

Every safety property of a passing run has a theorem.

## 5. What the models leave out

- Authentication: rate limits; the return path; a user's destruction, which
  would delete sessions past the outbox (`dependent: :destroy`), but which no
  code of the application does.
- SessionDisconnects: `find_each` reads in id order, the model in any.
- Cable: the protocol's history; the server's `sessions_ttl` is 0, so every
  reconnection is a new `connect`. A connection whose row was found before the
  revocation may be registered after the disconnect command: it stays open
  without streams, and can subscribe to nothing.
- Authentication: `Session.revoke_all` is one step, which destroys the rows and
  creates the intent (`session.rb:6-10`). Each is a statement of its own, but the
  transaction around them shows nobody one without the other, and a stop between
  the two undoes both; the model cannot tell what a missing transaction would do.
- OperationsUpdates: `flush`, which tests alone call. What a thread committed
  and had not posted when the process ended is lost unreported; `ChangesAreTold`
  excepts it (`CutOff`). That concurrent-ruby
  gives a forked process an empty executor is assumed (external).
- OperationsFreshness: forks, which `OperationsUpdates` covers.
- LiveUpdates: an abort and the `catch` and `finally` it leads to are one step
  (they are microtasks of one task). A failed request is not retried until the
  next event: the code's intent, tested in `test/frontend/live_updates_test.mjs`.
  The run checks it under the viewer, and `LiveRegion` uses it as its own users do.
- AgentViewer: the rendering React puts off after a refresh; the selection
  inside the vendored viewer; a page of traces is one trace, and none is pruned.
  After a refusal the button for the latest page stays, and pressing it puts the
  boundary's message in the place of the refusal's: the model has it.
- AgentTraces: the fetch and the display of a page are one step; the event of
  a commit or a prune is `OperationsUpdates`' concern; token counts; two prunes
  at once.
- TemplateSetup: the user edits, commits and cleans between two runs of
  `bin/configure`, never during one: the contents it writes were read before
  the design checks, and what is saved meanwhile is overwritten. What an
  interrupted run left is undone and not committed, and no `git restore` runs
  under `bin/setup`. A script stopped between the creation of a secrets file
  and its writing leaves it empty, which `setup` never repairs and `start`
  reports: the model has the state, and no property calls it wrong.
  `tmp/local_secret.txt` counts as one of the secrets.
- ExtractionRuns: `rm -rf` of a directory is one step. A run under a process id
  used before shows the earlier run's metadata until it writes its own: see 6. `BOOK_SKILL_WORKDIR`
  sends runs to one directory, where they do overwrite each other: the model
  has it, and `MetadataFollowsText` is about the others. The reading of
  `metadata.json` and the writing of the copy are one step. A batch whose
  sources all fail leaves in its directory what an earlier run left there. No property says
  that a run finishes: nothing obliges it to.
- SourceExtraction: pip installs what was agreed to and no dependency of it. An
  `ebook-convert` that ends with status 0 and writes nothing is in the model, and
  `TextIsOfItsSource` excepts it: see 6. The variable `extraction_mode`, by which
  docling's branch hands over to the text chain, is composed away in `Chain`.
  `--check` calls a PDF without any tool "fallback available", though
  extraction fails then: `Ready` is about the groups it
  reports ready. After a parser gave nothing but invisible characters no other
  is tried: the model has it as the code does.
- HtmlText: the tokenizer is Python's; attributes and entities.
- RtfGroups: what removes the control words afterwards. A stray `}` makes
  `depth` negative, and such files are not in question (`Balanced`).
- PdfPages: words split by hyphens. A page whose first and last lines are the
  same votes for that line twice, which the comment at
  `parsers/pdf.py:42` rules out for a single line; such pages are not in
  question (`HasTwin`).
- EpubOrder: patterns over the package document, and the decoding of hrefs,
  which are given decoded. Members the package does not name are left out when
  it names any. A container that names an absent package document makes the
  extraction give up the whole book (`epub.py:92,136`); `SpineOrderIsKept`
  excepts that.
- ChapterDetection: the patterns of the languages and their numerals. Numbers
  are looked for inside code blocks too, which `Speaks` excepts; the texts of
  a batch are joined, and a fence left open in one pairs with the next.
- SkillScan: the rules. `PassedMeansScanned` is about files that nobody changed
  since the scan began (`settled`): one added to `chapters/` between the two
  listings (`scan_generated_skill.py:308,323`) is neither read nor named. A file that goes while it is read ends the scan with a
  traceback, whose status, 1, is also that of findings.

## 6. Disagreements with the documentation

`live_region_failure`: docs/observability.md:20 says 'Connection failures show
"Connection interrupted"'. A request that fails while a fetched copy waits for
an editing user sets the badge to offline; when the user stops editing,
`renderPending` shows the older copy and sets the badge from the stream's
connection alone, and nothing is scheduled that would correct it. The run's
trace has the stream connected throughout its last steps, and ends with the
badge at live.

`lost_fence`: utils.py:388 says that "a fence that never closes is treated as
ordinary text rather than swallowing everything after it", since "extraction
routinely loses a closing fence". It is, when no other fence of its character
follows. Otherwise that one closes it, though it is the opener of the next
block: in the run's trace a heading between two code blocks is counted, and
no longer once the first block has lost its closing fence. `FencesAreNeutral` says what
does hold: such a heading stands between two neighbouring fences of one
character.

Four more cases have no run of their own: three comments that are not borne out,
and an output file that is trusted too far. Where a property is about the same
code, it excepts exactly the case named here, so that the passing run and the
theorem say that nothing else goes wrong.

- config.py:9 calls the work directory "unique to this process", so that an
  agent cannot pick up "a *different document's* extraction", and SKILL.md:233
  says that its name "differs per run". A process id is given out again, and
  `prepare_output_dir` keeps what it finds: a run under a used id shows the
  earlier run's metadata.json and full_text.txt until it writes its own, and for
  good if it fails. `MetadataFollowsText` allows this (`LeftOver`), and nothing
  while the directory is the run's own or once the run has succeeded.
- parsers/calibre.py:20 takes the output file for this source's once
  `ebook-convert` ends with status 0 and the file exists; every source of a
  directory has the same output file and nothing removes it. A conversion that
  succeeds without writing has an earlier source's text published as this one's.
  `TextIsOfItsSource` allows this (`silent`) and no other way to it.
- The batch loop relies on every failure being an `ExtractionError`
  (utils.py:843), which an error of bs4 or of `HTMLParser.feed`
  (parsers/html.py:124,133) and the end of input in dependencies.py:184 are not
  (`RejectedMarkup`, `Interrupted`).
- A setext underline counts "only directly under a title at least as long as the
  underline" (utils.py:461), where the code asks for an underline at least as
  long as the title (line 485).

## 7. Plan

The modules planned are written. What would come next:

1. `Harness`: what `bin/load-test`, `bin/realtime-test` and `bin/image-test`
   start and remove, with a failure or an interrupt at each step.
2. `ConnectionPools`: the settings `ConcurrencyConfig` accepts against the
   connections the threads hold.
