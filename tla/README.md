# A TLA+ model of Language Trainer (ankiweb)

This directory holds TLA+ specifications of the concurrent core of the
program under `src/ankiweb`, the TLC configurations that check them on small instances and the
TLAPS proofs of the theorems that hold on all instances.

    tlc -config ReviewLeases.cfg MCReviewLeases.tla
    tlapm ReviewLeasesProofs.tla

and likewise for the other runs of section 4 and the other `...Proofs` modules of section 5.

The names of actions and variables follow the source. A definition whose line ends in the
comment `mutant` is a plausible mistake in the definition that follows it; it is used only to show
that a property notices it.

## 1. The system

Language Trainer is a single Python process (FastAPI on one asyncio event loop) that owns one Anki
collection and serves it to several kinds of clients. In production only the language trainer's
pages and API are mounted; in development also Anki's own screens and an AnkiConnect API.

| Component | Source | State | Operations |
|---|---|---|---|
| Review leases | `anki_core/review_sessions.py`, `anki_core/adapter.py` | live sessions, card to token table, ended tokens; the adapter's lock | next, check, answer, suspend/unsuspend/bury, tts, backup |
| Collection service | `collection_service.py`, `collection_lock.py` | owner lock, collection handle, generation, service lock, worker queue | open, reopen, close, run, run_op, full import |
| Lesson imports | `anki_core/lesson_imports.py`, `language/` | notes of a deck, receipts on disk | preview, commit, list receipts |
| Backups, maintenance | `operations.py`, `anki_core/migration.py`, `tools/` | bundles on disk, last success | bundle, verify, daily loop, restore |
| Deck notifier | `notifier.py` | configuration, baseline of acknowledged counts, wake-up event | update, resync, tick |
| Authentication | `auth.py`, `app.py` | sessions, login attempts, audit log (SQLite) | login, authenticate, logout, password change |
| Lifecycle | `app.py`, `__main__.py`, `production.py` | background tasks | start, stop, health |
| Browser bridge | `bridge/` | sockets per screen, pending calls, one UI state | register, dispatch, broadcast, eval with callback |
| Reviewer screen | `screens/reviewer.py` | the card in flight | show, answer, ease, undo, bury, ... |
| Editing screens | `screens/browser.py`, `editor.py`, `add.py`, `fields.py`, `card_layout.py`, `notetypes.py` | selections, working copies | edit and save |
| Deck screens | `screens/routes.py`, `deckbrowser.py`, `overview.py`, `filtered_deck.py`, `custom_study.py`, `tools.py` | the report of the last check | open, build, empty, check, export, import |
| AnkiConnect | `ankiconnect/` | none of its own; it reads and writes the UI state | about 120 actions, mostly one call each |
| Backend RPC | `anki_rpc/` | none of its own | pass-through to Anki Core |
| Web client | `web/src/` | the card on screen, counters | next, check, rate, suspend/bury, import |
| Shell | `shell_src/` | socket, queue of commands | pycmd, reconnect |
| Anki Core | library | the collection | external |

How they interact:

* Every access to the collection is a *job*: `CollectionService.run` takes an `asyncio.Lock`,
  submits a function to a pool with one worker thread and awaits it. Between the steps of a handler
  other handlers run; between two jobs of one handler other jobs run.
* `AnkiAdapter` adds a lock of its own around each handler of the review API, lesson imports and
  backups. The screens and AnkiConnect do not take it, so they may change cards while a review
  handler awaits.
* After a mutating job `run_op` calls every subscriber (the sockets of all tabs). A subscriber that
  raises makes the caller fail *after* the collection has changed.
* The daily backup, the notifier, `/healthz` with its timeout and the shutdown of the server cancel
  handlers at their awaits; a job that already runs is not stopped by that.
* Several processes (a second server, the maintenance tool) may be given the same file; an
  advisory lock decides.

What is hard here: checks made before an await and relied on after it, partial failure between the
change and its announcement, cancelled calls whose jobs run on, handles replaced behind cached
state, retries of requests that were already carried out, crashes between two steps on disk.
`PROJECT.json` lists these hazards at their lines with the properties that cover them.

What makes each component correct:

* review leases: a card is leased to one client at a time; an answer counts once, and only on the
  scheduling state the client was shown; an ended token stays ended and says truly why.
* collection service: only the owner has the file open; one handle; jobs find it open; calls end.
* lesson imports: a preview announces what the commit does; committing again changes nothing.
* backups: a bundle that verifies is complete and restorable; the daily loop recovers.
* notifier: nothing is posted to a stale address, no edit is lost, the receiver eventually agrees.
* authentication: an expired or revoked session never authenticates again.
* screens: a page that was told of every change shows the collection as it is, so that its buttons act on
  what it shows; a form that is not out of date saves exactly what it says.
* AnkiConnect: an action on several notes does all or nothing where it promises so.

## 2. Plan

In the order of importance:

1. `ReviewLeases`, `ReviewContract`, `ReviewLeasesProofs`: done.
2. `CollectionService`, `CollectionServiceProofs`: done.
3. `DeckNotifier`, `DeckNotifierProofs`: done.
4. `LessonImport`, `LessonImportProofs`: done.
5. `Backups`, `BackupsProofs`: done.
6. `AuthSessions`, `AuthSessionsProofs`: done.
7. `Desk`, the modules of its screens (`ReviewerScreen`, `BrowserScreen`, `NoteForms`, `NoteTypes`, `DeckScreens`,
   `CardActions`, `RawCalls`) and `Screens`, which composes them; `NoteTypesProofs`, `DeskProofs`: done.
8. `ReviewPage`: the page's requests and counters composed with `ReviewContract`.

One run per question. The models process a batch item by item where they can. Where a property speaks of the result of a
whole list (`Outcome`, `Written`, `Ordered`) the result is a recursive function, which the proofs can take apart.

## 3. Modules

### ReviewLeases

The `ReviewSessionStore` is the record `store` (live sessions, `_card_tokens`, `_terminal`). A
handler of `AnkiAdapter` is a chain of actions from one await to the next; `pc` says where the handler
that holds `AnkiAdapter._lock` stands and `req` holds its local variables.

| Code | Actions |
|---|---|
| `next_review` | `NextReview`, then `LoadCard` or `LoadNothing`, then `CreateSession` |
| `check` | `Check` (a card without an expected text is revealed at once), `Reveal` |
| `answer` | `Answer`, then `AnswerCard`, `AnswerDone`, or `AnswerConflict` |
| `suspend`, `unsuspend`, `bury` | `CardAction`, `ActOnCard`, `ActDone` |
| any refused request, `tts_spec`, a resumed `next_review` | `LookUp` |
| `operational_backup` | `Backup`, `BackupExport`, `BackupDone` |
| any exception of a job, or of a subscriber after it | `Fail` |
| other screens, AnkiConnect | `ChangeCard`, `Undo`, `Reopen` |
| `time.monotonic` | `TimePasses` |

Abstractions. A token is the number of its creation (`secrets.token_urlsafe` never repeats). All
leases live equally long, so they lapse in the order of creation and "now" is the number `horizon`.
The fingerprint of a card is a number that each change makes new and only undo brings back, and a place
(ready, held, moved, gone). Which due card the scheduler queues first is left open. `answer` with
`continue_session` is `Answer` followed by a `NextReview` of the same client. The queue of the worker
is not in this module: a job is one atomic step, and jobs of others may precede it. Undo keeps at most
thirty steps in Anki; the model lets any number be undone that the bound on changes admits. A request
that is cancelled in the middle of a handler (only at a shutdown that lasts too long) is not modelled:
no request is served after it.

`ReviewContract` is what the clients are promised: grant, end, record, retract. `ImplementsContract`
maps the store's table to `lease` and the review history to `counted`.

### CollectionService

One record per process of the owner lock, the lifecycle task (`life`), the handle `_col`, the objects
whose file is open, the generation, the holder of and the waiters for the service lock, the worker's
queue and the call each task is in. `Open` to `Exit` are the lifecycle; `Begin`, `Grant`, `RunJob`,
`Resume` and `Cancel` are a call. The operation "export" is the export screen: its job closes the
collection, and the handler then calls `reopen` (or renders an error page, which is another job).
Cancelling a call may withdraw its job or leave it running for nobody.

Assumptions: opening a file that this process has just closed works (in `reopen`, and after a full
import or a backup); `close` is called when no call is left, because the servers await or cancel their
requests and the background tasks first; the export screen exists only in the development servers, which
have no shutdown timeout, so export calls are not cancelled. The auxiliary pool is not modelled.

### DeckNotifier

The task of `DeckNotifier` goes from await to await: `Cycle` (a wait ends and the loop reads the
configuration), `Fetch` or `FetchFails` (the snapshot job), `Consider` (the diff, the zeros for decks that
left, the check that nothing was edited), `Deliver` and `Acknowledge` or `PostFails` (the post). `pc` says
what it awaits; `cfg`, `current` and `payload` are its local variables. `Edit` and `EditFails` are
`set_notify_config` and the form, `MoveTree` the collection, `Restart` the process.

Abstractions. The counts (new, learn, review) of a deck are one number. Intervals are left out: a wait
with a timeout may end at any moment, a wait without one (a disabled notifier) only by the event. The
status panel's counters are left out. The receiver applies a payload before its answer or timeout, or never: a
payload that arrives after its repetition is the receiver's to notice (`ts`). Configurations carry
the number of their edit, because the code compares objects (`is`), not values.

### LessonImport

Each page (`form`, `shown`), the queue of requests at the adapter (`server`; the first holds its lock),
the job that plans a batch (`plan`) and the receipts. `TypeForm`, `RunPreview`, `Commit` and `Disconnect`
are the page; `StartJob`, `ProcessCard` (once per card), `FinishJob`, `Emit`, `SaveReceipt` and `Fail` are
the handler; `EditNote`, `DeleteNote`, `AddNote` and `ChangeModel` are other screens' jobs, which cannot
run inside the job. `Planned` is the body of the loop of `process_lesson_batch`; `Outcome` is the loop over a
batch and serves only the properties.

The note type of each card type has a condition (`models`): usable, gone (or without the field of the text), without
a field of the metadata, or unfit otherwise. As in the code (`Begun`, `Ignored`), a job looks up the note types of its batch
only and leaves out of its index the notes of those it found wanting; a note of another such type is matched, and a
commit that has to fill in a field the note lacks raises (`Raises`), with what earlier cards did done. `ChangeModel` and
the initial states give the types their conditions.

Receipts carry the number of their request, and `maker` is history: which request made each note. So
`ReceiptsAreTrue` can say that a note in a receipt is one this import made, that all the notes it made are there,
and that each is in the deck with the text and tags of its card until another screen touches it (`touched`).

Abstractions. The text of a card is its duplicate key (with the kind of its type); Language and CEFR are
one field that may conflict, Topic and Source one that may be filled; statuses drop their `would_`. A card
that fails validation is one whose type is gone for good. Each note is written by a transaction of its own, so a
job that raises half way leaves what it has written.

### AuthSessions

Every method of `AuthManager` is one SQLite transaction under its lock, and so one action; what lies between
two of them is in `admitted` (`login_submit` has asked `login_allowed` and awaits the form) and `leaving` (the
middleware has authenticated a logout that is not carried out yet). `Refuse`, `Request` and `AskLogout` are
`authenticate`, `Logout` is `revoke_session`, `Login`, `WrongPassword` and `RightPassword` are the login,
`Restart` is a new `AuthManager`, perhaps for another password. The database survives restarts. A browser may
present any token ever issued, and give any one or none as its previous token.

`used`, `ended` and `slips` are history: the true time of last use beside the noted one (`seen`), the
tokens that must never work again, and the failures that were recorded while their address was blocked.
Abstractions: a password is its fingerprint, `failures = 0` is the absence of a row, the clock never runs
backwards, the application secret is not rotated. CSRF tokens and origins only decide whether one request is
served, and the audit log is never read; they are left out.

### Backups

One server process with `DailyBackups`, the offline tool and the crash of either. `Begin` to `Finish` are the steps of
`create_bundle_locked` under the adapter's lock (export, snapshot, receipts, manifest), `Scan`, `Counting` and `Wake`
the loop of `DailyBackups.run` with its delay; `Backup` and `Restore` to `Report` are `tools/maintenance.py`. The tool owns
the current collection while it makes its backup and closes it then (`Finish`): during the restore, whose progress is `restore.step`,
it has only the new directory open, and a server may be started, change the collection and make bundles. The bundle is verified once;
its package is checked again when it is imported, its snapshot speaks in the comparison, its receipts are copied as they are
(`Unpack`), so `Spoil` may damage what the restore still has to read. `restore.found` is history: the collection as the tool found it. A file
is missing or has contents; the contents of a collection are the set of changes it has seen. `Change` and
`Receipt` are a lesson import, `Spoil` damages a bundle, `Fail` is any step that raises, `SetBack` a clock that is set
back. The daily loop exists in production only, where neither the screens nor AnkiConnect are mounted: every other
writer takes the adapter's lock, which the loop holds from the first step of a bundle to the last.

### Desk and its screens

`Desk` is the browser bridge of the development server. A tab has a page, a socket and what it shows; a
socket has commands the server has not read; `run` is the handler at work for each socket (the server reads a
socket's next command when the last one is done) and for one client over HTTP (`Connect`); `ui` is the hub's `ui_state`.
A job, the code behind it up to the next await and its sends are one action, because nothing else that uses
the result runs in between; which waiting job is next is left open. `Commits` and `Undoes` are transactions on the
collection `col` and its undo stack, `Broadcasts` what the shell of a page does on their flags: the browser asks for a refresh,
another page loads again, the pages of the screen that made the change do neither. A send to a page that
has gone may raise: the pages after it get nothing and the handler ends. `missed` is history: a change was not told to
some page, because a send failed, the code sends nothing, or the page was drawn and had no socket yet.

| Module | Code | State of its own |
|---|---|---|
| `ReviewerScreen` | `screens/reviewer.py`, AnkiConnect's `gui...` review actions | `session`: the card in flight, one for all tabs |
| `BrowserScreen` | `screens/browser.py`, `guiBrowse`, `guiSelectCard` | (in `ui`: last query and selection) |
| `NoteForms` | `screens/add.py`, `editor.py`, AnkiConnect's actions on notes | `form`: type, tags and note that the server keeps for all tabs |
| `NoteTypes` | `screens/fields.py`, `card_layout.py`, `notetypes.py`, AnkiConnect's actions on models | stored types, the dictionaries `col.models` caches, the open forms |
| `DeckScreens` | `screens/deckbrowser.py`, `overview.py`, `filtered_deck.py`, `custom_study.py`, `tools.py` | `report`: the last list of empty cards, for all tabs |
| `CardActions` | AnkiConnect's actions on cards and decks | |
| `RawCalls` | `anki_rpc/handlers.py` | |

`Screens` composes them and `MCDesk` gives the values. A *desk* is the page each tab starts with, the pages it may get to, the commands its user may
give, the requests that may come over HTTP, how many of either, and the collection; the run checks all desks.
Abstractions: a note has one field, whose text may differ from another one's in markup only; a card is due or
not, its scheduling a counter; note types are lists of items with a name, a look and, for those that are stored, an
identity. What Anki Core does (transactions, undo, queues, the cache of note types) is modelled from its use and marked external. Whether making a deck the current
one is announced is left open: the code counts on no flags (`collection_service.py:121`), the tests allow for them.

## 4. Runs

| Run | Result | Bounds |
|---|---|---|
| `leases` | passes, 1.9 million states | 2 clients, 2 cards of one deck, 2 tokens, 2 changes, 2 openings; a table of one ended token, so that it overflows |
| `collection` | passes, 130 thousand states | 2 processes, 2 tasks, 3 generations, 2 cancellations of a start, 2 orphaned jobs |
| `collection_export` | passes, 6.5 thousand states | 1 process, 2 tasks, all operations, 1 cancellation of a start |
| `cancelled_open` | violated | 2 processes, 2 cancellations of a start |
| `export_fails` | violated | 1 process, export only |
| `notifier` | passes, 217 thousand states | 1 deck with counts 0..2, 2 receivers with different scopes, 2 edits, 1 move of the deck, 1 restart |
| `notifier_phantom` | violated | 1 deck, 1 receiver, 1 edit, 1 move |
| `lessons` | passes, 1.8 million states | 1 page, 2 batches of 2 cards (one with both types, one with one), 3 requests, 1 change by others, 1 restart, at most 1 note type that cannot be used |
| `auth` | passes, 1.6 million states | 2 browsers behind one address, 2 tokens, 2 passwords, clock 0..6 |
| `lesson_preview` | violated | 1 page, a preview and a commit |
| `backups` | passes, 258 thousand states | 1 change of the collection, 1 crash, 1 use of the tool, 1 damaged bundle, the clock set back once (but not during a restore); interval and grace of 1 |
| `desk` | passes, 1.1 million states | 19 desks with 2 tabs, 3 sockets, 5 cards, 3 decks of which one is filtered, 2 note types, and 1 to 3 commands or requests each |

Why these bounds suffice: two clients compete for a card with two tokens (one ends, one begins); two
changes allow a change and its undo, or an answer and a change; two openings allow one reopening between
showing a card and rating it. In `collection` two tasks suffice for a holder and a waiter, two orphans fill
the queue before a third job. In `notifier` two edits allow to leave an address and to come back, or to edit
during an await and again during the next; decks do not interact, so one is enough. In `lessons` three
requests are a preview, a commit that goes wrong anywhere, and its repetition while the first may still run; the
deck starts with no, one or two notes of the repeated text, and one batch leaves out a type that may be unfit. In `auth` the clock passes both lifetimes (4 and 5), the touch interval (2), the
longest delay and the window (3); two browsers are one login that overtakes another. In `backups` a bundle and
the tool take less than a unit of time (a server that is started during a restore scans, makes bundles and changes the collection,
but the restore ends before it waits for another day; what either does with time does not depend on the other), daily
bundles are forgotten once they are too old to count or known to be damaged, and others after one unit, so that the state
space is finite while the loop goes on for ever. The tool is used once at a time. In `desk` two tabs on one screen, or on two, are
one that makes a change and one that must notice it; three commands are two that race and one that undoes or
repeats, and a third socket is a page that has gone and is not noticed yet. Cards are moved to the second deck only, filtered
decks find all cards or those that are due, `addNotes` is given two notes of which none, one or both are refused, and does
not run when fewer numbers are left than it adds notes.

Fairness. `ReviewLeases`, `LessonImport`, `AuthSessions` and `Desk` state safety only: which requests arrive is the clients'
choice, so their specifications have no fairness. `CollectionService` assumes weak fairness of the steps of the event loop
and of the worker (`OpenDone`, `BackOut`, `Disown`, `CloseDone`, `Grant`, `RunJob`, `Resume`), which run
whenever they can: asyncio runs ready callbacks, the pool has a thread of its own and Anki's calls return.
`asyncio.Lock` serves its waiters in order; that is in the model, not an assumption of fairness. Nothing is
assumed of `Begin`, `Cancel`, `Open`, `Close` or `Exit`. `DeckNotifier` assumes weak fairness of `Cycle` and
`Consider` (the loop runs; every wait of an enabled notifier has a timeout, a disabled one is woken by the
event) and strong fairness of `Fetch`, `Deliver` and `Acknowledge`: a snapshot or a post may fail again and
again but not always, which is what "every retry interval until it succeeds" (README.md:267) presumes.
`Backups` assumes weak fairness of `Tick` and `GiveUp` (time
passes and a restore does not last for ever), `Scan`, `Wake` and `Receipt` (the loop and the handlers run) and strong fairness of `Begin` and of each step of a bundle: a step may fail
again and again but not always, as the loop's retries presume. The notifier's runs do not check for deadlock, because a notifier that is disabled idles until somebody edits it, nor does `desk`, whose users stop after their last command.
Symmetry is used in the runs without liveness only.

### What the violated runs show

* `export_fails`: a failed collection export closes the collection for good
  (`screens/routes.py:231`): the handler renders its error page without reopening it.
* `cancelled_open`: the second cancellation of a start gives the ownership away while the open still
  runs on the executor (`collection_service.py:67-71`). `OwnerHoldsUnlessCancelledTwice` is what holds.
* `notifier_phantom`: after any new baseline (a resync, a restart, re-enabling, another address) a deck that
  was told nonzero and has since emptied is never zeroed (`notifier.py:191`). `EmptiedDecksAreZeroed` is what
  holds.
* `lesson_preview`: of two cards with the same text a preview skips the second, a commit merges it
  (`lesson_imports.py:76`). `ExactForDistinctCards` is what holds.

### Disagreements met while modelling that have no run

* A backup reopens the collection behind the same `generation` (`migration.py:96`), against the docstring
  at `collection_service.py:46`. `LeaseInv` shows that this is harmless as long as the backup also replaces
  the session store; its mutant `BackupKeepsLeases` is the case where it is not.
* "On enable ... every deck with nonzero counts is pushed once" (README.md:247-249): a notifier that is
  disabled and enabled again during one await sees the same signature and pushes nothing.
* "Deleted/renamed decks drop silently" (README.md:269): they are posted once with zeros (`notifier.py:220`).
* An import looks up the note types of its batch only (`lesson_imports.py:29`), but matches notes of every type
  (`:43`). A note whose own type has lost a field of the metadata is announced as updated, and the commit raises a
  `KeyError` at its card (`:107`), after earlier cards were written and without a receipt. `CommitFollows` allows for that commit, and for no other
  difference; `Repeatable` shows that it ends at the same card each time.
* "Fails before touching Anki if another owner is running" (`tools/maintenance.py:39`) holds for the pre-restore backup. The
  tool gives the ownership back before it opens the target (`:44`), so a server can be started and change the current
  collection; the backup then is of what the tool found, which is what `ReportsAreTrue` promises, and not of what there is when the report is written.
* The receipts of a bundle are verified before the pre-restore backup and copied after the import (`tools/maintenance.py:61-62`):
  damage in between is copied, and the report says that the restore passed. `ReportsAreTrue` names this case.
* The import form can be edited while its preview is awaited; the answer is then shown beside another batch, and
  the import button commits that one (`LessonImportsPage.tsx:122`). `CommitsWhatWasPreviewed` exempts this order.

* Note types (`NoteTypes`). A form that was drawn before another one was saved finds items by their place, so it
  renames or deletes another field than the one the user saw (`fields.py:142`); a save of such a form that fails
  half way leaves the cached dictionary changed, and the next save of the type stores what was left (`CleanUnlessStale`
  exempts both, `strayed`). A form that was rendered from such a dictionary names places that the next save moves, so it is
  stale although it shows what is stored (`UpToDate` compares the places too; five steps, which the proof met and the run is too
  short for). Two names exchanged in one form exchange the fields. The guard of the last note type is a job before the
  deletion (`notetypes.py:122`; `TheLastTypeStays` exempts it, `races`).
* Reviewer. Two ease commands in a row answer a second card whose answer nobody was shown (`reviewer.py:263`). "mark"
  saves the note as the session cached it and takes back an edit that was not announced (`reviewer.py:306`).
* Bridge. A send that fails ends the handler, and the pages registered later are not told (`hub.py:30`). A page that is
  drawn before its socket is registered misses what changes in between (`routes.py:36-63`, `ws.py:27`).
* Browser. The server's selection outlives a refresh and a change of deck, while the page shows nothing selected; a change of
  note type whose selection was cleared by another button in between converts all notes of the old type (`anki_rpc/handlers.py:50`).
* Add and edit pages. Their state on the server is shared by all tabs and their loads are pushed to all: a reload that races a
  change of the note type shows another type than the one that will be added to (`add.py:127`), tags are saved to the
  note that any tab loaded last (`editor.py:134`), and `guiAddCards` fills a form with another type and other tags than the
  server keeps.
* Deck pages. The overview's commands act on the current deck, not on the one it shows; the tools delete the cards of
  the last report of any tab, though they were filled since (`tools.py:110`).
* AnkiConnect. An undo after a failed `addNotes` brings its notes back; `answerCards` and `setEaseFactors` that raise half way
  leave what is done untold (`cards.py:227`); `relearnCards`, `replaceTags`, `guiDeckOverview` and `guiDeckReview` announce nothing.
* Backups. A clock that is set back stops the daily backup until it has caught up; health says so (`operations.py:62, 77`).
* The review page counts suspended and buried cards as recorded answers (`ReviewPage.tsx:113, 150`).

## 5. Proofs

`ReviewLeasesProofs` proves, for all clients, cards, decks, limits and bounds that satisfy the named
assumptions of `ReviewLeases`:

| Theorem | States |
|---|---|
| `LeaseInvHolds` | the inductive invariant `LeaseInv` |
| `TypeCorrect` | `TypeOK` |
| `LeasesAreExclusive` | `LeasesExclusive` |
| `ClientsAreResumed` | `OneSessionPerClient` |
| `ConsumedIsTrue` | `ConsumedWasApplied` |
| `SessionsArePinned` | `SessionPinned` |
| `StaleAnswersAreRefused` | `AnswersWhatWasShown` |
| `AnswersCountOnce` | `AtMostOnce` |
| `LeasesImplementContract` | `ImplementsContract` |
| `EndedTokensStayEnded` | `EndedForGood` |

The argument. The exclusive table is kept by every operation of the store alone (lemmas about `Remove`,
`Expire` and `Create`); what needs the handlers is that a card that was free in the load job is still
free when its session is created: `HandlerRelies` says so, and holds because only the holder of the
adapter's lock creates sessions. That an answer reaches what was shown needs the session to agree with
the view (`SessionsMatchViews`) and equal generations to mean equal handles, which is false during a
backup and true again when the store is replaced (`HandlesTracked`). That an answer counts once is not
inductive: the retry of a token is refused because the card's scheduling has moved on, and an undo may
move it back. `AnswersMovedOn` is the strengthening: the state an answer was given on differs from the
card's state now and from every later state an undo can restore, so the fingerprint can match again only
after the answer itself was undone; `NothingFromTheFuture` makes each change new. The contract follows
step by step from the same invariant. An ended token stays ended because tokens are numbered in the order of creation:
whatever puts a session into the table creates a new number.

`AuthSessionsProofs` proves, for every positive setting of the lifetimes and any tokens, browsers and
passwords:

| Theorem | States |
|---|---|
| `SessionsInvariant` | the inductive invariant `SessionsInv` |
| `ActiveSessionsStayHolds` | `ActiveSessionsStay` |
| `EndedForGoodHolds` | `EndedForGood` |
| `AcceptedInTimeHolds` | `AcceptedInTime` |
| `AttemptsAreCounted` | the inductive invariant `AttemptsInv` |
| `FewLoginsSlip` | `FewSlips` |
| `BlocksNeverShrink` | `BlocksGrow` |

Expiry is judged by the noted time of last use, the promises speak of the true one. The invariant bounds the
difference: a note trails the use by less than `Touch`, because an accepted request that is not noted comes less
than `Touch` after the note. Two notes fit into `Idle` (`TouchFits`), so a session used every half of `Idle` is
never found idle; and a note is never later than the use, so an idle one is always found so. The
second half says that the revoked rows are exactly the ended sessions, which a password that comes back needs:
its sessions match the fingerprint again and only the revocation at start-up keeps them out.

The failed logins have an invariant of their own. A block lasts as long as the delay of the last failure; a failure
while it lasts can only come from a login that was admitted before (the set `admitted`), and uses it up, so there
are fewer of them than browsers (`IsFiniteSet(Browser)`). The delays are powers of two whose exponent the code caps at 16: that they grow is
a lemma of seventeen cases (`Powers`), not an induction.

`CollectionServiceProofs`, for any processes and tasks:

| Theorem | States |
|---|---|
| `ServicesStaySound` | the inductive invariant `ServiceInv` |
| `OwnersHold` | `OwnerHoldsUnlessCancelledTwice` |
| `CallsKeepTheirs` | `CallsKeepTheirCollection` |
| `JobsFindTheCollection` | `JobsFindItOpen`, of a server without the export screen |

`ServiceInv` says for each stage of a process's life (`Staged`, `Holds`) which jobs its queue may hold and from whom (`Awaited`), which handle
is open (`OpenFiles`) and that the lock of the service lies with the one task whose job is awaited (`Called`). The
ownership needs `cancels <= 1`: the second cancellation of a start is what `cancelled_open` shows. `JobsFindTheCollection` has the hypothesis
`"export" \notin Ops`, which is the production server: with the export screen a failed export closes the collection for good
(`export_fails`) and the jobs after it do not find it open.

`DeckNotifierProofs`, for any decks, counts and receivers (`Url # {}`):

| Theorem | States |
|---|---|
| `NotifierKeepsItsShape` | the inductive invariant `NotifierInv` |
| `BaselineStaysHeard` | `BaselineWasHeard` |
| `NoTargetIsStale` | `NoStaleTarget` |
| `AckedIsTheSnapshot` | after an acknowledged post the baseline is the snapshot |

What the baseline says of a receiver was delivered to it, or is in the payload at hand; the payload was computed from the
baseline of the same configuration, and an edit in between drops it because configurations are compared by
identity.

`BackupsProofs`, for any interval, grace and bounds:

| Theorem | States |
|---|---|
| `BackupsKeepTheirShape` | the inductive invariant `BackupsInv` |
| `BundlesStayWhole` | `BundlesAreWhole` |
| `HealthStaysTrue` | `HealthIsTrue` |
| `ReportsStayTrue` | `ReportsAreTrue` |

A bundle is written file by file and has its manifest last, so what verifies was finished while the adapter's lock was held; the
collection does not change meanwhile. A report rests on what was true when the tool let go of the collection: that a pre-restore
bundle holds what it found (`Safe`), which no server and no damage takes back, and that the target has passed the comparison with a bundle that is whole.
That the youngest daily bundle is found among any number of them is the least
element of a set of numbers (`WFMin`).

`LessonImportProofs`, for any tabs' batches, texts, topics and models (`LessonAssumption`):

| Theorem | States |
|---|---|
| `ImportsKeepTheirShape` | the inductive invariant `ImportInv` |
| `NoTwinsArise` | `NoTwins` |
| `ReceiptsStayTrue` | `ReceiptsAreTrue` |
| `ConfirmedStaysDurable` | `ConfirmedIsDurable` |
| `OnlyPreviewedIsCommitted` | `CommitsWhatWasPreviewed` |
| `CommitsAreRepeatable` | `Repeatable` |
| `PreviewsAreExact` | `ExactForDistinctCards` |

Cards are processed one by one, so the invariant says of the job under way that the first cards of its batch are in the
deck, each as its decision says, and that a decision to add is made only when no note has the text. What a receipt will say is true
of the plan while the job is under way (`Claimed`, the same `TrueOf` as of receipts); the requests are numbered in the order they are
carried out (`Numbered`), so no note of an earlier or later request is taken for one of this.

The last two theorems speak of what a whole batch does, of any length. The library's induction theorems take an operator as
a parameter, which the provers cannot instantiate; the lemma `Inductive` states induction for a *set* of numbers instead,
by its least missing element (`WFMin`). `CourseExists` shows that the recursive function of `Outcome` exists, so that a batch is the sequence of
its steps. A commit can be repeated because a card that was processed is `Final`: processing it again changes
nothing, and no later card of the batch takes that back. A preview is exact because the decision about a card depends only on
what is known of its own text (`Alike`), which the cards before it, of other texts, leave alone in the preview
(which only plans notes) and in the commit (which makes them). Where the commit raises it does so at a card that the preview announces
as an update of a note whose type is not of the batch: a type of the batch that is not usable is neither indexed nor added to.

`NoteTypesProofs`, for any note types, forms and names, and any desk:

| Theorem | States |
|---|---|
| `TypesInvHolds` | the inductive invariant `TypesInv` |
| `CacheIsClean` | `CleanUnlessStale` |
| `OneTypeStays` | `TheLastTypeStays` |
| `DataIsKept` | the inductive invariant `DataInv` |
| `FreshFormsAreExact` | `FreshSaveIsExact` |

The heart of `CacheIsClean` is `FreshFormsAreKnown`: a form that is up to date fails before it has changed anything, or not at
all. A form that only *looks* up to date does not have this property (section 4). `OneTypeStays` needs that an undo
finds a type too, so the invariant speaks of every state that is kept for undo, and that each type a page is about
to delete has another one beside it as long as no deletion overtook another.

`FreshFormsAreExact` follows a save through its four stages, each a permutation of what the rows ask for (`MadeOf`: the list
has one item for each of the rows, with the row's name and the data of the place it names): the items with a row are kept and renamed
(`RenamedIs`), the new ones follow (`ExtendedIs`), and each round of the ordering finds the item of its row by name and moves it
behind those that are in their places (`PlacedIs`, `OrderedIs`). It rests on `DataInv`: every item has data of its own, so that a place names one
item, what is cached is within what is stored, and no form names a place twice. That is kept by stale forms, by
saves that fail half way, by AnkiConnect's changes (`ChangesAreWritable`) and by Anki's numbering of the items it writes (`WrittenIs`: there are
more numbers than items, so one is spare). Because Anki stores no two items with one identity, `StoredAssumption`
asks it of the types the run begins with (`Proper`); `ItemsAssumption` says only that the bound on lists is a number.

`DeskProofs`, for any desks (tabs, sockets, notes, decks, commands and requests, of any number) that satisfy `NumbersAssumption`
(sockets and notes are numbered from 1, and 0 stands for none) and `DesksAssumption` (a desk begins with a sound collection;
its requests are of the modelled kinds):

| Theorem | States |
|---|---|
| `DeskInvariant` | the inductive invariant `DeskInv` |
| `ReviewersShowIt` | `ReviewersShowTheNextCard` |
| `BrowsersShowIt` | `RowsAreCurrent` |
| `DeckPagesShowIt` | `DeckPagesAreCurrent` |
| `NewNotesHaveNoTwins` | `NewNotesAreNew` |
| `NotesTogether` | `AllOrNothing` |
| `OldestNotesStay` | `TheOldestStays` |

The three properties of pages speak of moments at which the server rests, so none of them is inductive. `Heard` is: while nothing was
missed, each page shows what it should (`ShowsIt`), or it has a socket and what will draw it again is under way (`Awaited`): a
handler that searches, loads or reloads, or a command in the box of a socket that will begin one. At rest there is
no handler and no command, so what is left is that the page shows it. `Linked` is what makes the awaited
thing reach the page: a page that has loaded has an open socket to itself. The proof has one lemma per action. Most of them follow from a few
lemmas on what a step owes the pages: nothing if it leaves the collection and the sockets alone, a broadcast if it changes
the collection, a draw if it ends the handler others wait for. The collection and each of its undo states are `Sound`
(only cards of notes that exist are due), because an undo may bring any of them back. `NotesTogether` needs that the numbers `addNotes`
gives are new, so that taking them back removes nothing else; `OldestNotesStay` that among the twins of a note there is an
oldest (`WFMin`).

The types of the variables are part of the inductive invariants (`TypeOK` in `LeaseInv`, `Kinds` in those of the services).
The assumptions on the constants are named where the constants are declared, and TLC evaluates them in the runs.

Not proved, and checked by TLC only:

* liveness (`CallsReturn`, `EditsTakeEffect`, `DueIsTold`, `EmptiedDecksAreZeroed`, `DailyGoesOn`): TLAPS proves no
  ENABLED.

Every safety property that a passing run checks is the statement of a theorem.

## 6. Not modelled

The parts with status `not_modelled` in `PROJECT.json`, and of the parts with status `partly`: the auxiliary pool of the
collection service (what Anki Core does with a closed backend is not visible here); of the screens media, audio, typed
answers, previews, image occlusion masks, statistics, preferences and uploads; of AnkiConnect the actions that only
read, media, profiles, exports and deck options; the review page's own counters (planned). Left out for good: HTML
rendering, translation, static files, configuration parsing, media serving, the body of Anki Core, and the read-only
actions, which keep no state and have no order to get wrong.
