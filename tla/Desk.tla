-------------------------------- MODULE Desk --------------------------------
(* The development UI of ankiweb: pages with a WebSocket each, the hub that   *)
(* serves them, and what they share: the collection, its undo stack and the  *)
(* hub's ui_state.  The screens are modules that extend this one.            *)
(*                                                                           *)
(* The collection's jobs run one at a time and the handler that awaited a    *)
(* job goes on to its next await before anything else uses the result, so a  *)
(* job, the code after it and its sends are one step; any waiting job may    *)
(* run next.  A send is written at once and in order on a socket; it fails   *)
(* only on a socket whose page has gone and whose end is not noticed yet.    *)
EXTENDS Naturals, Sequences, FiniteSets

CONSTANTS
  Tabs,         \* browser tabs (positive numbers)
  Notes,        \* notes that exist or may be added
  Cards,        \* their cards, numbered in the order of the queue
  NoteOf,       \* NoteOf[c]: the note of a card
  Sockets,      \* BOUND: sockets that are registered at once (positive numbers)
  BoxSize,      \* BOUND: commands of a page that the server has not read yet
  Desks         \* the desks to check: the page each tab shows first and those it may
                \* get to (site), the commands its user may give and the requests
                \* that come over HTTP, BOUND: how many of them, and the collection

ASSUME NumbersAssumption == Sockets \subseteq Nat \ {0} /\ Notes \subseteq Nat \ {0}

VARIABLES
  col,       \* the collection
  undos,     \* the states its undo stack goes back to
  ui,        \* hub.ui_state
  tab,       \* page of a tab, its socket (0: still loading) and what it shows
  sock,      \* sockets: context, whether the page is still there, unread commands
  run,       \* the handler at work for each socket, and for the AnkiConnect client
  desk,      \* the desk at hand (never changes)
  left,      \* commands and requests left
  missed     \* history: a change was not told to every page

deskVars == <<col, undos, ui, tab, sock, run, desk, left, missed>>

Connect == 0                    \* the client over HTTP (AnkiConnect), beside the sockets
Elsewhere == "elsewhere"        \* a page that is not modelled, or a closed tab
Blank ==                        \* a page before its first message
  [card |-> 0, side |-> "none", query |-> "none", rows |-> {}, note |-> 0, type |-> 0]
Idle == [pc |-> "idle"]
Free == [st |-> "free", page |-> Elsewhere, box |-> <<>>]

(* The collection: the notes and what they say, the cards that are due, the  *)
(* deck of a card ("home") and the current one ("cur"), "ver" that tells the *)
(* scheduling states of a card apart, "marks": flags of cards and what is    *)
(* stored of decks.  A card exists as long as its note.  BOUND: three decks, *)
(* of which the last is filtered.                                            *)
Decks == 1..3
Filtered == 3
Exists(c, card) == card \in Cards /\ NoteOf[card] \in c.notes
Live(c, cs) == {x \in cs : Exists(c, x)}
CardsOf(ns) == {c \in Cards : NoteOf[c] \in ns}
NotesOf(c, cs) == {NoteOf[x] : x \in Live(c, cs)}
Sound(c) ==                         \* only cards that exist are due
  /\ c = [notes |-> c.notes, due |-> c.due, ver |-> c.ver, marks |-> c.marks,
          home |-> c.home, cur |-> c.cur, note |-> c.note]
  /\ c.notes \subseteq Notes /\ c.note = [n \in Notes |-> c.note[n]]
  /\ c.due \subseteq CardsOf(c.notes)
Queue(c) == {x \in c.due : c.home[x] = c.cur}
Top(c) == IF Queue(c) = {} THEN 0 ELSE CHOOSE d \in Queue(c) : \A e \in Queue(c) : d <= e

Without(c, ns) == [c EXCEPT !.notes = @ \ ns, !.due = @ \ CardsOf(ns)]
PutAside(c, cs) == [c EXCEPT !.due = @ \ cs]
Rescheduled(c, cs) == [c EXCEPT !.ver = [x \in Cards |-> IF x \in Live(c, cs) THEN @[x] + 1 ELSE @[x]]]
Requeued(c, cs) == [Rescheduled(c, cs) EXCEPT !.due = @ \cup Live(c, cs)]
Rehomed(c, cs, d) == [c EXCEPT !.home = [x \in Cards |-> IF x \in Live(c, cs) THEN d ELSE @[x]]]
Marked(c, ms, on) == [c EXCEPT !.marks = IF on THEN @ \cup ms ELSE @ \ ms]
Labelled(note, tag, on) == [note EXCEPT !.tags = IF on THEN @ \cup {tag} ELSE @ \ {tag}]
Tagged(c, ns, tag, on) ==
  [c EXCEPT !.note = [n \in Notes |->
     IF n \in ns \cap c.notes THEN Labelled(c.note[n], tag, on) ELSE c.note[n]]]

(* A transaction goes onto the undo stack if it changed anything; to undo    *)
(* takes the last one off.                                                   *)
Commits(c) ==
  /\ col' = c
  /\ undos' = IF c = col THEN undos ELSE Append(undos, col)
Undoes(c) ==
  /\ undos # <<>> /\ c = undos[Len(undos)]
  /\ col' = c
  /\ undos' = SubSeq(undos, 1, Len(undos) - 1)

(* Sends.  A send to some contexts reaches all their pages, or it stops at a *)
(* socket whose page has gone: the pages registered after it get nothing,    *)
(* and the handler that sends ends with the exception.                       *)
Seen(ctxs) == {t \in Tabs : tab[t].sock # 0 /\ tab[t].page \in ctxs}
Sends(ctxs) ==
  {[got |-> Seen(ctxs), ok |-> TRUE]} \cup
  (IF \E k \in Sockets : sock[k].st = "gone" /\ sock[k].page \in ctxs
   THEN {[got |-> ts, ok |-> FALSE] : ts \in SUBSET Seen(ctxs)} ELSE {})
Contexts == {sock[k].page : k \in Sockets}

Put(ts, screen) ==                  \* what a call of the server draws
  tab' = [t \in Tabs |-> IF t \in ts THEN [tab[t] EXCEPT !.shows = screen] ELSE tab[t]]

(* A page that goes to another address, or loads again, leaves its socket to *)
(* be noticed; the server still reads what the page had sent.                *)
Goto(page) == IF page \in desk.site THEN page ELSE Elsewhere
Away(page) == [page |-> page, sock |-> 0, shows |-> Blank]
Leaves(ts, page, asked) ==
  /\ tab' = [t \in Tabs |-> IF t \in ts THEN Away(IF page = "same" THEN tab[t].page ELSE page)
                            ELSE tab[t]]
  /\ sock' = [k \in Sockets |->
       IF \E t \in ts : tab[t].sock = k THEN [sock[k] EXCEPT !.st = "gone"]
       ELSE IF \E t \in asked : tab[t].sock = k
            THEN [sock[k] EXCEPT !.box = Append(@, [cmd |-> "refresh"])]
            ELSE sock[k]]

(* The change flags of a transaction, if it changed anything, are broadcast: *)
(* the browser searches again, another page loads again, the pages of the    *)
(* screen that made the change do neither.  A page that is rendered and has  *)
(* no socket yet is not told.                                                *)
Untold == \E t \in Tabs : tab[t].sock = 0 /\ tab[t].shows # Blank
Spreads(c) == IF c = col THEN {[got |-> {}, ok |-> TRUE]} ELSE Sends(Contexts)
RefreshesBrowsers(initiator, s) ==                              \* mutant
  /\ Leaves({}, "same", {t \in s.got : tab[t].page = "browser" /\ initiator # "browser"})
  /\ missed' = (missed \/ ~s.ok \/ (Untold /\ col' # col))
Broadcasts(initiator, s) ==
  LET others == {t \in s.got : tab[t].page # initiator}
      asking == {t \in others : tab[t].page = "browser"}
  IN  Leaves(others \ asking, "same", asking) /\ missed' = (missed \/ ~s.ok \/ (Untold /\ col' # col))

(* A page loads: the socket is registered, and its context is taken for the  *)
(* current screen; the script of the page may send a first command.          *)
Opens(t, k, first) ==
  /\ tab[t].sock = 0
  /\ sock[k].st = "free" /\ \A j \in Sockets : sock[j].st = "free" => k <= j
  /\ tab' = [tab EXCEPT ![t].sock = k]
  /\ sock' = [sock EXCEPT ![k] = [st |-> "open", page |-> tab[t].page, box |-> first]]
  /\ ui' = [ui EXCEPT !.screen = tab[t].page]
  /\ UNCHANGED <<col, undos, run, desk, left, missed>>

(* The end of a socket is noticed when everything it sent has been handled.  *)
Notice(k) ==
  /\ sock[k].st = "gone" /\ sock[k].box = <<>> /\ run[k].pc = "idle"
  /\ sock' = [sock EXCEPT ![k] = Free]
  /\ UNCHANGED <<col, undos, ui, tab, run, desk, left, missed>>

(* A user gives a command: the shim sends it over the page's socket.         *)
Commands(t, c) ==
  /\ c.cmd \in desk.menu
  /\ left > 0 /\ left' = left - 1
  /\ tab[t].sock # 0 /\ Len(sock[tab[t].sock].box) < BoxSize
  /\ sock' = [sock EXCEPT ![tab[t].sock].box = Append(@, c)]
  /\ UNCHANGED <<col, undos, ui, tab, run, desk, missed>>
Asks(r) ==                          \* the client over HTTP makes a request
  /\ r \in desk.asks /\ run[Connect].pc = "idle"
  /\ left > 0 /\ left' = left - 1
Request(kinds) ==                   \* and its action waits for a job
  \E r \in desk.asks : r.pc \in kinds /\ Asks(r) /\ run' = [run EXCEPT ![Connect] = r]

(* The server reads the next command of a socket, one at a time, and starts  *)
(* its handler.                                                              *)
Reads(k, page) == sock[k].page = page /\ sock[k].box # <<>> /\ run[k].pc = "idle"
Starts(k, h) ==
  /\ sock' = [sock EXCEPT ![k].box = Tail(@)]
  /\ ui' = [ui EXCEPT !.screen = sock[k].page]
  /\ run' = [run EXCEPT ![k] = h]

Ends(k) == run' = [run EXCEPT ![k] = Idle]

(* The user closes a tab, or opens its page again.                           *)
CloseTab(t) ==
  /\ "close" \in desk.menu
  /\ left > 0 /\ left' = left - 1
  /\ tab[t].sock # 0
  /\ Leaves({t}, Elsewhere, {})
  /\ UNCHANGED <<col, undos, ui, run, desk, missed>>

(* Nothing is under way: no page loads, no command waits, no handler works.  *)
AtRest ==
  /\ \A k \in Sockets : sock[k].st # "gone" /\ sock[k].box = <<>>
  /\ \A k \in DOMAIN run : run[k].pc = "idle"
  /\ \A t \in Tabs : tab[t].page # Elsewhere => tab[t].sock # 0

(* AnkiConnect undoes the last operation, if there is one, or makes the      *)
(* pages of the current screen navigate, after it has made a deck the        *)
(* current one, which is not told.                                           *)
GuiAsks ==
  /\ Request({"guiUndo", "guiDeck", "guiNavigate"})
  /\ UNCHANGED <<col, undos, ui, tab, sock, desk, missed>>
GuiUndo ==
  /\ run[Connect].pc = "guiUndo"
  /\ IF undos = <<>> THEN UNCHANGED <<col, undos, tab, sock, missed>>
     ELSE \E c \in {undos[Len(undos)]} : Undoes(c) /\ \E s \in Spreads(c) : Broadcasts("ankiconnect", s)
  /\ Ends(Connect)
  /\ UNCHANGED <<ui, desk, left>>
GuiDeck ==
  /\ run[Connect].pc = "guiDeck"
  /\ Commits([col EXCEPT !.cur = run[Connect].deck]) /\ missed' = (missed \/ col' # col)
  /\ run' = [run EXCEPT ![Connect] = [pc |-> "guiNavigate", page |-> @.page]]
  /\ UNCHANGED <<ui, tab, sock, desk, left>>
GuiNavigate ==
  /\ run[Connect].pc = "guiNavigate"
  /\ \E s \in Sends({ui.screen}) :
       Leaves(s.got, Goto(run[Connect].page), {}) /\ missed' = (missed \/ ~s.ok)
  /\ Ends(Connect)
  /\ UNCHANGED <<col, undos, ui, desk, left>>

DeskInit ==
  /\ \E d \in Desks :
       /\ desk = d
       /\ tab = [t \in Tabs |-> Away(d.pages[t])]
       /\ left = d.commands
       /\ col = d.col
  /\ undos = <<>>
  /\ ui = [screen |-> Elsewhere, card |-> 0, side |-> "none", query |-> "none",
           browsing |-> FALSE, cards |-> {}, notes |-> {}]
  /\ sock = [k \in Sockets |-> Free]
  /\ run = [k \in Sockets \cup {Connect} |-> Idle]
  /\ missed = FALSE
=============================================================================
