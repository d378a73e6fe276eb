---------------------------- MODULE DeckScreens -----------------------------
(* The list of decks, the overview of the current deck, the forms for        *)
(* custom study and filtered decks, and the page with tools.  Their pages    *)
(* are drawn by the server from the collection before they have a socket;    *)
(* most of their commands act on the deck that is current when the job runs. *)
EXTENDS Desk

VARIABLE report         \* the cards that were empty at the last check, for all pages

DeckScreensInit == report = {}

DeckPages == {"deckbrowser", "overview", "customstudy", "filtereddeck", "tools"}

(* What a page is drawn with: the decks, what is due in them and the current *)
(* one; or the current deck with its description and what is to study there, *)
(* if that is anything; or a form.                                           *)
Due(c, xs) == {<<"due", c.home[x], x>> : x \in xs}
Drawn(page, c) ==
  CASE page = "deckbrowser" ->
         [Blank EXCEPT !.side = "decks", !.type = c.cur,
            !.rows = Due(c, c.due) \cup {m \in c.marks : m[1] \in {"collapsed", "created"}}]
    [] page = "overview" ->
         [Blank EXCEPT !.side = "deck", !.type = c.cur,
            !.rows = IF Queue(c) = {} THEN {}
                     ELSE Due(c, Queue(c)) \cup {m \in c.marks : m = <<"desc", c.cur>>}]
    [] OTHER -> [Blank EXCEPT !.side = "form"]

DrawPage(t) ==
  /\ tab[t].page \in DeckPages /\ tab[t].sock = 0 /\ tab[t].shows = Blank
  /\ Put({t}, Drawn(tab[t].page, col))
  /\ UNCHANGED <<col, undos, ui, sock, run, desk, left, missed, report>>
OpenDeckPage(t, k) ==
  /\ tab[t].page \in DeckPages /\ tab[t].shows # Blank
  /\ Opens(t, k, <<>>)
  /\ UNCHANGED report

(* The buttons of a page as it was drawn.  Once everything in the deck is    *)
(* done the overview offers the way back and to unbury only.                 *)
Buttons(page, screen) ==
  CASE page = "deckbrowser" -> {[cmd |-> c] : c \in {"create", "createfiltered"}}
                               \cup {[cmd |-> c, deck |-> d] : c \in {"open", "collapse", "opts"}, d \in Decks}
    [] page = "overview"    -> {[cmd |-> c] : c \in {"decks", "unbury"} \cup
                                  (IF screen.rows = {} THEN {}
                                   ELSE {"study", "opts", "setdesc"} \cup
                                        IF screen.type = Filtered THEN {"refresh", "empty"} ELSE {"studymore"})}
    [] page = "tools"       -> {[cmd |-> c] : c \in {"checkdb", "emptycards", "emptycards_delete"}}
    [] OTHER                -> {[cmd |-> c] : c \in {"submit", "cancel"}}
UseDecks(t) ==
  /\ tab[t].page \in DeckPages
  /\ \E c \in Buttons(tab[t].page, tab[t].shows) : Commands(t, c)
  /\ UNCHANGED report

(* The handlers up to the first await.                                       *)
Going(page, to) == [pc |-> "going", page |-> page, to |-> to]
DeckTask(page, c) ==
  CASE c.cmd = "decks"          -> Going(page, "deckbrowser")
    [] c.cmd = "study"          -> Going(page, "reviewer")
    [] c.cmd = "cancel"         -> Going(page, "overview")
    [] c.cmd = "studymore"      -> Going(page, "customstudy")
    [] c.cmd = "createfiltered" -> Going(page, "filtereddeck")
    [] c.cmd = "opts" /\ page = "deckbrowser" ->
         Going(page, IF c.deck = Filtered THEN "filtereddeck" ELSE Elsewhere)
    [] c.cmd = "open"           -> [pc |-> "opendeck", deck |-> c.deck]
    [] c.cmd = "collapse"       -> [pc |-> "deckjob", page |-> page, cmd |-> "collapse", deck |-> c.deck]
    [] c.cmd \in {"create", "unbury", "setdesc", "submit"} ->
         [pc |-> "deckjob", page |-> page, cmd |-> c.cmd, deck |-> 0]
    [] c.cmd \in {"refresh", "empty"} \/ (c.cmd = "opts" /\ page # "deckbrowser") -> [pc |-> "whichdeck", cmd |-> c.cmd]
    [] c.cmd \in {"checkdb", "emptycards", "emptycards_delete"} -> [pc |-> c.cmd]

DeckReads(k) ==
  /\ \E page \in DeckPages :
       Reads(k, page) /\ Starts(k, DeckTask(page, Head(sock[k].box)))
  /\ UNCHANGED <<col, undos, tab, desk, left, missed, report>>

(* All pages of a context go to another address, or load again.              *)
Moves(page, to) ==
  \E s \in Sends({page}) : Leaves(s.got, to, {}) /\ missed' = (missed \/ ~s.ok)
Go(k) ==
  /\ run[k].pc = "going"
  /\ Moves(run[k].page, Goto(run[k].to))
  /\ Ends(k)
  /\ UNCHANGED <<col, undos, ui, desk, left, report>>
LeavesThePages(k) ==                                            \* mutant
  /\ run[k].pc = "reload" /\ Ends(k)
  /\ UNCHANGED <<col, undos, ui, tab, sock, desk, left, missed, report>>
Reload(k) ==
  /\ run[k].pc = "reload"
  /\ Moves(run[k].page, "same")
  /\ Ends(k)
  /\ UNCHANGED <<col, undos, ui, desk, left, report>>

(* A job, its broadcast, and then what it does with the pages of its screen. *)
Transacts(k, c, initiator, next) ==
  /\ Commits(c)
  /\ \E s \in Spreads(c) :
       /\ Broadcasts(initiator, s)
       /\ run' = [run EXCEPT ![k] = IF s.ok THEN next ELSE Idle]

(* The code counts on no flags, so no broadcast, when a deck becomes the     *)
(* current one; the tests allow for one.                                     *)
OpenDeck(k) ==
  /\ run[k].pc = "opendeck"
  /\ LET c == [col EXCEPT !.cur = run[k].deck]
         next == Going("deckbrowser", "overview")
     IN  \/ Transacts(k, c, "deckbrowser", next)
         \/ /\ c # col /\ Commits(c) /\ missed' = TRUE
            /\ run' = [run EXCEPT ![k] = next]
            /\ UNCHANGED <<tab, sock>>
  /\ UNCHANGED <<ui, desk, left, report>>

(* To rebuild or to empty the current deck, if it is filtered: which one it  *)
(* is, is asked first.                                                       *)
WhichDeck(k) ==
  /\ run[k].pc = "whichdeck"
  /\ LET h == run[k]
         filtered == col.cur = Filtered
     IN  run' = [run EXCEPT ![k] =
           IF h.cmd = "opts" THEN Going("overview", IF filtered THEN "filtereddeck" ELSE Elsewhere)
           ELSE IF filtered THEN [pc |-> "deckjob", page |-> "overview", cmd |-> h.cmd, deck |-> col.cur]
           ELSE Idle]
  /\ UNCHANGED <<col, undos, ui, tab, sock, desk, left, missed, report>>

(* What jobs make of the collection.  A filtered deck gathers cards, which   *)
(* are due in it, and becomes the current one when it is built; to empty it  *)
(* puts them back, due or not.  BOUND: they come from the first deck, and a  *)
(* search finds all cards or what is due.                                    *)
Emptied(c) ==
  {[Rehomed(c, {x \in Cards : c.home[x] = Filtered}, 1) EXCEPT !.due = @ \ xs] :
     xs \in SUBSET {x \in c.due : c.home[x] = Filtered}}
Gathered(c) ==
  {[Rehomed(e, xs, Filtered) EXCEPT !.due = @ \cup xs] : e \in Emptied(c), xs \in {c.due, Live(c, Cards)}}
Built(c) == {[g EXCEPT !.cur = Filtered] : g \in Gathered(c)}
MoreDue(c) ==                           \* buried cards, or those beyond a limit of the day
  {[c EXCEPT !.due = @ \cup xs] : xs \in SUBSET {x \in Live(c, Cards) : c.home[x] = c.cur}}
DeckJobs(h) ==
  CASE h.cmd = "collapse" -> {Marked(col, {<<"collapsed", h.deck>>}, on) : on \in BOOLEAN} \ {col}
    [] h.cmd = "create"   -> {Marked(col, {<<"created", i>>}, TRUE) : i \in {left}}
    [] h.cmd = "setdesc"  -> {Marked(col, {<<"desc", col.cur>>}, on) : on \in BOOLEAN}
    [] h.cmd = "unbury"   -> MoreDue(col)
    [] h.cmd = "refresh"  -> Gathered(col)
    [] h.cmd = "empty"    -> Emptied(col)
    [] h.cmd = "submit"   -> Built(col) \cup (IF h.page = "customstudy" THEN MoreDue(col) ELSE {})

DeckJob(k) ==
  /\ run[k].pc = "deckjob" /\ run[k].page \in DeckPages
  /\ run[k].cmd \in {"collapse", "create", "setdesc", "unbury", "refresh", "empty", "submit"}
  /\ LET h == run[k] IN
       \/ \E c \in DeckJobs(h) :
            Transacts(k, c, h.page, IF h.cmd = "submit" THEN Going(h.page, "overview")
                                  ELSE [pc |-> "reload", page |-> h.page])
       \/ /\ h.cmd = "submit"           \* no cards, or a bad search: the form says so
          /\ Ends(k) /\ UNCHANGED <<col, undos, tab, sock, missed>>
  /\ UNCHANGED <<ui, desk, left, report>>

(* The tools.  A check of the database drops what could be undone.           *)
CheckDb(k) ==
  /\ run[k].pc = "checkdb" /\ undos' = <<>>
  /\ Ends(k)
  /\ UNCHANGED <<col, ui, tab, sock, desk, left, missed, report>>
EmptyCards(k) ==
  /\ run[k].pc = "emptycards"
  /\ report' = {x \in Live(col, Cards) : col.note[NoteOf[x]].text = ""}
  /\ Ends(k)
  /\ UNCHANGED <<col, undos, ui, tab, sock, desk, left, missed>>
DeleteEmpty(k) ==                       \* those of the last check, by any page
  /\ run[k].pc = "emptycards_delete"
  /\ Transacts(k, Without(col, NotesOf(col, report)), "tools", [pc |-> "emptied"])
  /\ UNCHANGED <<ui, desk, left, report>>
Emptying(k) ==
  /\ run[k].pc = "emptied" /\ report' = {}
  /\ Ends(k)
  /\ UNCHANGED <<col, undos, ui, tab, sock, desk, left, missed>>

DeckScreensNext ==
  \/ \E t \in Tabs : DrawPage(t) \/ UseDecks(t) \/ \E k \in Sockets : OpenDeckPage(t, k)
  \/ \E k \in Sockets :
       \/ DeckReads(k) \/ Go(k) \/ Reload(k) \/ OpenDeck(k) \/ WhichDeck(k) \/ DeckJob(k)
       \/ CheckDb(k) \/ EmptyCards(k) \/ DeleteEmpty(k) \/ Emptying(k)

(* Once every command is handled and every page has loaded, the list of      *)
(* decks shows the decks and what is due where, and the overview what is to  *)
(* study in the deck that is current, whichever tab, screen or client        *)
(* changed it: what its buttons act on is what it shows.  Not if a send      *)
(* failed, or a change was not told, or came between the drawing of a page   *)
(* and its socket.                                                           *)
(* (deckbrowser.py:39-103, overview.py:7-70, bootstrap.ts:83-95)             *)
DeckPagesAreCurrent ==
  AtRest /\ ~missed =>
    \A t \in Seen({"deckbrowser", "overview"}) : tab[t].shows = Drawn(tab[t].page, col)
=============================================================================
