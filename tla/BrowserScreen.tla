--------------------------- MODULE BrowserScreen ----------------------------
(* The browser of the development UI: what was searched for last and what is *)
(* selected are kept on the server, in hub.ui_state, for all browser pages   *)
(* and for AnkiConnect; the rows each page shows are its own.                *)
EXTENDS Desk

Queries == {"all", "due", "bad"}          \* "bad": not understood

Find(c, q) ==
  CASE q = "bad" -> {}
    [] q = "due" -> c.due
    [] OTHER     -> {x \in Cards : Exists(c, x)}

Rows(q) == [Blank EXCEPT !.side = "rows", !.query = q, !.rows = Find(col, q)]
LastQuery == IF ui.query = "none" THEN "all" ELSE ui.query

(* The page: a search, rows that are clicked on, and the buttons.            *)
Clears == {"suspend", "unsuspend", "reset", "delete"}
Keeps == {"reschedule", "changedeck", "addtag", "removetag"}

OpenBrowser(t, k) ==
  /\ tab[t].page = "browser" /\ Opens(t, k, <<[cmd |-> "search", query |-> "all"]>>)
Use(t) ==
  /\ tab[t].page = "browser"
  /\ \/ \E q \in Queries : Commands(t, [cmd |-> "search", query |-> q])
     \/ \E cs \in SUBSET tab[t].shows.rows : Commands(t, [cmd |-> "select", cards |-> cs])
     \/ \E c \in Clears \cup Keeps \cup {"changenotetype"} : Commands(t, [cmd |-> c])

(* The handler up to its first await.  The buttons act on what the server    *)
(* has for selected when it reads the command.                               *)
TaskOfUser(c) ==                                                \* mutant
  CASE c.cmd = "search" -> [pc |-> "search", query |-> c.query]
    [] c.cmd = "select" -> [pc |-> "select", cards |-> c.cards]
    [] c.cmd \in Clears \cup Keeps /\ ui.cards # {} -> [pc |-> "act", cmd |-> c.cmd, cards |-> ui.cards]
    [] OTHER -> Idle
Task(c) ==
  CASE c.cmd = "search"  -> [pc |-> "search", query |-> c.query]
    [] c.cmd = "refresh" -> [pc |-> "search", query |-> LastQuery]
    [] c.cmd = "select"  -> [pc |-> "select", cards |-> c.cards]
    [] c.cmd = "changenotetype" ->
         IF ui.notes # {} THEN [pc |-> "convert", notes |-> ui.notes]
         ELSE IF ui.cards # {} THEN [pc |-> "resolve", cards |-> ui.cards] ELSE Idle
    [] c.cmd \in Clears \cup Keeps ->
         IF ui.cards # {} THEN [pc |-> "act", cmd |-> c.cmd, cards |-> ui.cards] ELSE Idle

BrowserReads(k) ==
  /\ Reads(k, "browser")
  /\ Starts(k, Task(Head(sock[k].box)))
  /\ UNCHANGED <<col, undos, tab, desk, left, missed>>

(* A search, and the rows to all browser pages; one that is not understood   *)
(* leaves the mirror alone.                                                  *)
Search(k) ==
  /\ run[k].pc = "search"
  /\ ui' = IF run[k].query = "bad" THEN ui ELSE [ui EXCEPT !.query = run[k].query, !.browsing = TRUE]
  /\ \E s \in Sends({"browser"}) : Put(s.got, Rows(run[k].query)) /\ missed' = (missed \/ ~s.ok)
  /\ Ends(k)
  /\ UNCHANGED <<col, undos, sock, desk, left>>

Select(k) ==
  /\ run[k].pc = "select"
  /\ ui' = [ui EXCEPT !.cards = run[k].cards, !.notes = NotesOf(col, run[k].cards)]
  /\ Ends(k)
  /\ UNCHANGED <<col, undos, tab, sock, desk, left, missed>>

(* The jobs of the buttons; the server's selection is cleared by the first   *)
(* four, then the last search is made again.                                 *)
Acted(h) ==
  CASE h.cmd = "suspend"    -> PutAside(col, h.cards)
    [] h.cmd = "unsuspend"  -> [col EXCEPT !.due = @ \cup Live(col, h.cards)]
    [] h.cmd \in {"reset", "reschedule"} -> Requeued(col, h.cards)
    [] h.cmd = "delete"     -> Without(col, NotesOf(col, h.cards))
    [] h.cmd = "changedeck" -> Rehomed(col, h.cards, 2)
    [] h.cmd \in {"addtag", "removetag"} ->
             Tagged(col, NotesOf(col, h.cards), "tag", h.cmd = "addtag")

Act(k) ==
  /\ run[k].pc = "act" /\ run[k].cmd \in Clears \cup Keeps
  /\ \/ /\ Commits(Acted(run[k]))
        /\ \E s \in Spreads(Acted(run[k])) :
             /\ Broadcasts("browser", s)
             /\ IF s.ok
                THEN /\ ui' = IF run[k].cmd \in Clears THEN [ui EXCEPT !.cards = {}, !.notes = {}] ELSE ui
                     /\ run' = [run EXCEPT ![k] = [pc |-> "search", query |-> LastQuery]]
                ELSE Ends(k) /\ UNCHANGED ui
     \/ /\ run[k].cmd = "reschedule"            \* a due date that is not understood
        /\ Ends(k)
        /\ UNCHANGED <<col, undos, ui, tab, sock, missed>>
  /\ UNCHANGED <<desk, left>>

(* To change the note type: the notes, their type if they have one in common,*)
(* and the page for it.                                                      *)
Resolve(k) ==
  /\ run[k].pc = "resolve"
  /\ LET ns == NotesOf(col, run[k].cards) IN
       run' = [run EXCEPT ![k] = IF ns = {} THEN Idle ELSE [pc |-> "convert", notes |-> ns]]
  /\ UNCHANGED <<col, undos, ui, tab, sock, desk, left, missed>>
Convert(k) ==
  /\ run[k].pc = "convert"
  /\ \/ /\ run[k].notes \subseteq col.notes
        /\ \E s \in Sends({"browser"}) :
             Leaves(s.got, Elsewhere, {}) /\ missed' = (missed \/ ~s.ok)
     \/ UNCHANGED <<tab, sock, missed>>         \* no single type
  /\ Ends(k)
  /\ UNCHANGED <<col, undos, ui, desk, left>>

(* AnkiConnect searches and selects, and no page is told.                    *)
GuiBrowser ==
  /\ Request({"guiBrowse"}) \/ (ui.browsing /\ Request({"select"}))
  /\ UNCHANGED <<col, undos, ui, tab, sock, desk, missed>>
GuiBrowse ==
  /\ run[Connect].pc = "guiBrowse"
  /\ ui' = IF run[Connect].query = "bad" THEN ui
           ELSE [ui EXCEPT !.query = run[Connect].query, !.browsing = TRUE]
  /\ Ends(Connect)
  /\ UNCHANGED <<col, undos, tab, sock, desk, left, missed>>

BrowserNext ==
  \/ \E t \in Tabs : Use(t) \/ \E k \in Sockets : OpenBrowser(t, k)
  \/ \E k \in Sockets : BrowserReads(k) \/ Search(k) \/ Act(k) \/ Resolve(k) \/ Convert(k)
  \/ \E k \in Sockets \cup {Connect} : Select(k)
  \/ GuiBrowser \/ GuiBrowse

(* Once every command is handled and every page has loaded, the rows of each *)
(* browser page are what the search they came from finds now, whoever        *)
(* changed the collection.  Not if a send failed, or an action told nobody.  *)
(* (browser.py:165-199, bootstrap.ts:83-95)                                  *)
RowsAreCurrent ==
  AtRest /\ ~missed =>
    \A t \in Seen({"browser"}) :
      /\ tab[t].shows.side = "rows"
      /\ tab[t].shows.rows = Find(col, tab[t].shows.query)
=============================================================================
