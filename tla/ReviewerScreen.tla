--------------------------- MODULE ReviewerScreen ---------------------------
(* The reviewer of the development UI: one session (the card in flight and   *)
(* its scheduling states) for all reviewer pages and for the gui* actions of *)
(* AnkiConnect, which drive the same handler.                                *)
EXTENDS Desk

VARIABLE session        \* the card in flight, the states it was loaded with, and
                        \* its note, which the card keeps

NoCard == [card |-> 0, ver |-> 0, note |-> [type |-> 0, text |-> "", tags |-> {}]]
Loaded(c) == [card |-> c, ver |-> col.ver[c], note |-> col.note[NoteOf[c]]]
Toggled(note) ==
  [note EXCEPT !.tags = IF "marked" \in @ THEN @ \ {"marked"} ELSE @ \cup {"marked"}]
ReviewerInit == session = NoCard

Question(c) == [Blank EXCEPT !.card = c, !.side = "question"]
Answer(c)   == [Blank EXCEPT !.card = c, !.side = "answer"]

ReviewActive == ui.screen = "reviewer" /\ ui.card # 0

(* What the page offers: the answer bar, or the ease buttons, then the other *)
(* actions; the ones that only read or play audio are left out.              *)
OfCard == {"buryc", "buryn", "suspendc", "suspendn", "setdue", "forget", "deletenote", "undo"}
OnCard == {"mark", "setflag"}
AwayFrom == {"edit", "cardinfo"}
Offered(screen) ==
  {"decks"} \cup OfCard \cup OnCard \cup AwayFrom
  \cup (IF screen.side = "question" THEN {"ans"} ELSE {})
  \cup (IF screen.side = "answer" THEN {"ease"} ELSE {})

OpenReviewer(t, k) ==
  /\ tab[t].page = "reviewer" /\ Opens(t, k, <<[cmd |-> "show"]>>)
  /\ UNCHANGED session
Press(t) ==
  /\ tab[t].page = "reviewer"
  /\ \E c \in Offered(tab[t].shows) : Commands(t, [cmd |-> c])
  /\ UNCHANGED session

(* The first step of the handler, up to its first await: most commands need  *)
(* a card in flight, and some take its number or its note's along.           *)
Loading == [pc |-> "load"]
Handler(c) ==
  IF c \notin {"show", "decks"} /\ session.card = 0 THEN Idle
  ELSE CASE c = "show"     -> Loading
    [] c = "decks"         -> [pc |-> "away", page |-> "deckbrowser"]
    [] c = "ans"           -> [pc |-> "render"]
    [] c \in AwayFrom      -> [pc |-> "away", page |-> Elsewhere]
    [] c \in {"ease"} \cup OfCard \cup OnCard -> [pc |-> "operate", cmd |-> c, cid |-> session.card]

ReviewerReads(k) ==
  /\ Reads(k, "reviewer")
  /\ Starts(k, Handler(Head(sock[k].box).cmd))
  /\ UNCHANGED <<col, undos, tab, desk, left, missed, session>>

(* AnkiConnect drives the handler if the mirror says that a review is active.*)
GuiReview ==
  /\ ReviewActive
  /\ \E c \in {"show", "ans", "ease"} :
       /\ Asks([pc |-> c]) /\ (c = "ease" => ui.side = "answer")
       /\ run' = [run EXCEPT ![Connect] = Handler(c)]
  /\ UNCHANGED <<col, undos, ui, tab, sock, desk, missed, session>>

(* The jobs.  Anki answers a card only with the states it still has, updates *)
(* a note only if it is there, and leaves other cards and notes that are     *)
(* gone alone; a due date may not be understood.  The jobs that use the      *)
(* session's card fail if there is none any more, and the mark is toggled on *)
(* the note the session keeps, which is then saved whole.                    *)
Effects(h) ==
  LET c == session.card
      n == NoteOf[c]
  IN  IF h.cmd \in {"ease", "mark", "suspendn"} /\ c = 0 THEN {}
      ELSE CASE h.cmd = "ease"  -> IF ~Exists(col, c) \/ col.ver[c] # session.ver THEN {}
                                   ELSE LET a == Requeued(col, {c}) IN {a, PutAside(a, {c})}
        [] h.cmd = "mark"       -> IF ~Exists(col, c) THEN {}
                                   ELSE {[col EXCEPT !.note[n] = Toggled(session.note)]}
        [] h.cmd = "suspendn"   -> {PutAside(col, CardsOf({n}))}
        [] h.cmd = "setflag"    -> {Marked(col, {<<"flag", h.cid>>}, on) : on \in BOOLEAN}
        [] h.cmd \in {"buryc", "suspendc"} -> {PutAside(col, {h.cid})}
        [] h.cmd = "buryn"      -> {PutAside(col, CardsOf({NoteOf[h.cid]}))}
        [] h.cmd \in {"setdue", "forget"}  -> {Requeued(col, {h.cid})}
        [] h.cmd = "deletenote" -> {Without(col, {NoteOf[h.cid]})}
        [] h.cmd = "undo"       -> IF undos = <<>> THEN {} ELSE {undos[Len(undos)]}
Fails(h) ==
  \/ Effects(h) = {} \/ h.cmd = "setdue"
  \/ h.cmd = "ease" /\ session.card # Top(col)        \* refused, if the queue is built

(* An operation that takes the card off the screen goes on to the next one.  *)
Operate(k) ==
  /\ run[k].pc = "operate" /\ run[k].cmd \in OfCard \cup OnCard \cup {"ease"}
  /\ \/ \E c \in Effects(run[k]) :
          /\ IF run[k].cmd = "undo" THEN Undoes(c) ELSE Commits(c)
          /\ \E s \in Spreads(c) :
               /\ Broadcasts("reviewer", s)
               /\ IF s.ok /\ run[k].cmd \notin OnCard THEN run' = [run EXCEPT ![k] = Loading]
                  ELSE Ends(k)
     \/ Fails(run[k]) /\ Ends(k) /\ UNCHANGED <<col, undos, tab, sock, missed>>
  /\ session' = IF run[k].cmd = "mark" /\ session.card # 0
                THEN [session EXCEPT !.note = Toggled(@)] ELSE session
  /\ UNCHANGED <<ui, desk, left>>

(* load_question and the mirror; then the question, or the way out.          *)
ShowNext(k) ==
  /\ run[k].pc = "load"
  /\ LET c == Top(col) IN
       /\ session' = IF c = 0 THEN NoCard ELSE Loaded(c)
       /\ ui' = [ui EXCEPT !.card = c, !.side = IF c = 0 THEN "none" ELSE "question"]
       /\ \E s \in Sends({"reviewer"}) :
            /\ IF c = 0 THEN Leaves(s.got, Goto("overview"), {}) ELSE Put(s.got, Question(c)) /\ UNCHANGED sock
            /\ missed' = (missed \/ ~s.ok)
  /\ Ends(k)
  /\ UNCHANGED <<col, undos, desk, left>>

ShowAnswer(k) ==
  /\ run[k].pc = "render"
  /\ IF session.card = 0 THEN UNCHANGED <<ui, tab, missed>>
     ELSE \E s \in Sends({"reviewer"}) :
            /\ Put(s.got, Answer(session.card))
            /\ missed' = (missed \/ ~s.ok)
            /\ ui' = IF s.ok THEN [ui EXCEPT !.side = "answer"] ELSE ui
  /\ Ends(k)
  /\ UNCHANGED <<col, undos, sock, desk, left, session>>

(* The reviewer's pages go to another page, all of them.                     *)
GoAway(k) ==
  /\ run[k].pc = "away"
  /\ \E s \in Sends({"reviewer"}) :
       Leaves(s.got, Goto(run[k].page), {}) /\ missed' = (missed \/ ~s.ok)
  /\ Ends(k)
  /\ UNCHANGED <<col, undos, ui, desk, left, session>>

ReviewerNext ==
  \/ \E t \in Tabs : Press(t) \/ \E k \in Sockets : OpenReviewer(t, k)
  \/ \E k \in Sockets : ReviewerReads(k)
  \/ GuiReview
  \/ \E k \in Sockets \cup {Connect} :
       Operate(k) \/ ShowNext(k) \/ ShowAnswer(k) \/ GoAway(k)

(* Once every command is handled and every page has loaded, each reviewer    *)
(* page shows the card in flight, the mirror for AnkiConnect has it too, and *)
(* it is the card the collection has next: what one tab, another screen or   *)
(* AnkiConnect did in between reached all of them.  Not if a send failed, or *)
(* an action told nobody.  (reviewer.py:227-242, hub.py:28-41)               *)
ReviewersShowTheNextCard ==
  AtRest /\ ~missed =>
    \A t \in Seen({"reviewer"}) :
      /\ tab[t].shows.side # "none" /\ tab[t].shows.card = session.card
      /\ session.card = Top(col) /\ ui.card = session.card
=============================================================================
