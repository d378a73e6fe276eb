----------------------------- MODULE DeskProofs ------------------------------
(* What is true of every desk: its pages learn of what changes the           *)
(* collection, whoever changes it, and what AnkiConnect adds and deletes.    *)
EXTENDS Screens, FiniteSetTheorems, WellFoundedInduction, TLAPS

---------------------------------------------------------------------------
(* The inductive invariant.                                                  *)

(* The shapes of the state.  A sequence is one of its own elements.          *)
Runs == Sockets \cup {Connect}
IsSeq(s) == s \in Seq({s[i] : i \in DOMAIN s})
TabShape(r) == r = [page |-> r.page, sock |-> r.sock, shows |-> r.shows]
SockShape(r) == r = [st |-> r.st, page |-> r.page, box |-> r.box] /\ IsSeq(r.box)
Shapes ==
  /\ tab = [t \in Tabs |-> tab[t]] /\ \A t \in Tabs : TabShape(tab[t])
  /\ sock = [k \in Sockets |-> sock[k]] /\ \A k \in Sockets : SockShape(sock[k])
  /\ run = [k \in Runs |-> run[k]]
Records ==
  /\ ui = [screen |-> ui.screen, card |-> ui.card, side |-> ui.side, query |-> ui.query,
           browsing |-> ui.browsing, cards |-> ui.cards, notes |-> ui.notes]
  /\ session = [card |-> session.card, ver |-> session.ver, note |-> session.note]

(* A page that has loaded has an open socket of its own; a free socket holds *)
(* nothing.                                                                  *)
Linked ==
  /\ \A t \in Tabs : tab[t].sock # 0 =>
       /\ tab[t].sock \in Sockets
       /\ sock[tab[t].sock].st = "open" /\ sock[tab[t].sock].page = tab[t].page
       /\ \A u \in Tabs : tab[u].sock = tab[t].sock => u = t
  /\ \A k \in Sockets : sock[k].st = "free" => sock[k] = Free

(* A page shows what it should, or what will draw it again, or make it load  *)
(* again, is under way: a handler at work, or a command that was sent.       *)
ShowsIt(r) ==
  /\ r.page \in {"deckbrowser", "overview"} =>
       (r.sock = 0 /\ r.shows = Blank) \/ r.shows = Drawn(r.page, col)
  /\ r.page = "browser" /\ r.sock # 0 =>
       r.shows.side = "rows" /\ r.shows.rows = Find(col, r.shows.query)
  /\ r.page = "reviewer" /\ r.sock # 0 =>
       /\ r.shows.side # "none" /\ r.shows.card = session.card
       /\ session.card = Top(col) /\ ui.card = session.card
Holds(box, cmds) == \E i \in DOMAIN box : box[i].cmd \in cmds
Sent(page, cmds) == \E k \in Sockets : sock[k].page = page /\ Holds(sock[k].box, cmds)
Draws(h, page) ==
  \/ page \in {"deckbrowser", "overview"} /\ h.pc \in {"reload", "going"} /\ h.page = page
  \/ page = "browser" /\ h.pc = "search"
  \/ page = "reviewer" /\ h.pc = "load"
Awaited(page) ==
  \/ \E k \in Runs : Draws(run[k], page)
  \/ page = "browser" /\ Sent(page, {"search", "refresh"})
  \/ page = "reviewer" /\ Sent(page, {"show"})
Hears(r) == ShowsIt(r) \/ (r.sock # 0 /\ Awaited(r.page))
Heard == ~missed => \A r \in {tab[t] : t \in Tabs} : Hears(r)

Pages == Shapes /\ Records /\ Linked /\ Heard

(* The collection and what it can go back to; and what AnkiConnect was asked.*)
Collections == IsSeq(undos) /\ Sound(col) /\ \A i \in DOMAIN undos : Sound(undos[i])
Asked ==
  /\ desk \in Desks
  /\ run[Connect].pc \in {"cards", "raw", "addNotes"} => run[Connect] \in desk.asks

DeskInv == Pages /\ Collections /\ Asked

---------------------------------------------------------------------------
(* Sequences, boxes of commands among them.                                  *)

LEMMA OwnElements == ASSUME NEW S, NEW s \in Seq(S) PROVE IsSeq(s)
<1>1. s \in [1..Len(s) -> S] /\ Len(s) \in Nat
  OBVIOUS
<1>2. s \in [1..Len(s) -> {s[i] : i \in DOMAIN s}]
  BY <1>1
<1> QED BY <1>1, <1>2 DEF IsSeq

LEMMA Appended ==
  ASSUME NEW b, IsSeq(b), NEW e
  PROVE  /\ IsSeq(Append(b, e)) /\ Len(Append(b, e)) = Len(b) + 1 /\ Len(b) \in Nat
         /\ DOMAIN Append(b, e) = 1..(Len(b) + 1) /\ DOMAIN b = 1..Len(b)
         /\ \A i \in DOMAIN b : Append(b, e)[i] = b[i]
         /\ Append(b, e)[Len(b) + 1] = e
         /\ \A cmds : Holds(b, cmds) \/ e.cmd \in cmds => Holds(Append(b, e), cmds)
<1> DEFINE S == {b[i] : i \in DOMAIN b} \cup {e}
<1>1. b \in Seq({b[i] : i \in DOMAIN b})
  BY DEF IsSeq
<1>2. b \in Seq(S) /\ e \in S
  BY <1>1
<1> HIDE DEF S
<1>3. Append(b, e) \in Seq(S) /\ Len(Append(b, e)) = Len(b) + 1 /\ Len(b) \in Nat
  BY <1>2
<1>4. DOMAIN Append(b, e) = 1..(Len(b) + 1) /\ DOMAIN b = 1..Len(b)
  BY <1>2, <1>3
<1>5. (\A i \in DOMAIN b : Append(b, e)[i] = b[i]) /\ Append(b, e)[Len(b) + 1] = e
  BY <1>2, <1>3, <1>4
<1>6. \A cmds : Holds(b, cmds) \/ e.cmd \in cmds => Holds(Append(b, e), cmds)
  BY <1>3, <1>4, <1>5 DEF Holds
<1> QED BY <1>3, <1>4, <1>5, <1>6, OwnElements

LEMMA Rest ==
  ASSUME NEW b, IsSeq(b), b # <<>>
  PROVE  /\ IsSeq(Tail(b))
         /\ \A cmds : Holds(b, cmds) => Head(b).cmd \in cmds \/ Holds(Tail(b), cmds)
<1> DEFINE S == {b[i] : i \in DOMAIN b}
<1>1. b \in Seq(S)
  BY DEF IsSeq
<1> HIDE DEF S
<1>2. Len(b) \in Nat \ {0} /\ DOMAIN b = 1..Len(b) /\ Head(b) = b[1]
  BY <1>1
<1>3. Tail(b) \in Seq(S) /\ Len(Tail(b)) = Len(b) - 1 /\ \A i \in 1..(Len(b) - 1) : Tail(b)[i] = b[i + 1]
  BY <1>1, <1>2
<1>4. ASSUME NEW cmds, Holds(b, cmds), Head(b).cmd \notin cmds PROVE Holds(Tail(b), cmds)
  <2>1. PICK i \in DOMAIN b : b[i].cmd \in cmds
    BY <1>4 DEF Holds
  <2>2. i # 1 /\ i - 1 \in 1..(Len(b) - 1)
    BY <2>1, <1>2, <1>4
  <2>3. DOMAIN Tail(b) = 1..(Len(b) - 1)
    BY <1>3, <1>2
  <2>4. Tail(b)[i - 1] = b[i]
    BY <1>3, <2>2, <1>2, <2>1
  <2> QED BY <2>1, <2>2, <2>3, <2>4 DEF Holds
<1> QED BY <1>3, <1>4, OwnElements

LEMMA Few ==
  /\ IsSeq(<<>>) /\ \A cmds : ~Holds(<<>>, cmds)
  /\ \A x : IsSeq(<<x>>) /\ \A cmds : x.cmd \in cmds => Holds(<<x>>, cmds)
<1>1. <<>> \in Seq({}) /\ DOMAIN <<>> = {}
  OBVIOUS
<1>2. \A x : <<x>> \in Seq({x}) /\ DOMAIN <<x>> = {1} /\ <<x>>[1] = x
  OBVIOUS
<1> QED BY <1>1, <1>2, OwnElements DEF Holds
---------------------------------------------------------------------------
(* What a step may keep of what was awaited and shown.                       *)
Busy == {"reload", "going", "search", "load"}
RunsOn == run' = [k \in Runs |-> run'[k]]
RunKeeps == RunsOn /\ \A k \in Runs : run[k].pc \in Busy => run'[k] = run[k]
BoxesKeep ==
  \A k \in Sockets : \A cmds :
    Holds(sock[k].box, cmds) => sock'[k].page = sock[k].page /\ Holds(sock'[k].box, cmds)
SameCards == session'.card = session.card /\ ui'.card = ui.card
Alike(c, d) ==
  /\ Top(c) = Top(d)
  /\ \A q : Find(c, q) = Find(d, q)
  /\ \A page : Drawn(page, c) = Drawn(page, d)
Calm == Records' /\ SameCards /\ RunKeeps

LEMMA DrawsLater ==
  ASSUME NEW h, NEW page, Draws(h, page) PROVE h.pc \in Busy
BY DEF Draws, Busy

LEMMA AwaitedLater ==
  ASSUME RunKeeps, BoxesKeep, NEW page, Awaited(page)
  PROVE  Awaited(page)'
<1>1. CASE \E k \in Runs : Draws(run[k], page)
  BY <1>1, DrawsLater DEF RunKeeps, Awaited
<1>2. ASSUME NEW cmds, Sent(page, cmds) PROVE Sent(page, cmds)'
  BY <1>2 DEF Sent, BoxesKeep
<1> QED BY <1>1, <1>2 DEF Awaited

LEMMA ShownLater ==
  ASSUME Alike(col, col'), SameCards, NEW r, ShowsIt(r)
  PROVE  ShowsIt(r)'
BY DEF ShowsIt, Alike, SameCards

(* Nothing happens to a page, and what changes is not shown, or it is noted  *)
(* that nobody was told.                                                     *)
Still == Calm /\ UNCHANGED <<tab, sock>> /\ (~missed' => ~missed /\ Alike(col, col'))

LEMMA StillStep == Pages /\ Still => Pages'
<1> SUFFICES ASSUME Pages, Still PROVE Pages'
  OBVIOUS
<1>1. Shapes' /\ Linked' /\ Records'
  BY DEF Pages, Still, Calm, RunKeeps, RunsOn, Shapes, Linked, Runs
<1>2. BoxesKeep
  BY DEF Still, BoxesKeep
<1>3. ASSUME ~missed', NEW r, Hears(r) PROVE Hears(r)'
  <2>1. ASSUME Awaited(r.page) PROVE Awaited(r.page)'
    BY <1>2, <2>1, AwaitedLater DEF Still, Calm
  <2>2. ASSUME ShowsIt(r) PROVE ShowsIt(r)'
    BY <1>3, <2>2, ShownLater DEF Still, Calm
  <2> QED BY <1>3, <2>1, <2>2 DEF Hears
<1>4. Heard'
  BY <1>3 DEF Pages, Heard, Still
<1> QED BY <1>1, <1>4 DEF Pages

(* Pages that leave, and browsers that are asked to search again.            *)
LEMMA Left ==
  ASSUME Shapes, Linked, RunsOn, NEW ts \in SUBSET Tabs, NEW to, NEW asked \in SUBSET Tabs,
         Leaves(ts, to, asked), \A t \in asked : tab[t].sock # 0
  PROVE  /\ Shapes' /\ Linked' /\ BoxesKeep
         /\ \A t \in ts : tab'[t].sock = 0 /\ tab'[t].shows = Blank
         /\ \A t \in Tabs \ ts : tab'[t] = tab[t]
         /\ \A t \in asked \ ts : Holds(sock'[tab[t].sock].box, {"search", "refresh"})
<1> USE DEF Shapes
<1> DEFINE goes(k) == \E t \in ts : tab[t].sock = k
           asks(k) == \E t \in asked : tab[t].sock = k
           refresh == [cmd |-> "refresh"]
<1>1. tab' = [t \in Tabs |-> IF t \in ts THEN Away(IF to = "same" THEN tab[t].page ELSE to) ELSE tab[t]]
  BY DEF Leaves
<1>2. sock' = [k \in Sockets |->
         IF goes(k) THEN [sock[k] EXCEPT !.st = "gone"]
         ELSE IF asks(k) THEN [sock[k] EXCEPT !.box = Append(@, refresh)]
         ELSE sock[k]]
  BY DEF Leaves
<1>3. tab' = [t \in Tabs |-> tab'[t]] /\ sock' = [k \in Sockets |-> sock'[k]]
  BY <1>1, <1>2
<1>4. \A t \in ts : TabShape(tab'[t]) /\ tab'[t].sock = 0 /\ tab'[t].shows = Blank
  BY <1>1 DEF Away, TabShape
<1>5. \A t \in Tabs \ ts : tab'[t] = tab[t]
  BY <1>1
<1>6. ASSUME NEW k \in Sockets
      PROVE  /\ SockShape(sock'[k]) /\ sock'[k].page = sock[k].page
             /\ \A cmds : Holds(sock[k].box, cmds) => Holds(sock'[k].box, cmds)
             /\ sock'[k].st = IF goes(k) THEN "gone" ELSE sock[k].st
             /\ ~goes(k) /\ asks(k) => Holds(sock'[k].box, {"search", "refresh"})
             /\ ~goes(k) /\ ~asks(k) => sock'[k] = sock[k]
  <2>1. SockShape(sock[k])
    OBVIOUS
  <2>2. CASE goes(k)
    <3>1. sock'[k] = [st |-> "gone", page |-> sock[k].page, box |-> sock[k].box]
      BY <1>2, <2>1, <2>2 DEF SockShape
    <3> QED BY <3>1, <2>1, <2>2 DEF SockShape
  <2>3. CASE ~goes(k) /\ asks(k)
    <3>1. sock'[k] = [st |-> sock[k].st, page |-> sock[k].page, box |-> Append(sock[k].box, refresh)]
      BY <1>2, <2>1, <2>3 DEF SockShape
    <3>2. IsSeq(sock[k].box)
      BY <2>1 DEF SockShape
    <3>3. IsSeq(Append(sock[k].box, refresh))
      BY <3>2, Appended
    <3>4. \A cmds : Holds(sock[k].box, cmds) => Holds(Append(sock[k].box, refresh), cmds)
      BY <3>2, Appended
    <3>5. Holds(Append(sock[k].box, refresh), {"search", "refresh"})
      BY <3>2, Appended
    <3>6. sock'[k].box = Append(sock[k].box, refresh) /\ SockShape(sock'[k])
          /\ sock'[k].page = sock[k].page /\ sock'[k].st = sock[k].st
      BY <3>1, <3>3 DEF SockShape
    <3> QED BY <3>4, <3>5, <3>6, <2>3
  <2>4. CASE ~goes(k) /\ ~asks(k)
    BY <1>2, <2>1, <2>4
  <2> QED BY <2>2, <2>3, <2>4
<1>7. Shapes'
  BY <1>3, <1>4, <1>5, <1>6 DEF RunsOn, Runs
<1>8. Linked'
  <2>1. ASSUME NEW t \in Tabs, tab'[t].sock # 0
        PROVE  /\ tab'[t].sock \in Sockets
               /\ sock'[tab'[t].sock].st = "open" /\ sock'[tab'[t].sock].page = tab'[t].page
               /\ \A u \in Tabs : tab'[u].sock = tab'[t].sock => u = t
    <3>1. t \notin ts /\ tab'[t] = tab[t] /\ tab[t].sock \in Sockets
      BY <2>1, <1>4, <1>5 DEF Linked
    <3>2. ~goes(tab[t].sock)
      BY <3>1, <2>1 DEF Linked
    <3>3. \A u \in Tabs : tab'[u].sock = tab'[t].sock => u = t
      BY <3>1, <2>1, <1>4, <1>5 DEF Linked
    <3>4. sock[tab[t].sock].st = "open" /\ sock[tab[t].sock].page = tab[t].page
      BY <3>1, <2>1 DEF Linked
    <3>5. sock'[tab[t].sock].st = sock[tab[t].sock].st /\ sock'[tab[t].sock].page = sock[tab[t].sock].page
      BY <3>1, <3>2, <1>6
    <3> QED BY <3>1, <3>3, <3>4, <3>5
  <2>2. ASSUME NEW k \in Sockets, sock'[k].st = "free" PROVE sock'[k] = Free
    <3>1. ~goes(k) /\ sock[k].st = "free"
      BY <2>2, <1>6
    <3>2. k # 0 /\ ~asks(k)
      BY <3>1, NumbersAssumption DEF Linked
    <3> QED BY <3>1, <3>2, <1>6 DEF Linked
  <2> QED BY <2>1, <2>2 DEF Linked
<1>9. ASSUME NEW t \in asked \ ts PROVE Holds(sock'[tab[t].sock].box, {"search", "refresh"})
  <2>1. tab[t].sock \in Sockets /\ ~goes(tab[t].sock) /\ asks(tab[t].sock)
    BY <1>9 DEF Linked
  <2> QED BY <2>1, <1>6
<1>10. BoxesKeep
  BY <1>6 DEF BoxesKeep
<1> QED BY <1>4, <1>5, <1>7, <1>8, <1>9, <1>10
(* A change that is told, by a screen whose own pages are not: something is  *)
(* under way that will draw those.                                           *)
Covers(initiator) ==
  /\ initiator \in {"deckbrowser", "overview", "browser"} => \E k \in Runs : Draws(run'[k], initiator)
  /\ initiator = "reviewer" => Top(col') = Top(col) \/ \E k \in Runs : Draws(run'[k], initiator)
Tell(initiator) ==
  Calm /\ \E s \in Spreads(col') : Broadcasts(initiator, s) /\ (s.ok /\ col' # col => Covers(initiator))

LEMMA SeenTabs ==
  ASSUME Linked
  PROVE  /\ Seen(Contexts) = {t \in Tabs : tab[t].sock # 0}
         /\ \A page : Seen({page}) = {t \in Tabs : tab[t].sock # 0 /\ tab[t].page = page}
BY DEF Seen, Contexts, Linked

LEMMA Reached ==
  ASSUME NEW ctxs, NEW s \in Sends(ctxs)
  PROVE  s.got \in SUBSET Seen(ctxs) /\ s.ok \in BOOLEAN /\ (s.ok => s.got = Seen(ctxs))
<1>1. CASE s = [got |-> Seen(ctxs), ok |-> TRUE]
  BY <1>1
<1>2. CASE \E ts \in SUBSET Seen(ctxs) : s = [got |-> ts, ok |-> FALSE]
  BY <1>2
<1> QED BY <1>1, <1>2 DEF Sends

LEMMA TellStep == ASSUME NEW initiator PROVE Pages /\ Tell(initiator) => Pages'
<1> SUFFICES ASSUME Pages, Tell(initiator) PROVE Pages'
  OBVIOUS
<1> USE DEF Pages
<1>1. PICK s \in Spreads(col') : Broadcasts(initiator, s) /\ (s.ok /\ col' # col => Covers(initiator))
  BY DEF Tell
<1> DEFINE others == {t \in s.got : tab[t].page # initiator}
           asking == {t \in others : tab[t].page = "browser"}
           ts == others \ asking
<1>2. /\ s.got \in SUBSET {t \in Tabs : tab[t].sock # 0}
      /\ s.ok /\ col' # col => s.got = {t \in Tabs : tab[t].sock # 0}
      /\ s.ok \in BOOLEAN
  <2>1. CASE col' = col
    <3>1. s = [got |-> {}, ok |-> TRUE]
      BY <2>1, <1>1 DEF Spreads
    <3> QED BY <3>1, <2>1
  <2>2. CASE col' # col
    BY <2>2, <1>1, SeenTabs, Reached DEF Spreads
  <2> QED BY <2>1, <2>2
<1>3. Leaves(ts, "same", asking) /\ missed' = (missed \/ ~s.ok \/ (Untold /\ col' # col))
  BY <1>1 DEF Broadcasts
<1>4. ts \in SUBSET Tabs /\ asking \in SUBSET Tabs /\ asking \ ts = asking /\ \A t \in asking : tab[t].sock # 0
  BY <1>2
<1>5. RunsOn /\ RunKeeps /\ Records' /\ SameCards
  BY DEF Tell, Calm, RunKeeps
<1> HIDE DEF ts, asking
<1>6. /\ Shapes' /\ Linked' /\ BoxesKeep
      /\ \A t \in ts : tab'[t].sock = 0 /\ tab'[t].shows = Blank
      /\ \A t \in Tabs \ ts : tab'[t] = tab[t]
      /\ \A t \in asking : Holds(sock'[tab[t].sock].box, {"search", "refresh"})
  BY <1>3, <1>4, <1>5, Left
<1>7. ASSUME ~missed', NEW r \in {tab'[t] : t \in Tabs} PROVE Hears(r)'
  <2> PICK t \in Tabs : r = tab'[t]
    OBVIOUS
  <2>1. Hears(tab[t]) /\ s.ok /\ (col' # col => ~Untold)
    BY <1>7, <1>3 DEF Heard
  <2>2. ASSUME Awaited(r.page) PROVE Awaited(r.page)'
    BY <2>2, <1>5, <1>6, AwaitedLater
  <2>3. CASE t \in ts
    BY <2>3, <1>6 DEF Hears, ShowsIt
  <2>4. CASE t \in asking
    <3>1. r = tab[t] /\ r.page = "browser" /\ r.sock \in Sockets /\ r.sock # 0
          /\ sock[r.sock].page = "browser"
      BY <2>4, <1>4, <1>6 DEF Linked, asking, ts
    <3>2. Holds(sock'[r.sock].box, {"search", "refresh"})
      BY <2>4, <1>6, <3>1
    <3>3. sock'[r.sock].page = "browser"
      BY <2>4, <1>6, <3>1, <1>4 DEF Linked, asking, ts
    <3>4. Sent("browser", {"search", "refresh"})'
      BY <3>1, <3>2, <3>3 DEF Sent
    <3> QED BY <3>1, <3>4 DEF Hears, Awaited
  <2>5. CASE t \notin ts \cup asking /\ col' = col
    <3>1. r = tab[t]
      BY <2>5, <1>6
    <3>2. ASSUME ShowsIt(r) PROVE ShowsIt(r)'
      BY <3>2, <2>5, <1>5 DEF ShowsIt, SameCards
    <3> QED BY <2>1, <2>2, <3>1, <3>2 DEF Hears
  <2>6. CASE t \notin ts \cup asking /\ col' # col /\ tab[t].sock = 0
    <3>1. r = tab[t] /\ r.shows = Blank
      BY <2>6, <1>6, <2>1 DEF Untold
    <3> QED BY <3>1, <2>6 DEF Hears, ShowsIt
  <2>7. CASE t \notin ts \cup asking /\ col' # col /\ tab[t].sock # 0
    <3>1. r = tab[t] /\ r.page = initiator
      BY <2>7, <1>6, <1>2, <2>1 DEF ts, asking
    <3>2. Covers(initiator)
      BY <1>1, <2>1, <2>7
    <3>3. CASE \E k \in Runs : Draws(run'[k], initiator)
      BY <3>1, <3>3, <2>7 DEF Hears, Awaited
    <3>4. CASE initiator = "reviewer" /\ Top(col') = Top(col)
      <4>1. ASSUME ShowsIt(r) PROVE ShowsIt(r)'
        BY <4>1, <3>1, <3>4, <1>5 DEF ShowsIt, SameCards
      <4> QED BY <2>1, <2>2, <3>1, <4>1, <2>7 DEF Hears
    <3>5. CASE initiator \notin {"deckbrowser", "overview", "browser", "reviewer"}
      BY <3>1, <3>5 DEF Hears, ShowsIt
    <3> QED BY <3>2, <3>3, <3>4, <3>5 DEF Covers
  <2> QED BY <2>3, <2>4, <2>5, <2>6, <2>7
<1>8. Heard'
  BY <1>7 DEF Heard
<1> QED BY <1>5, <1>6, <1>8

(* Pages go to another address, or load again; a handler that was to make    *)
(* them do so has reached them all.                                          *)
Move ==
  /\ Records' /\ SameCards /\ RunsOn /\ col' = col
  /\ \E ts \in SUBSET Tabs : \E to :
       /\ Leaves(ts, to, {})
       /\ ~missed' =>
            /\ ~missed
            /\ \A k \in Runs : run[k].pc \in Busy =>
                 \/ run'[k] = run[k]
                 \/ run[k].pc \in {"reload", "going"} /\ Seen({run[k].page}) \subseteq ts

LEMMA MoveStep == Pages /\ Move => Pages'
<1> SUFFICES ASSUME Pages, Move PROVE Pages'
  OBVIOUS
<1> USE DEF Pages
<1>1. PICK ts, to :
        /\ ts \in SUBSET Tabs
        /\ Leaves(ts, to, {})
        /\ ~missed' =>
             /\ ~missed
             /\ \A k \in Runs : run[k].pc \in Busy =>
                  \/ run'[k] = run[k]
                  \/ run[k].pc \in {"reload", "going"} /\ Seen({run[k].page}) \subseteq ts
  BY DEF Move
<1>2. /\ Shapes' /\ Linked' /\ BoxesKeep
      /\ \A t \in ts : tab'[t].sock = 0 /\ tab'[t].shows = Blank
      /\ \A t \in Tabs \ ts : tab'[t] = tab[t]
  <2>1. {} \in SUBSET Tabs /\ RunsOn
    BY DEF Move
  <2> QED BY <2>1, <1>1, Left
<1>3. ASSUME ~missed', NEW r \in {tab'[t] : t \in Tabs} PROVE Hears(r)'
  <2> PICK t \in Tabs : r = tab'[t]
    OBVIOUS
  <2>1. CASE t \in ts
    BY <2>1, <1>2 DEF Hears, ShowsIt
  <2>2. CASE t \notin ts
    <3>1. r = tab[t] /\ Hears(r)
      BY <2>2, <1>2, <1>1, <1>3 DEF Heard
    <3>2. CASE ShowsIt(r)
      <4>1. ShowsIt(r)'
        BY <3>2 DEF ShowsIt, Move, SameCards
      <4> QED BY <4>1 DEF Hears
    <3>3. CASE r.sock # 0 /\ Awaited(r.page)
      <4>1. ASSUME NEW k \in Runs, Draws(run[k], r.page) PROVE run'[k] = run[k]
        <5>1. run[k].pc \in Busy
          BY <4>1, DrawsLater
        <5>2. ASSUME run[k].pc \in {"reload", "going"} PROVE run[k].page = r.page
          BY <4>1, <5>2 DEF Draws
        <5>3. ASSUME run[k].page = r.page PROVE ~(Seen({run[k].page}) \subseteq ts)
          BY <5>3, <2>2, <3>1, <3>3, SeenTabs
        <5> QED BY <5>1, <5>2, <5>3, <1>1, <1>3
      <4>2. ASSUME NEW page, NEW cmds, Sent(page, cmds) PROVE Sent(page, cmds)'
        BY <4>2, <1>2 DEF Sent, BoxesKeep
      <4>3. CASE \E k \in Runs : Draws(run[k], r.page)
        BY <4>1, <4>3, <3>3 DEF Hears, Awaited
      <4>4. CASE ~\E k \in Runs : Draws(run[k], r.page)
        BY <4>2, <4>4, <3>3 DEF Hears, Awaited
      <4> QED BY <4>3, <4>4
    <3> QED BY <3>1, <3>2, <3>3 DEF Hears
  <2> QED BY <2>1, <2>2
<1>4. Heard'
  BY <1>3 DEF Heard
<1> QED BY <1>2, <1>4 DEF Move

(* A command is sent, or read.                                               *)
BoxEdited(k, b) == sock' = [sock EXCEPT ![k].box = b]

LEMMA OneBox ==
  ASSUME Shapes, Linked, UNCHANGED tab, RunsOn, NEW k \in Sockets, NEW b, IsSeq(b), BoxEdited(k, b),
         sock[k].st # "free"
  PROVE  /\ Shapes' /\ Linked' /\ sock'[k].box = b
         /\ \A j \in Sockets : sock'[j].page = sock[j].page
         /\ \A j \in Sockets \ {k} : sock'[j] = sock[j]
<1>1. SockShape(sock[k])
  BY DEF Shapes
<1>2. sock' = [j \in Sockets |-> IF j = k THEN [st |-> sock[k].st, page |-> sock[k].page, box |-> b] ELSE sock[j]]
  BY <1>1 DEF BoxEdited, Shapes, SockShape
<1>3. sock'[k] = [st |-> sock[k].st, page |-> sock[k].page, box |-> b] /\ \A j \in Sockets \ {k} : sock'[j] = sock[j]
  BY <1>2
<1>4. sock' = [j \in Sockets |-> sock'[j]]
  BY <1>2
<1>5. \A j \in Sockets : SockShape(sock'[j]) /\ sock'[j].page = sock[j].page /\ sock'[j].st = sock[j].st
  BY <1>3 DEF Shapes, SockShape
<1>6. Shapes'
  BY <1>4, <1>5 DEF Shapes, RunsOn, Runs
<1>7. Linked'
  BY <1>3, <1>5 DEF Linked
<1> QED BY <1>3, <1>5, <1>6, <1>7

(* Nothing but what is awaited changes.                                      *)
LEMMA SameShown ==
  ASSUME Heard, UNCHANGED <<tab, col>>, SameCards, ~missed' => ~missed,
         \A page : Awaited(page) => Awaited(page)'
  PROVE  Heard'
<1>1. ASSUME NEW r, Hears(r) PROVE Hears(r)'
  <2>1. ASSUME ShowsIt(r) PROVE ShowsIt(r)'
    BY <2>1 DEF ShowsIt, SameCards
  <2> QED BY <1>1, <2>1 DEF Hears
<1> QED BY <1>1 DEF Heard

Command(t, c) == Commands(t, c) /\ UNCHANGED session

LEMMA CommandStep == ASSUME NEW t \in Tabs, NEW c PROVE Pages /\ Command(t, c) => Pages'
<1> SUFFICES ASSUME Pages, Command(t, c) PROVE Pages'
  OBVIOUS
<1> USE DEF Pages
<1> DEFINE k == tab[t].sock
           b == Append(sock[k].box, c)
<1>1. k \in Sockets /\ sock[k].st # "free" /\ IsSeq(sock[k].box)
  BY DEF Command, Commands, Linked, Shapes, SockShape
<1>2. UNCHANGED <<col, undos, ui, tab, run, desk, missed, session>> /\ sock' = [sock EXCEPT ![k].box = b]
  BY DEF Command, Commands
<1> HIDE DEF k
<1>3. IsSeq(b) /\ \A cmds : Holds(sock[k].box, cmds) => Holds(b, cmds)
  BY <1>1, Appended
<1> HIDE DEF b
<1>4. Records' /\ SameCards /\ RunKeeps /\ RunsOn
  BY <1>2 DEF Records, SameCards, RunKeeps, RunsOn, Shapes
<1>5. /\ Shapes' /\ Linked' /\ sock'[k].box = b
      /\ \A j \in Sockets : sock'[j].page = sock[j].page
      /\ \A j \in Sockets \ {k} : sock'[j] = sock[j]
  BY <1>1, <1>2, <1>3, <1>4, OneBox DEF BoxEdited
<1>6. BoxesKeep
  BY <1>3, <1>5 DEF BoxesKeep
<1>7. \A page : Awaited(page) => Awaited(page)'
  BY <1>4, <1>6, AwaitedLater
<1>8. Heard'
  BY <1>2, <1>4, <1>7, SameShown
<1> QED BY <1>4, <1>5, <1>8

Read(k, h) ==
  /\ Records' /\ SameCards /\ UNCHANGED <<tab, col, missed>>
  /\ sock[k].box # <<>> /\ run[k].pc = "idle"
  /\ sock' = [sock EXCEPT ![k].box = Tail(@)] /\ run' = [run EXCEPT ![k] = h]
  /\ sock[k].page = "browser" /\ Head(sock[k].box).cmd \in {"search", "refresh"} => h.pc = "search"
  /\ sock[k].page = "reviewer" /\ Head(sock[k].box).cmd \in {"show"} => h.pc = "load"

LEMMA ReadStep == ASSUME NEW k \in Sockets, NEW h PROVE Pages /\ Read(k, h) => Pages'
<1> SUFFICES ASSUME Pages, Read(k, h) PROVE Pages'
  OBVIOUS
<1> USE DEF Pages
<1> DEFINE b == Tail(sock[k].box)
<1>1. IsSeq(sock[k].box) /\ sock[k].box # <<>> /\ Free.box = <<>>
  BY DEF Read, Shapes, SockShape, Free
<1>2. sock[k].st # "free" /\ sock' = [sock EXCEPT ![k].box = b]
  BY <1>1 DEF Read, Linked
<1>3. IsSeq(b) /\ \A cmds : Holds(sock[k].box, cmds) => Head(sock[k].box).cmd \in cmds \/ Holds(b, cmds)
  BY <1>1, Rest
<1> HIDE DEF b
<1>4. RunsOn /\ run'[k] = h /\ \A j \in Runs \ {k} : run'[j] = run[j]
  BY DEF Read, Shapes, RunsOn, Runs
<1>5. /\ Shapes' /\ Linked' /\ sock'[k].box = b
      /\ \A j \in Sockets : sock'[j].page = sock[j].page
      /\ \A j \in Sockets \ {k} : sock'[j] = sock[j]
  <2>1. BoxEdited(k, b) /\ UNCHANGED tab
    BY <1>2 DEF BoxEdited, Read
  <2> QED BY <1>2, <1>3, <1>4, <2>1, OneBox
<1>6. ASSUME NEW page, Awaited(page) PROVE Awaited(page)'
  <2>1. ASSUME NEW j \in Runs, Draws(run[j], page) PROVE Draws(run'[j], page)
    BY <2>1, <1>4, DrawsLater DEF Read, Busy
  <2>2. ASSUME NEW cmds, Sent(page, cmds), ~Sent(page, cmds)'
        PROVE  page = sock[k].page /\ Head(sock[k].box).cmd \in cmds
    BY <2>2, <1>3, <1>5 DEF Sent
  <2>3. k \in Runs
    BY DEF Runs
  <2>4. CASE \E j \in Runs : Draws(run[j], page)
    BY <2>1, <2>4 DEF Awaited
  <2>5. CASE page = "browser" /\ Sent(page, {"search", "refresh"}) /\ ~Sent(page, {"search", "refresh"})'
    <3>1. Draws(run'[k], page)
      BY <2>2, <2>5, <1>4 DEF Read, Draws
    <3> QED BY <3>1, <2>3 DEF Awaited
  <2>6. CASE page = "reviewer" /\ Sent(page, {"show"}) /\ ~Sent(page, {"show"})'
    <3>1. Draws(run'[k], page)
      BY <2>2, <2>6, <1>4 DEF Read, Draws
    <3> QED BY <3>1, <2>3 DEF Awaited
  <2> QED BY <1>6, <2>4, <2>5, <2>6 DEF Awaited
<1>7. Heard'
  BY <1>6, SameShown DEF Read
<1> QED BY <1>5, <1>7 DEF Read

(* A page gets a socket, which later is free again.                          *)
LEMMA NoticeStep ==
  ASSUME NEW k \in Sockets PROVE Pages /\ Notice(k) /\ UNCHANGED session => Pages'
<1> SUFFICES ASSUME Pages, Notice(k), UNCHANGED session PROVE Pages'
  OBVIOUS
<1> USE DEF Pages
<1>1. sock' = [j \in Sockets |-> IF j = k THEN Free ELSE sock[j]]
  BY DEF Notice, Shapes
<1>2. UNCHANGED <<col, ui, tab, run, missed, session>> /\ sock[k].st = "gone" /\ sock[k].box = <<>>
  BY DEF Notice
<1>3. SockShape(Free)
  BY Few DEF Free, SockShape
<1>4. Records' /\ SameCards /\ RunKeeps
  BY <1>2 DEF Records, SameCards, RunKeeps, RunsOn, Shapes
<1>5. Shapes'
  <2>1. sock' = [j \in Sockets |-> sock'[j]] /\ \A j \in Sockets : SockShape(sock'[j])
    BY <1>1, <1>3 DEF Shapes
  <2> QED BY <2>1, <1>2 DEF Shapes, Runs
<1>6. Linked'
  BY <1>1, <1>2 DEF Linked
<1>7. BoxesKeep
  <2>1. \A cmds : ~Holds(sock[k].box, cmds)
    BY <1>2, Few
  <2> QED BY <2>1, <1>1 DEF BoxesKeep
<1>8. Heard'
  <2>1. \A page : Awaited(page) => Awaited(page)'
    BY <1>4, <1>7, AwaitedLater
  <2> QED BY <2>1, <1>2, <1>4, SameShown
<1> QED BY <1>4, <1>5, <1>6, <1>8

Open(t, k, first) ==
  /\ Opens(t, k, first) /\ UNCHANGED session /\ IsSeq(first)
  /\ tab[t].page \in {"deckbrowser", "overview"} => tab[t].shows # Blank
  /\ tab[t].page = "browser" => Holds(first, {"search", "refresh"})
  /\ tab[t].page = "reviewer" => Holds(first, {"show"})

LEMMA OpenStep ==
  ASSUME NEW t \in Tabs, NEW k \in Sockets, NEW first PROVE Pages /\ Open(t, k, first) => Pages'
<1> SUFFICES ASSUME Pages, Open(t, k, first) PROVE Pages'
  OBVIOUS
<1> USE DEF Pages
<1> DEFINE s == [st |-> "open", page |-> tab[t].page, box |-> first]
           r == [page |-> tab[t].page, sock |-> k, shows |-> tab[t].shows]
<1>1. sock' = [j \in Sockets |-> IF j = k THEN s ELSE sock[j]]
  BY DEF Open, Opens, Shapes
<1>2. tab' = [u \in Tabs |-> IF u = t THEN r ELSE tab[u]]
  <2>1. tab' = [tab EXCEPT ![t].sock = k] /\ TabShape(tab[t]) /\ tab = [u \in Tabs |-> tab[u]]
    BY DEF Open, Opens, Shapes
  <2> QED BY <2>1 DEF TabShape
<1>3. /\ UNCHANGED <<col, run, missed, session>> /\ ui' = [ui EXCEPT !.screen = tab[t].page]
      /\ tab[t].sock = 0 /\ sock[k].st = "free" /\ IsSeq(first) /\ k # 0
  BY NumbersAssumption DEF Open, Opens
<1>4. sock[k] = Free
  BY <1>3 DEF Linked
<1>5. Records' /\ SameCards /\ RunKeeps
  BY <1>3 DEF Records, SameCards, RunKeeps, RunsOn, Shapes
<1>6. Shapes'
  <2>1. SockShape(s)
    BY <1>3 DEF SockShape
  <2>2. TabShape(r)
    BY DEF TabShape
  <2> HIDE DEF s, r
  <2>3. tab' = [u \in Tabs |-> tab'[u]] /\ sock' = [j \in Sockets |-> sock'[j]]
    BY <1>1, <1>2
  <2>4. (\A u \in Tabs : TabShape(tab'[u])) /\ \A j \in Sockets : SockShape(sock'[j])
    BY <1>1, <1>2, <2>1, <2>2 DEF Shapes
  <2> QED BY <2>3, <2>4, <1>3 DEF Shapes, Runs
<1>7. Linked'
  <2>1. \A u \in Tabs : tab[u].sock # k
    BY <1>3 DEF Linked
  <2>2. s.st = "open" /\ s.page = r.page /\ r.sock = k
    OBVIOUS
  <2> HIDE DEF s, r
  <2>3. ASSUME NEW u \in Tabs, tab'[u].sock # 0
        PROVE  /\ tab'[u].sock \in Sockets
               /\ sock'[tab'[u].sock].st = "open" /\ sock'[tab'[u].sock].page = tab'[u].page
               /\ \A v \in Tabs : tab'[v].sock = tab'[u].sock => v = u
    <3>1. CASE u = t
      BY <3>1, <2>1, <2>2, <1>1, <1>2
    <3>2. CASE u # t
      BY <2>3, <3>2, <2>1, <2>2, <1>1, <1>2 DEF Linked
    <3> QED BY <3>1, <3>2
  <2>4. \A j \in Sockets : sock'[j].st = "free" => sock'[j] = Free
    BY <1>1, <2>2 DEF Linked
  <2> QED BY <2>3, <2>4 DEF Linked
<1>8. BoxesKeep
  <2>1. \A cmds : ~Holds(sock[k].box, cmds)
    BY <1>4, Few DEF Free
  <2> QED BY <2>1, <1>1 DEF BoxesKeep
<1>9. ASSUME ~missed', NEW x \in {tab'[u] : u \in Tabs} PROVE Hears(x)'
  <2>1. \A page : Awaited(page) => Awaited(page)'
    BY <1>5, <1>8, AwaitedLater
  <2> PICK u \in Tabs : x = tab'[u]
    OBVIOUS
  <2>2. Hears(tab[u])
    BY <1>9, <1>3 DEF Heard
  <2>3. CASE u # t
    <3>1. x = tab[u]
      BY <2>3, <1>2
    <3>2. ASSUME ShowsIt(x) PROVE ShowsIt(x)'
      BY <3>2, <1>3, <1>5 DEF ShowsIt, SameCards
    <3> QED BY <2>1, <2>2, <3>1, <3>2 DEF Hears
  <2>4. CASE u = t
    <3>1. x = r /\ x.sock # 0
      BY <2>4, <1>2, <1>3
    <3>2. sock'[k].page = x.page /\ sock'[k].box = first
      BY <3>1, <1>1
    <3>3. CASE x.page \in {"deckbrowser", "overview"}
      BY <3>1, <3>3, <2>2, <2>4, <1>3 DEF Hears, ShowsIt, Open
    <3>4. CASE x.page = "browser"
      <4>1. Sent("browser", {"search", "refresh"})'
        BY <3>1, <3>2, <3>4 DEF Sent, Open
      <4> QED BY <4>1, <3>1, <3>4 DEF Hears, Awaited
    <3>5. CASE x.page = "reviewer"
      <4>1. Sent("reviewer", {"show"})'
        BY <3>1, <3>2, <3>5 DEF Sent, Open
      <4> QED BY <4>1, <3>1, <3>5 DEF Hears, Awaited
    <3>6. CASE x.page \notin {"deckbrowser", "overview", "browser", "reviewer"}
      BY <3>6 DEF Hears, ShowsIt
    <3> QED BY <3>3, <3>4, <3>5, <3>6
  <2> QED BY <2>3, <2>4
<1>10. Heard'
  BY <1>9 DEF Heard
<1> QED BY <1>5, <1>6, <1>7, <1>10

(* What the server draws on pages.                                           *)
LEMMA Redrawn ==
  ASSUME Shapes, Linked, RunsOn, UNCHANGED sock, NEW ts \in SUBSET Tabs, NEW screen, Put(ts, screen)
  PROVE  /\ Shapes' /\ Linked' /\ BoxesKeep
         /\ \A t \in ts :
              tab'[t].page = tab[t].page /\ tab'[t].sock = tab[t].sock /\ tab'[t].shows = screen
         /\ \A t \in Tabs \ ts : tab'[t] = tab[t]
<1>1. tab' = [t \in Tabs |-> IF t \in ts THEN [tab[t] EXCEPT !.shows = screen] ELSE tab[t]]
  BY DEF Put
<1>2. \A t \in Tabs : TabShape(tab[t])
  BY DEF Shapes
<1>3. ASSUME NEW t \in ts
      PROVE  /\ tab'[t] = [page |-> tab[t].page, sock |-> tab[t].sock, shows |-> screen]
             /\ tab'[t].page = tab[t].page /\ tab'[t].sock = tab[t].sock /\ tab'[t].shows = screen
  <2>1. tab'[t] = [tab[t] EXCEPT !.shows = screen]
    BY <1>1
  <2>2. tab[t] = [page |-> tab[t].page, sock |-> tab[t].sock, shows |-> tab[t].shows]
    BY <1>2 DEF TabShape
  <2>3. tab'[t] = [page |-> tab[t].page, sock |-> tab[t].sock, shows |-> screen]
    BY <2>1, <2>2
  <2> QED BY <2>3
<1>4. \A t \in Tabs \ ts : tab'[t] = tab[t]
  BY <1>1
<1>5. tab' = [t \in Tabs |-> tab'[t]]
  BY <1>1
<1>6. ASSUME NEW t \in Tabs
      PROVE  TabShape(tab'[t]) /\ tab'[t].page = tab[t].page /\ tab'[t].sock = tab[t].sock
  <2>1. CASE t \in ts
    BY <2>1, <1>3 DEF TabShape
  <2>2. CASE t \notin ts
    BY <2>2, <1>2, <1>4
  <2> QED BY <2>1, <2>2
<1>7. Shapes'
  BY <1>5, <1>6 DEF Shapes, RunsOn, Runs
<1>8. Linked'
  BY <1>6 DEF Linked
<1> QED BY <1>3, <1>4, <1>7, <1>8 DEF BoxesKeep

(* A page that is drawn as it should be, or that shows nothing of the        *)
(* collection.                                                               *)
Redraw ==
  /\ Calm /\ UNCHANGED <<col, sock>>
  /\ \E ts \in SUBSET Tabs : \E screen :
       /\ Put(ts, screen)
       /\ ~missed' => ~missed
       /\ \A t \in ts :
            \/ tab[t].page \notin {"deckbrowser", "overview", "browser", "reviewer"}
            \/ tab[t].page \in DeckPages /\ screen = Drawn(tab[t].page, col)
            \/ tab[t].page = "reviewer" /\ screen.side # "none" /\ screen.card = session.card

LEMMA RedrawStep == Pages /\ Redraw => Pages'
<1> SUFFICES ASSUME Pages, Redraw PROVE Pages'
  OBVIOUS
<1> USE DEF Pages
<1>1. PICK ts, screen :
       /\ ts \in SUBSET Tabs
       /\ Put(ts, screen)
       /\ ~missed' => ~missed
       /\ \A t \in ts :
            \/ tab[t].page \notin {"deckbrowser", "overview", "browser", "reviewer"}
            \/ tab[t].page \in DeckPages /\ screen = Drawn(tab[t].page, col)
            \/ tab[t].page = "reviewer" /\ screen.side # "none" /\ screen.card = session.card
  BY DEF Redraw
<1>2. Records' /\ SameCards /\ RunKeeps /\ RunsOn /\ UNCHANGED <<col, sock>>
  BY DEF Redraw, Calm, RunKeeps
<1>3. /\ Shapes' /\ Linked' /\ BoxesKeep
      /\ \A t \in ts :
           tab'[t].page = tab[t].page /\ tab'[t].sock = tab[t].sock /\ tab'[t].shows = screen
      /\ \A t \in Tabs \ ts : tab'[t] = tab[t]
  BY <1>1, <1>2, Redrawn
<1>4. \A page : Awaited(page) => Awaited(page)'
  BY <1>2, <1>3, AwaitedLater
<1>5. ASSUME NEW r, ShowsIt(r) PROVE ShowsIt(r)'
  BY <1>2, <1>5 DEF ShowsIt, SameCards
<1>6. ASSUME ~missed', NEW x \in {tab'[u] : u \in Tabs} PROVE Hears(x)'
  <2> PICK t \in Tabs : x = tab'[t]
    OBVIOUS
  <2>1. Hears(tab[t])
    BY <1>6, <1>1 DEF Heard
  <2>2. CASE t \notin ts
    BY <2>1, <2>2, <1>3, <1>4, <1>5 DEF Hears
  <2>3. CASE t \in ts
    <3>1. x.page = tab[t].page /\ x.sock = tab[t].sock /\ x.shows = screen
      BY <2>3, <1>3
    <3>2. CASE x.sock # 0 /\ Awaited(x.page)
      BY <3>2, <1>4 DEF Hears
    <3>3. CASE ShowsIt(tab[t])
      <4>1. CASE x.page \notin {"deckbrowser", "overview", "browser", "reviewer"}
        BY <4>1 DEF Hears, ShowsIt
      <4>2. CASE x.page \in DeckPages /\ screen = Drawn(x.page, col)
        BY <4>2, <3>1, <1>2 DEF Hears, ShowsIt, DeckPages
      <4>3. CASE x.page = "reviewer" /\ screen.side # "none" /\ screen.card = session.card
        BY <4>3, <3>1, <3>3, <1>2 DEF Hears, ShowsIt, SameCards
      <4> QED BY <4>1, <4>2, <4>3, <3>1, <2>3, <1>1
    <3> QED BY <2>1, <3>1, <3>2, <3>3 DEF Hears
  <2> QED BY <2>2, <2>3
<1>7. Heard'
  BY <1>6 DEF Heard
<1> QED BY <1>2, <1>3, <1>7

(* A search reaches all browser pages, and a handler that was to draw them   *)
(* ends.                                                                     *)
LEMMA AwaitedElse ==
  ASSUME NEW k \in Runs, \A j \in Runs \ {k} : run'[j] = run[j], BoxesKeep,
         NEW page, Awaited(page), ~Draws(run[k], page)
  PROVE  Awaited(page)'
<1>1. CASE \E j \in Runs : Draws(run[j], page)
  <2>1. PICK j \in Runs : Draws(run[j], page)
    BY <1>1
  <2>2. run'[j] = run[j]
    BY <2>1
  <2> QED BY <2>1, <2>2 DEF Awaited
<1>2. ASSUME NEW cmds, Sent(page, cmds) PROVE Sent(page, cmds)'
  BY <1>2 DEF Sent, BoxesKeep
<1> QED BY <1>1, <1>2 DEF Awaited

LEMMA SearchStep ==
  ASSUME NEW k \in Sockets PROVE Pages /\ Search(k) /\ UNCHANGED session => Pages'
<1> SUFFICES ASSUME Pages, Search(k), UNCHANGED session PROVE Pages'
  OBVIOUS
<1> USE DEF Pages
<1>1. PICK s \in Sends({"browser"}) : Put(s.got, Rows(run[k].query)) /\ missed' = (missed \/ ~s.ok)
  BY DEF Search
<1>2. s.got \in SUBSET Tabs /\ s.got \subseteq Seen({"browser"}) /\ s.ok \in BOOLEAN
      /\ (s.ok => s.got = Seen({"browser"}))
  BY Reached, SeenTabs
<1>3. /\ UNCHANGED <<col, sock, session>> /\ run[k].pc = "search" /\ k \in Runs
      /\ RunsOn /\ \A j \in Runs \ {k} : run'[j] = run[j]
  BY DEF Search, Ends, Shapes, RunsOn, Runs
<1>4. Records' /\ SameCards
  <2>1. CASE ui' = ui
    BY <2>1 DEF Records, SameCards
  <2>2. CASE ui' = [ui EXCEPT !.query = run[k].query, !.browsing = TRUE]
    <3>1. ui' = [screen |-> ui.screen, card |-> ui.card, side |-> ui.side, query |-> run[k].query,
                 browsing |-> TRUE, cards |-> ui.cards, notes |-> ui.notes]
      BY <2>2 DEF Records
    <3> QED BY <3>1, <1>3 DEF Records, SameCards
  <2> QED BY <2>1, <2>2 DEF Search
<1>5. /\ Shapes' /\ Linked' /\ BoxesKeep
      /\ \A t \in s.got : tab'[t].page = tab[t].page /\ tab'[t].shows = Rows(run[k].query)
      /\ \A t \in Tabs \ s.got : tab'[t] = tab[t]
  BY <1>1, <1>2, <1>3, Redrawn
<1>6. ASSUME ~missed', NEW x \in {tab'[u] : u \in Tabs} PROVE Hears(x)'
  <2> PICK t \in Tabs : x = tab'[t]
    OBVIOUS
  <2>0. Hears(tab[t]) /\ s.got = Seen({"browser"})
    BY <1>6, <1>1, <1>2 DEF Heard
  <2>1. Hears(tab[t]) /\ s.got = {u \in Tabs : tab[u].sock # 0 /\ tab[u].page = "browser"}
    BY <2>0, SeenTabs
  <2>2. CASE t \notin s.got
    <3>1. x = tab[t] /\ ~(x.page = "browser" /\ x.sock # 0)
      BY <2>1, <2>2, <1>5
    <3>2. ASSUME ShowsIt(x) PROVE ShowsIt(x)'
      BY <3>2, <1>3, <1>4 DEF ShowsIt, SameCards
    <3>3. ASSUME x.sock # 0, Awaited(x.page) PROVE Awaited(x.page)'
      <4>1. ~Draws(run[k], x.page)
        BY <3>1, <3>3, <1>3 DEF Draws
      <4> QED BY <4>1, <3>3, <1>3, <1>5, AwaitedElse
    <3> QED BY <2>1, <3>1, <3>2, <3>3 DEF Hears
  <2>3. CASE t \in s.got
    <3>1. x.page = "browser" /\ x.shows = Rows(run[k].query)
      BY <2>1, <2>3, <1>5
    <3>2. x.shows.side = "rows" /\ x.shows.rows = Find(col, x.shows.query)
      BY <3>1 DEF Rows, Blank
    <3> QED BY <3>1, <3>2, <1>3 DEF Hears, ShowsIt
  <2> QED BY <2>2, <2>3
<1>7. Heard'
  BY <1>6 DEF Heard
<1> QED BY <1>4, <1>5, <1>7

(* The next card reaches all reviewer pages, or they all leave.              *)
LEMMA ShowNextStep == ASSUME NEW k \in Runs PROVE Pages /\ ShowNext(k) => Pages'
<1> SUFFICES ASSUME Pages, ShowNext(k) PROVE Pages'
  OBVIOUS
<1> USE DEF Pages
<1> DEFINE c == Top(col)
<1>1. PICK s \in Sends({"reviewer"}) :
        /\ IF c = 0 THEN Leaves(s.got, Goto("overview"), {}) ELSE Put(s.got, Question(c)) /\ UNCHANGED sock
        /\ missed' = (missed \/ ~s.ok)
  BY DEF ShowNext
<1>2. s.got \in SUBSET Tabs /\ s.got \subseteq Seen({"reviewer"}) /\ s.ok \in BOOLEAN
      /\ (s.ok => s.got = Seen({"reviewer"}))
  BY Reached, SeenTabs
<1>3. /\ UNCHANGED col /\ run[k].pc = "load"
      /\ RunsOn /\ \A j \in Runs \ {k} : run'[j] = run[j]
  BY DEF ShowNext, Ends, Shapes, RunsOn, Runs
<1>4. Records' /\ session'.card = c /\ ui'.card = c
  <2>1. session' = IF c = 0 THEN NoCard ELSE Loaded(c)
    BY DEF ShowNext
  <2>2. session'.card = c /\ session' = [card |-> session'.card, ver |-> session'.ver, note |-> session'.note]
    BY <2>1 DEF NoCard, Loaded
  <2>3. ui' = [screen |-> ui.screen, card |-> c, side |-> IF c = 0 THEN "none" ELSE "question",
               query |-> ui.query, browsing |-> ui.browsing, cards |-> ui.cards, notes |-> ui.notes]
    BY DEF ShowNext, Records
  <2> QED BY <2>2, <2>3 DEF Records
<1> HIDE DEF c
<1>5. /\ Shapes' /\ Linked' /\ BoxesKeep
      /\ \A t \in s.got : tab'[t].sock = 0 \/ (tab'[t].page = tab[t].page /\ tab'[t].shows = Question(c))
      /\ \A t \in s.got : tab'[t].sock = 0 => tab'[t].shows = Blank
      /\ \A t \in Tabs \ s.got : tab'[t] = tab[t]
  <2>1. CASE c = 0
    <3>1. Leaves(s.got, Goto("overview"), {}) /\ {} \in SUBSET Tabs
      BY <2>1, <1>1
    <3> QED BY <3>1, <1>2, <1>3, Left
  <2>2. CASE c # 0
    <3>1. \A t \in s.got : tab[t].sock # 0
      <4>1. Seen({"reviewer"}) = {u \in Tabs : tab[u].sock # 0 /\ tab[u].page = "reviewer"}
        BY SeenTabs
      <4> QED BY <4>1, <1>2
    <3>2. Put(s.got, Question(c)) /\ UNCHANGED sock /\ RunsOn /\ s.got \in SUBSET Tabs
      BY <2>2, <1>1, <1>2, <1>3
    <3> QED BY <3>1, <3>2, Redrawn
  <2> QED BY <2>1, <2>2
<1>6. ASSUME ~missed', NEW x \in {tab'[u] : u \in Tabs} PROVE Hears(x)'
  <2> PICK t \in Tabs : x = tab'[t]
    OBVIOUS
  <2>0. Hears(tab[t]) /\ s.got = Seen({"reviewer"})
    BY <1>6, <1>1, <1>2 DEF Heard
  <2>1. Hears(tab[t]) /\ s.got = {u \in Tabs : tab[u].sock # 0 /\ tab[u].page = "reviewer"}
    BY <2>0, SeenTabs
  <2>2. CASE t \notin s.got
    <3>1. x = tab[t] /\ ~(x.page = "reviewer" /\ x.sock # 0)
      BY <2>1, <2>2, <1>5
    <3>2. ASSUME ShowsIt(x) PROVE ShowsIt(x)'
      BY <3>1, <3>2, <1>3 DEF ShowsIt
    <3>3. ASSUME x.sock # 0, Awaited(x.page) PROVE Awaited(x.page)'
      <4>1. ~Draws(run[k], x.page)
        BY <3>1, <3>3, <1>3 DEF Draws
      <4> QED BY <4>1, <3>3, <1>3, <1>5, AwaitedElse
    <3> QED BY <2>1, <3>1, <3>2, <3>3 DEF Hears
  <2>3. CASE t \in s.got /\ x.sock = 0
    <3>1. x.shows = Blank
      BY <2>3, <1>5
    <3> QED BY <2>3, <3>1 DEF Hears, ShowsIt
  <2>4. CASE t \in s.got /\ x.sock # 0
    <3>1. x.page = "reviewer" /\ x.shows = Question(c)
      BY <2>1, <2>4, <1>5
    <3>2. x.shows.side # "none" /\ x.shows.card = c
      BY <3>1 DEF Question, Blank
    <3> QED BY <3>1, <3>2, <1>3, <1>4 DEF Hears, ShowsIt, c
  <2> QED BY <2>2, <2>3, <2>4
<1>7. Heard'
  BY <1>6 DEF Heard
<1> QED BY <1>4, <1>5, <1>7
---------------------------------------------------------------------------
(* What the jobs make of a collection.                                       *)
Shrinks(c, d) == Sound(d) /\ d.notes \subseteq c.notes

LEMMA Pieces ==
  ASSUME NEW c, Sound(c), NEW d, NEW ns, NEW xs, NEW v, NEW ms, NEW h, NEW k, NEW note,
         d = [notes |-> ns, due |-> xs, ver |-> v, marks |-> ms, home |-> h, cur |-> k, note |-> note],
         ns \subseteq c.notes, xs \subseteq CardsOf(ns), note = [n \in Notes |-> note[n]]
  PROVE  Shrinks(c, d)
BY DEF Shrinks, Sound

LEMMA LiveCards == \A c, cs : Live(c, cs) \subseteq CardsOf(c.notes)
BY DEF Live, Exists, CardsOf

LEMMA Jobs1 ==
  ASSUME NEW c, Sound(c)
  PROVE  /\ \A ns : Shrinks(c, Without(c, ns))
         /\ \A cs : Shrinks(c, PutAside(c, cs))
         /\ \A cs : Shrinks(c, Rescheduled(c, cs))
         /\ \A cs : Shrinks(c, Requeued(c, cs))
         /\ \A cs, d : Shrinks(c, Rehomed(c, cs, d)) /\ Rehomed(c, cs, d).notes = c.notes
                       /\ Rehomed(c, cs, d).due = c.due
         /\ \A ms : \A on \in BOOLEAN : Shrinks(c, Marked(c, ms, on))
         /\ \A ns, tag : \A on \in BOOLEAN : Shrinks(c, Tagged(c, ns, tag, on))
         /\ \A d : Shrinks(c, [c EXCEPT !.cur = d])
         /\ \A xs : xs \subseteq c.due \/ xs \subseteq CardsOf(c.notes) => Shrinks(c, [c EXCEPT !.due = xs])
<1>0. c = [notes |-> c.notes, due |-> c.due, ver |-> c.ver, marks |-> c.marks,
           home |-> c.home, cur |-> c.cur, note |-> c.note]
      /\ c.due \subseteq CardsOf(c.notes) /\ c.note = [n \in Notes |-> c.note[n]]
  BY DEF Sound
<1>1. ASSUME NEW ns PROVE Shrinks(c, Without(c, ns))
  <2>1. Without(c, ns) = [notes |-> c.notes \ ns, due |-> c.due \ CardsOf(ns), ver |-> c.ver, marks |-> c.marks,
                          home |-> c.home, cur |-> c.cur, note |-> c.note]
    <3>1. [c EXCEPT !.notes = @ \ ns] =
             [notes |-> c.notes \ ns, due |-> c.due, ver |-> c.ver, marks |-> c.marks,
              home |-> c.home, cur |-> c.cur, note |-> c.note]
      BY <1>0
    <3>2. Without(c, ns) = [[c EXCEPT !.notes = @ \ ns] EXCEPT !.due = @ \ CardsOf(ns)]
      BY DEF Without
    <3> QED BY <3>1, <3>2
  <2>2. c.due \ CardsOf(ns) \subseteq CardsOf(c.notes \ ns)
    BY <1>0 DEF CardsOf
  <2> QED BY <1>0, <2>1, <2>2, Pieces
<1>2. ASSUME NEW cs PROVE Shrinks(c, PutAside(c, cs))
  <2>1. PutAside(c, cs) = [notes |-> c.notes, due |-> c.due \ cs, ver |-> c.ver, marks |-> c.marks,
                          home |-> c.home, cur |-> c.cur, note |-> c.note]
    BY <1>0 DEF PutAside
  <2> QED BY <1>0, <2>1, Pieces
<1>3. ASSUME NEW cs PROVE Shrinks(c, Rescheduled(c, cs))
  <2> DEFINE v == [x \in Cards |-> IF x \in Live(c, cs) THEN c.ver[x] + 1 ELSE c.ver[x]]
  <2>1. Rescheduled(c, cs) = [notes |-> c.notes, due |-> c.due, ver |-> v, marks |-> c.marks,
                          home |-> c.home, cur |-> c.cur, note |-> c.note]
    BY <1>0 DEF Rescheduled
  <2> HIDE DEF v
  <2> QED BY <1>0, <2>1, Pieces
<1>4. ASSUME NEW cs PROVE Shrinks(c, Requeued(c, cs))
  <2> DEFINE v == [x \in Cards |-> IF x \in Live(c, cs) THEN c.ver[x] + 1 ELSE c.ver[x]]
  <2>1. Rescheduled(c, cs) = [notes |-> c.notes, due |-> c.due, ver |-> v, marks |-> c.marks,
                          home |-> c.home, cur |-> c.cur, note |-> c.note]
    BY <1>0 DEF Rescheduled
  <2> HIDE DEF v
  <2>2. Requeued(c, cs) = [notes |-> c.notes, due |-> c.due \cup Live(c, cs), ver |-> v, marks |-> c.marks,
                          home |-> c.home, cur |-> c.cur, note |-> c.note]
    BY <2>1 DEF Requeued
  <2> QED BY <1>0, <2>2, LiveCards, Pieces
<1>5. ASSUME NEW cs, NEW d
      PROVE  Shrinks(c, Rehomed(c, cs, d)) /\ Rehomed(c, cs, d).notes = c.notes /\ Rehomed(c, cs, d).due = c.due
  <2> DEFINE h == [x \in Cards |-> IF x \in Live(c, cs) THEN d ELSE c.home[x]]
  <2>1. Rehomed(c, cs, d) = [notes |-> c.notes, due |-> c.due, ver |-> c.ver, marks |-> c.marks,
                          home |-> h, cur |-> c.cur, note |-> c.note]
    BY <1>0 DEF Rehomed
  <2> HIDE DEF h
  <2> QED BY <1>0, <2>1, Pieces
<1>6. ASSUME NEW ms, NEW on \in BOOLEAN PROVE Shrinks(c, Marked(c, ms, on))
  <2>1. Marked(c, ms, on) = [notes |-> c.notes, due |-> c.due, ver |-> c.ver,
                             marks |-> IF on THEN c.marks \cup ms ELSE c.marks \ ms,
                             home |-> c.home, cur |-> c.cur, note |-> c.note]
    BY <1>0 DEF Marked
  <2> QED BY <1>0, <2>1, Pieces
<1>7. ASSUME NEW ns, NEW tag, NEW on \in BOOLEAN PROVE Shrinks(c, Tagged(c, ns, tag, on))
  <2> DEFINE note == [n \in Notes |->
                        IF n \in ns \cap c.notes THEN Labelled(c.note[n], tag, on) ELSE c.note[n]]
  <2>1. Tagged(c, ns, tag, on) = [notes |-> c.notes, due |-> c.due, ver |-> c.ver, marks |-> c.marks,
                             home |-> c.home, cur |-> c.cur, note |-> note]
    <3>1. Tagged(c, ns, tag, on) = [c EXCEPT !.note = note]
      BY DEF Tagged
    <3> HIDE DEF note
    <3> QED BY <1>0, <3>1
  <2>2. note = [n \in Notes |-> note[n]]
    OBVIOUS
  <2> HIDE DEF note
  <2> QED BY <1>0, <2>1, <2>2, Pieces
<1>8. ASSUME NEW d PROVE Shrinks(c, [c EXCEPT !.cur = d])
  <2>1. [c EXCEPT !.cur = d] = [notes |-> c.notes, due |-> c.due, ver |-> c.ver, marks |-> c.marks,
                             home |-> c.home, cur |-> d, note |-> c.note]
    BY <1>0
  <2> QED BY <1>0, <2>1, Pieces
<1>9. ASSUME NEW xs, xs \subseteq c.due \/ xs \subseteq CardsOf(c.notes) PROVE Shrinks(c, [c EXCEPT !.due = xs])
  <2>1. [c EXCEPT !.due = xs] = [notes |-> c.notes, due |-> xs, ver |-> c.ver, marks |-> c.marks,
                             home |-> c.home, cur |-> c.cur, note |-> c.note]
    BY <1>0
  <2>2. xs \subseteq CardsOf(c.notes)
    BY <1>0, <1>9
  <2> QED BY <1>0, <2>1, <2>2, Pieces
<1> QED BY <1>1, <1>2, <1>3, <1>4, <1>5, <1>6, <1>7, <1>8, <1>9

LEMMA Edited ==
  ASSUME NEW c, Sound(c), NEW n, NEW x
  PROVE  LET d == [c EXCEPT !.note[n] = x]
         IN  /\ Shrinks(c, d)
             /\ d.notes = c.notes /\ d.due = c.due /\ d.home = c.home /\ d.cur = c.cur /\ d.marks = c.marks
<1> DEFINE d == [c EXCEPT !.note[n] = x]
           note == [c.note EXCEPT ![n] = x]
<1>1. c = [notes |-> c.notes, due |-> c.due, ver |-> c.ver, marks |-> c.marks,
           home |-> c.home, cur |-> c.cur, note |-> c.note]
      /\ c.due \subseteq CardsOf(c.notes) /\ c.note = [m \in Notes |-> c.note[m]]
  BY DEF Sound
<1>2. d = [notes |-> c.notes, due |-> c.due, ver |-> c.ver, marks |-> c.marks,
           home |-> c.home, cur |-> c.cur, note |-> note]
  BY <1>1
<1>3. note = [m \in Notes |-> note[m]]
  BY <1>1
<1> HIDE DEF d, note
<1>4. Shrinks(c, d)
  BY <1>1, <1>2, <1>3, Pieces
<1>5. d.notes = c.notes /\ d.due = c.due /\ d.home = c.home /\ d.cur = c.cur /\ d.marks = c.marks
  BY <1>2
<1> QED BY <1>4, <1>5 DEF d

LEMMA AlikeIf ==
  ASSUME NEW c, NEW d, c.notes = d.notes, c.due = d.due, c.home = d.home, c.cur = d.cur, c.marks = d.marks
  PROVE  Alike(c, d)
<1>1. Queue(c) = Queue(d) /\ \A xs : Due(c, xs) = Due(d, xs)
  BY DEF Queue, Due
<1>2. Top(c) = Top(d)
  BY <1>1 DEF Top
<1>3. \A q : Find(c, q) = Find(d, q)
  BY DEF Find, Exists
<1>4. \A page : Drawn(page, c) = Drawn(page, d)
  BY <1>1 DEF Drawn
<1> QED BY <1>2, <1>3, <1>4 DEF Alike

---------------------------------------------------------------------------
(* Steps of the collection: nothing is added to it.                          *)
Untouched == UNCHANGED <<col, undos>>
Turns == Collections' /\ Added = {}

LEMMA SameCollection == Collections /\ Untouched => Turns
<1> SUFFICES ASSUME Collections, Untouched PROVE Turns
  OBVIOUS
<1>1. Collections'
  BY DEF Collections, Untouched
<1>2. col'.notes \ col.notes = {}
  BY DEF Untouched
<1> QED BY <1>1, <1>2 DEF Turns, Added

LEMMA Stacked ==
  ASSUME Collections, NEW c, Sound(c), Commits(c)
  PROVE  Collections' /\ col' = c
<1>1. col' = c /\ (undos' = undos \/ undos' = Append(undos, col))
  BY DEF Commits
<1>2. CASE undos' = undos
  BY <1>1, <1>2 DEF Collections
<1>3. CASE undos' = Append(undos, col)
  <2>1. IsSeq(undos)
    BY DEF Collections
  <2>2. /\ IsSeq(Append(undos, col)) /\ DOMAIN Append(undos, col) = 1..(Len(undos) + 1)
        /\ DOMAIN undos = 1..Len(undos) /\ Len(undos) \in Nat
        /\ Append(undos, col)[Len(undos) + 1] = col
        /\ \A i \in DOMAIN undos : Append(undos, col)[i] = undos[i]
    BY <2>1, Appended
  <2>3. \A i \in 1..(Len(undos) + 1) : i \in 1..Len(undos) \/ i = Len(undos) + 1
    BY <2>2
  <2>4. IsSeq(undos') /\ \A i \in DOMAIN undos' : undos'[i] = col \/ \E j \in DOMAIN undos : undos'[i] = undos[j]
    BY <1>3, <2>2, <2>3
  <2> QED BY <2>4, <1>1 DEF Collections
<1> QED BY <1>1, <1>2, <1>3

LEMMA Committed ==
  ASSUME Collections, NEW c, Shrinks(col, c), Commits(c)
  PROVE  Turns
<1>1. Collections' /\ col' = c
  BY Stacked DEF Shrinks
<1>2. Added = {}
  BY <1>1 DEF Shrinks, Added
<1> QED BY <1>1, <1>2 DEF Turns

LEMMA Undone == ASSUME Collections, NEW c, Undoes(c) PROVE Turns /\ Sound(c)
<1>1. undos # <<>> /\ c = undos[Len(undos)] /\ col' = c /\ undos' = SubSeq(undos, 1, Len(undos) - 1)
  BY DEF Undoes
<1> DEFINE S == {undos[i] : i \in DOMAIN undos}
<1>2. undos \in Seq(S)
  BY DEF Collections, IsSeq
<1>3. \A x \in S : Sound(x)
  BY DEF Collections
<1> HIDE DEF S
<1>4. Len(undos) \in Nat \ {0} /\ DOMAIN undos = 1..Len(undos)
  BY <1>1, <1>2
<1>5. undos' \in Seq(S) /\ Len(undos') = Len(undos) - 1 /\ c \in S
  BY <1>1, <1>2, <1>4
<1>6. \A i \in DOMAIN undos' : undos'[i] \in S
  BY <1>5
<1>7. Collections'
  BY <1>1, <1>3, <1>5, <1>6, OwnElements DEF Collections
<1>8. Added = {}
  BY <1>4, <1>5 DEF Added
<1> QED BY <1>3, <1>5, <1>7, <1>8 DEF Turns

LEMMA NoteEdited ==
  ASSUME Collections, NEW n, NEW note, Edits(n, note)
  PROVE  /\ Turns /\ col' = Edit(n, note) /\ Alike(col, col')
<1>1. col' = [col EXCEPT !.note[n] = note]
      /\ undos' = [i \in DOMAIN undos |-> [undos[i] EXCEPT !.note[n] = note]]
  BY DEF Edits, Edit
<1>2. Shrinks(col, col') /\ Alike(col, col')
  <2>1. Sound(col)
    BY DEF Collections
  <2>2. LET d == [col EXCEPT !.note[n] = note]
        IN  /\ Shrinks(col, d)
            /\ d.notes = col.notes /\ d.due = col.due /\ d.home = col.home /\ d.cur = col.cur /\ d.marks = col.marks
    BY <2>1, Edited
  <2> QED BY <1>1, <2>2, AlikeIf
<1>3. \A i \in DOMAIN undos : Sound([undos[i] EXCEPT !.note[n] = note])
  <2> TAKE i \in DOMAIN undos
  <2>1. Sound(undos[i])
    BY DEF Collections
  <2> QED BY <2>1, Edited DEF Shrinks
<1>4. Len(undos) \in Nat /\ DOMAIN undos = 1..Len(undos)
  BY DEF Collections, IsSeq
<1>5. DOMAIN undos' = 1..Len(undos) /\ \A i \in DOMAIN undos' : undos'[i] = [undos[i] EXCEPT !.note[n] = note]
  BY <1>1, <1>4
<1>6. undos' \in Seq({undos'[i] : i \in DOMAIN undos'}) /\ Len(undos') = Len(undos)
  <2>1. undos' \in [1..Len(undos) -> {undos'[i] : i \in DOMAIN undos'}]
    BY <1>1, <1>4, <1>5
  <2> QED BY <2>1, <1>4
<1>7. Collections'
  BY <1>2, <1>3, <1>4, <1>5, <1>6 DEF Collections, IsSeq, Shrinks
<1>8. Added = {}
  BY <1>4, <1>6 DEF Added
<1> QED BY <1>1, <1>2, <1>7, <1>8 DEF Turns, Edit

LEMMA Forgotten ==
  ASSUME Collections, undos' = <<>>, col' = col \/ Shrinks(col, col')
  PROVE  Turns
<1>1. Collections'
  BY Few DEF Collections, Shrinks
<1>2. Added = {}
  <2>1. Len(undos) \in Nat
    BY DEF Collections, IsSeq
  <2>2. Len(undos') = 0
    OBVIOUS
  <2> QED BY <2>1, <2>2 DEF Added
<1> QED BY <1>1, <1>2 DEF Turns

(* Steps of the handlers: what AnkiConnect waits for is left alone.          *)
Settled ==
  /\ Asked'
  /\ run[Connect].pc \in {"addNotes", "removeDuplicateNotes"} => run'[Connect] = run[Connect]

LEMMA HandlersRest ==
  ASSUME Shapes, Asked, UNCHANGED <<run, desk>>
  PROVE  RunsOn /\ RunKeeps /\ Settled
BY DEF Shapes, Asked, RunsOn, RunKeeps, Settled

LEMMA HandlerSteps ==
  ASSUME Shapes, Asked, UNCHANGED desk, NEW k \in Runs, NEW h, run' = [run EXCEPT ![k] = h],
         k = Connect => /\ run[k].pc \notin {"addNotes", "removeDuplicateNotes"}
                        /\ h.pc \in {"cards", "raw", "addNotes"} => h \in desk.asks
  PROVE  /\ RunsOn /\ Settled /\ run'[k] = h /\ \A j \in Runs \ {k} : run'[j] = run[j]
         /\ run[k].pc \notin Busy => RunKeeps
<1>1. run' = [j \in Runs |-> IF j = k THEN h ELSE run[j]]
  BY DEF Shapes
<1>2. RunsOn /\ run'[k] = h /\ \A j \in Runs \ {k} : run'[j] = run[j]
  BY <1>1 DEF RunsOn
<1>3. Connect \in Runs
  BY DEF Runs
<1>4. Settled
  BY <1>2, <1>3 DEF Settled, Asked
<1>5. run[k].pc \notin Busy => RunKeeps
  BY <1>2 DEF RunKeeps
<1> QED BY <1>2, <1>4, <1>5

LEMMA HandlerEnds ==
  ASSUME Shapes, Asked, UNCHANGED desk, NEW k \in Runs, Ends(k),
         k = Connect => run[k].pc \notin {"addNotes", "removeDuplicateNotes"}
  PROVE  /\ RunsOn /\ Settled /\ run'[k] = Idle /\ \A j \in Runs \ {k} : run'[j] = run[j]
         /\ run[k].pc \notin Busy => RunKeeps
<1>1. Idle.pc = "idle" /\ run' = [run EXCEPT ![k] = Idle]
  BY DEF Ends, Idle
<1> QED BY <1>1, HandlerSteps

(* A socket is none of AnkiConnect's.                                        *)
LEMMA OfSockets == \A k \in Sockets : k \in Runs /\ k # Connect
BY NumbersAssumption DEF Runs, Connect

LEMMA RequestStep ==
  ASSUME DeskInv, NEW kinds, Request(kinds), UNCHANGED <<col, undos, ui, tab, sock, desk, missed, session>>
  PROVE  Pages' /\ Turns /\ Settled
<1> USE DEF DeskInv
<1>1. PICK r \in desk.asks : run[Connect].pc = "idle" /\ run' = [run EXCEPT ![Connect] = r]
  BY DEF Request, Asks
<1>2. Connect \in Runs
  BY DEF Runs
<1>3. RunsOn /\ Settled /\ RunKeeps
  BY <1>1, <1>2, HandlerSteps DEF Busy, Pages
<1>4. Still
  <2>1. Alike(col, col')
    BY AlikeIf
  <2> QED BY <2>1, <1>3 DEF Still, Calm, SameCards, Records, Pages
<1> QED BY <1>3, <1>4, StillStep, SameCollection DEF Untouched

---------------------------------------------------------------------------
(* The steps that all screens share.                                         *)
LEMMA CommandGiven ==
  ASSUME DeskInv, NEW t \in Tabs, NEW c, Commands(t, c), UNCHANGED session
  PROVE  Pages' /\ Turns /\ Settled
<1>1. UNCHANGED <<col, undos, run, desk>>
  BY DEF Commands
<1> QED BY <1>1, CommandStep, SameCollection, HandlersRest DEF DeskInv, Command, Untouched, Pages

LEMMA PageOpened ==
  ASSUME DeskInv, NEW t \in Tabs, NEW k \in Sockets, NEW first, Open(t, k, first)
  PROVE  Pages' /\ Turns /\ Settled
<1>1. UNCHANGED <<col, undos, run, desk>>
  BY DEF Open, Opens
<1> QED BY <1>1, OpenStep, SameCollection, HandlersRest DEF DeskInv, Untouched, Pages

LEMMA CommandRead ==
  ASSUME DeskInv, NEW k \in Sockets, NEW page, NEW h, Reads(k, page), Starts(k, h),
         UNCHANGED <<col, undos, tab, desk, missed, session>>,
         page = "browser" /\ Head(sock[k].box).cmd \in {"search", "refresh"} => h.pc = "search",
         page = "reviewer" /\ Head(sock[k].box).cmd \in {"show"} => h.pc = "load"
  PROVE  Pages' /\ Turns /\ Settled
<1>1. Read(k, h)
  <2>1. ui' = [ui EXCEPT !.screen = sock[k].page]
    BY DEF Starts
  <2>2. Records' /\ SameCards
    BY <2>1 DEF DeskInv, Pages, Records, SameCards
  <2> QED BY <2>2 DEF Read, Reads, Starts
<1>2. Settled
  BY OfSockets, HandlerSteps DEF DeskInv, Pages, Starts
<1> QED BY <1>1, <1>2, ReadStep, SameCollection DEF DeskInv, Untouched

(* A handler ends, or waits for its next job, and no more.                   *)
LEMMA Rested ==
  ASSUME DeskInv, NEW k \in Runs, NEW h, run' = [run EXCEPT ![k] = h], run[k].pc \notin Busy,
         k = Connect => /\ run[k].pc \notin {"addNotes", "removeDuplicateNotes"}
                        /\ h.pc \in {"cards", "raw", "addNotes"} => h \in desk.asks,
         UNCHANGED <<col, undos, tab, sock, desk, missed>>, Records', SameCards
  PROVE  Pages' /\ Turns /\ Settled
<1>1. RunKeeps /\ Settled
  BY HandlerSteps DEF DeskInv, Pages
<1>2. Alike(col, col')
  BY AlikeIf
<1> QED BY <1>1, <1>2, StillStep, SameCollection DEF DeskInv, Still, Calm, Untouched

LEMMA SameRecords == Pages /\ UNCHANGED <<ui, session>> => Records' /\ SameCards
BY DEF Pages, Records, SameCards

LEMMA SendsMove ==
  ASSUME DeskInv, NEW k \in Runs, NEW page, NEW to, NEW s \in Sends({page}),
         Leaves(s.got, to, {}), missed' = (missed \/ ~s.ok), Ends(k),
         k = Connect => run[k].pc \notin {"addNotes", "removeDuplicateNotes"},
         run[k].pc \in Busy => run[k].pc \in {"reload", "going"} /\ page = run[k].page,
         UNCHANGED <<col, undos, ui, desk, session>>
  PROVE  Pages' /\ Turns /\ Settled
<1>1. s.got \in SUBSET Tabs /\ s.ok \in BOOLEAN /\ (s.ok => s.got = Seen({page}))
  BY Reached, SeenTabs DEF DeskInv, Pages
<1>2. RunsOn /\ Settled /\ \A j \in Runs \ {k} : run'[j] = run[j]
  BY HandlerEnds DEF DeskInv, Pages
<1>3. Move
  <2>1. Records' /\ SameCards
    BY SameRecords DEF DeskInv
  <2>2. ~missed' => ~missed /\ s.got = Seen({page})
    BY <1>1
  <2>3. ASSUME ~missed', NEW j \in Runs, run[j].pc \in Busy
        PROVE  \/ run'[j] = run[j]
               \/ run[j].pc \in {"reload", "going"} /\ Seen({run[j].page}) \subseteq s.got
    BY <2>2, <2>3, <1>2
  <2> QED BY <1>1, <1>2, <2>1, <2>2, <2>3 DEF Move
<1> QED BY <1>2, <1>3, MoveStep, SameCollection DEF DeskInv, Untouched

(* A job may change the collection, and its flags are broadcast.             *)
LEMMA ToldStep ==
  ASSUME DeskInv, NEW k \in Runs, NEW h, run' = [run EXCEPT ![k] = h], run[k].pc \notin Busy,
         k = Connect => /\ run[k].pc \notin {"addNotes", "removeDuplicateNotes"}
                        /\ h.pc \in {"cards", "raw", "addNotes"} => h \in desk.asks,
         UNCHANGED desk, Records', SameCards,
         NEW initiator, NEW s \in Spreads(col'), Broadcasts(initiator, s),
         \/ initiator \notin {"deckbrowser", "overview", "browser", "reviewer"}
         \/ s.ok /\ col' # col => Draws(h, initiator) \/ (initiator = "reviewer" /\ Top(col') = Top(col))
  PROVE  Pages' /\ Settled
<1>1. RunKeeps /\ Settled /\ run'[k] = h
  BY HandlerSteps DEF DeskInv, Pages
<1>2. s.ok /\ col' # col => Covers(initiator)
  BY <1>1 DEF Covers
<1>3. Tell(initiator)
  BY <1>1, <1>2 DEF Tell, Calm
<1> QED BY <1>1, <1>3, TellStep DEF DeskInv

LEMMA ToldByOthers ==
  ASSUME DeskInv, NEW k \in Runs, NEW h, run' = [run EXCEPT ![k] = h], run[k].pc \notin Busy,
         k = Connect => /\ run[k].pc \notin {"addNotes", "removeDuplicateNotes"}
                        /\ h.pc \in {"cards", "raw", "addNotes"} => h \in desk.asks,
         UNCHANGED <<ui, desk, session>>,
         NEW initiator \in {"add", "editor", "ankiconnect"}, \E s \in Spreads(col') : Broadcasts(initiator, s)
  PROVE  Pages' /\ Settled
<1>1. PICK s \in Spreads(col') : Broadcasts(initiator, s)
  OBVIOUS
<1>2. initiator \notin {"deckbrowser", "overview", "browser", "reviewer"}
  OBVIOUS
<1>3. Records' /\ SameCards
  BY SameRecords DEF DeskInv
<1> QED BY <1>1, <1>2, <1>3, ToldStep

(* Or it changes the collection, and nobody is told.                         *)
LEMMA UntoldStep ==
  ASSUME DeskInv, NEW k \in Runs, NEW h, run' = [run EXCEPT ![k] = h], run[k].pc \notin Busy,
         k = Connect => /\ run[k].pc \notin {"addNotes", "removeDuplicateNotes"}
                        /\ h.pc \in {"cards", "raw", "addNotes"} => h \in desk.asks,
         UNCHANGED <<desk, tab, sock>>, Records', SameCards,
         ~missed' => ~missed /\ Alike(col, col')
  PROVE  Pages' /\ Settled
<1>1. RunsOn /\ RunKeeps /\ Settled
  BY HandlerSteps DEF DeskInv, Pages
<1> QED BY <1>1, StillStep DEF Still, Calm, DeskInv

---------------------------------------------------------------------------
(* The reviewer.                                                             *)
LEMMA MarksAreNoCards ==
  ASSUME NEW c, Sound(c), NEW ms, NEW on \in BOOLEAN PROVE Top(Marked(c, ms, on)) = Top(c)
<1>1. c = [notes |-> c.notes, due |-> c.due, ver |-> c.ver, marks |-> c.marks,
           home |-> c.home, cur |-> c.cur, note |-> c.note]
  BY DEF Sound
<1>2. LET d == Marked(c, ms, on) IN d.due = c.due /\ d.home = c.home /\ d.cur = c.cur
  BY <1>1 DEF Marked
<1>3. Queue(Marked(c, ms, on)) = Queue(c)
  BY <1>2 DEF Queue
<1> QED BY <1>3 DEF Top

LEMMA ReviewEffects ==
  ASSUME Sound(col), NEW h, h.cmd \in OfCard \cup OnCard \cup {"ease"}, h.cmd # "undo", NEW d \in Effects(h)
  PROVE  Shrinks(col, d) /\ (h.cmd \in OnCard => Top(d) = Top(col))
<1> USE DEF Effects, OnCard
<1>1. CASE h.cmd = "ease"
  <2> DEFINE c == session.card
             a == Requeued(col, {c})
  <2>1. d = a \/ d = PutAside(a, {c})
    BY <1>1
  <2>2. Shrinks(col, a)
    BY Jobs1
  <2>3. Shrinks(a, PutAside(a, {c}))
    BY <2>2, Jobs1 DEF Shrinks
  <2> QED BY <1>1, <2>1, <2>2, <2>3 DEF Shrinks
<1>2. CASE h.cmd = "mark"
  <2>1. d = [col EXCEPT !.note[NoteOf[session.card]] = Toggled(session.note)]
    BY <1>2
  <2>2. /\ Shrinks(col, d) /\ d.notes = col.notes /\ d.due = col.due
        /\ d.home = col.home /\ d.cur = col.cur /\ d.marks = col.marks
    BY <2>1, Edited
  <2> QED BY <2>2, AlikeIf DEF Alike
<1>3. CASE h.cmd = "suspendn"
  BY <1>3, Jobs1
<1>4. CASE h.cmd = "setflag"
  <2>1. PICK on \in BOOLEAN : d = Marked(col, {<<"flag", h.cid>>}, on)
    BY <1>4
  <2> QED BY <2>1, Jobs1, MarksAreNoCards
<1>5. CASE h.cmd \in {"buryc", "suspendc"}
  BY <1>5, Jobs1
<1>6. CASE h.cmd = "buryn"
  BY <1>6, Jobs1
<1>7. CASE h.cmd \in {"setdue", "forget"}
  BY <1>7, Jobs1
<1>8. CASE h.cmd = "deletenote"
  BY <1>8, Jobs1
<1> QED BY <1>1, <1>2, <1>3, <1>4, <1>5, <1>6, <1>7, <1>8 DEF OfCard

LEMMA OperateStep ==
  ASSUME DeskInv, NEW k \in Runs, Operate(k) PROVE Pages' /\ Turns /\ Settled
<1> DEFINE h == run[k]
<1>1. /\ h.pc = "operate" /\ h.cmd \in OfCard \cup OnCard \cup {"ease"} /\ UNCHANGED <<ui, desk>>
      /\ session' = IF h.cmd = "mark" /\ session.card # 0
                    THEN [session EXCEPT !.note = Toggled(@)] ELSE session
  BY DEF Operate
<1>2. Records' /\ SameCards
  <2>1. CASE session' = session
    BY <1>1, <2>1, SameRecords DEF DeskInv
  <2>2. CASE session' = [session EXCEPT !.note = Toggled(@)]
    <3>1. session' = [card |-> session.card, ver |-> session.ver, note |-> Toggled(session.note)]
      BY <2>2 DEF DeskInv, Pages, Records
    <3> QED BY <1>1, <3>1 DEF DeskInv, Pages, Records, SameCards
  <2> QED BY <1>1, <2>1, <2>2
<1>3. Idle.pc = "idle" /\ Loading.pc = "load" /\ Draws(Loading, "reviewer")
  BY DEF Idle, Loading, Draws
<1>4. CASE \E c \in Effects(h) :
             /\ IF h.cmd = "undo" THEN Undoes(c) ELSE Commits(c)
             /\ \E s \in Spreads(c) :
                  /\ Broadcasts("reviewer", s)
                  /\ IF s.ok /\ h.cmd \notin OnCard THEN run' = [run EXCEPT ![k] = Loading] ELSE Ends(k)
  <2>0. PICK c \in Effects(h) :
             /\ IF h.cmd = "undo" THEN Undoes(c) ELSE Commits(c)
             /\ \E s \in Spreads(c) :
                  /\ Broadcasts("reviewer", s)
                  /\ IF s.ok /\ h.cmd \notin OnCard THEN run' = [run EXCEPT ![k] = Loading] ELSE Ends(k)
    BY <1>4
  <2>1. PICK s \in Spreads(c) :
             /\ Broadcasts("reviewer", s)
             /\ IF s.ok /\ h.cmd \notin OnCard THEN run' = [run EXCEPT ![k] = Loading] ELSE Ends(k)
    BY <2>0
  <2>2. col' = c
    BY <2>0 DEF Undoes, Commits
  <2>3. Turns /\ (h.cmd \in OnCard => Top(c) = Top(col))
    <3>1. CASE h.cmd = "undo"
      BY <3>1, <2>0, Undone DEF DeskInv, OnCard
    <3>2. CASE h.cmd # "undo"
      <4>1. Shrinks(col, c) /\ (h.cmd \in OnCard => Top(c) = Top(col))
        BY <3>2, <1>1, ReviewEffects DEF DeskInv, Collections
      <4> QED BY <3>2, <4>1, <2>0, Committed DEF DeskInv
    <3> QED BY <3>1, <3>2
  <2> HIDE DEF h
  <2>4. CASE s.ok /\ h.cmd \notin OnCard
    <3>1. run' = [run EXCEPT ![k] = Loading]
      BY <2>1, <2>4
    <3> QED BY <1>1, <1>2, <1>3, <2>1, <2>2, <2>3, <2>4, <3>1, ToldStep DEF Busy, h
  <2>5. CASE ~(s.ok /\ h.cmd \notin OnCard)
    <3>1. run' = [run EXCEPT ![k] = Idle]
      BY <2>1, <2>5 DEF Ends
    <3>2. s.ok /\ col' # col => Top(col') = Top(col)
      BY <2>2, <2>3, <2>5
    <3> QED BY <1>1, <1>2, <1>3, <2>1, <2>2, <2>3, <3>1, <3>2, ToldStep DEF Busy, h
  <2> QED BY <2>4, <2>5
<1>5. CASE Fails(h) /\ Ends(k) /\ UNCHANGED <<col, undos, tab, sock, missed>>
  BY <1>1, <1>2, <1>3, <1>5, Rested DEF Ends, Busy
<1> QED BY <1>4, <1>5 DEF Operate

LEMMA ShowAnswerStep ==
  ASSUME DeskInv, NEW k \in Runs, ShowAnswer(k) PROVE Pages' /\ Turns /\ Settled
<1>1. run[k].pc = "render" /\ Ends(k) /\ UNCHANGED <<col, undos, sock, desk, session>>
  BY DEF ShowAnswer
<1>2. RunKeeps /\ Settled
  BY <1>1, HandlerEnds DEF DeskInv, Pages, Busy
<1>3. Records' /\ SameCards
  <2>1. CASE ui' = ui
    BY <1>1, <2>1, SameRecords DEF DeskInv
  <2>2. CASE ui' = [ui EXCEPT !.side = "answer"]
    BY <1>1, <2>2 DEF DeskInv, Pages, Records, SameCards
  <2> QED BY <2>1, <2>2 DEF ShowAnswer
<1>4. Pages'
  <2>1. CASE session.card = 0
    <3>1. Still
      BY <1>1, <1>2, <1>3, <2>1, AlikeIf DEF ShowAnswer, Still, Calm
    <3> QED BY <3>1, StillStep DEF DeskInv
  <2>2. CASE session.card # 0
    <3>1. PICK s \in Sends({"reviewer"}) : Put(s.got, Answer(session.card)) /\ missed' = (missed \/ ~s.ok)
      BY <2>2 DEF ShowAnswer
    <3>2. s.got \in SUBSET Tabs /\ \A t \in s.got : tab[t].page = "reviewer"
      BY Reached, SeenTabs DEF DeskInv, Pages
    <3>3. Answer(session.card).side # "none" /\ Answer(session.card).card = session.card
      BY DEF Answer, Blank
    <3>4. Redraw
      BY <1>1, <1>2, <1>3, <3>1, <3>2, <3>3 DEF Redraw, Calm
    <3> QED BY <3>4, RedrawStep DEF DeskInv
  <2> QED BY <2>1, <2>2
<1> QED BY <1>1, <1>2, <1>4, SameCollection DEF DeskInv, Untouched

LEMMA ReviewerSteps == DeskInv /\ ReviewerNext => Pages' /\ Turns /\ Settled
<1> SUFFICES ASSUME DeskInv, ReviewerNext PROVE Pages' /\ Turns /\ Settled
  OBVIOUS
<1>1. ASSUME NEW t \in Tabs, Press(t) PROVE Pages' /\ Turns /\ Settled
  BY <1>1, CommandGiven DEF Press
<1>2. ASSUME NEW t \in Tabs, NEW k \in Sockets, OpenReviewer(t, k) PROVE Pages' /\ Turns /\ Settled
  <2>1. Open(t, k, <<[cmd |-> "show"]>>)
    <3>1. [cmd |-> "show"].cmd = "show"
      OBVIOUS
    <3> HIDE DEF Opens
    <3> QED BY <1>2, <3>1, Few DEF Open, OpenReviewer
  <2> QED BY <2>1, PageOpened
<1>3. ASSUME NEW k \in Sockets, ReviewerReads(k) PROVE Pages' /\ Turns /\ Settled
  <2> DEFINE c == Head(sock[k].box).cmd
  <2>1. Reads(k, "reviewer") /\ Starts(k, Handler(c)) /\ UNCHANGED <<col, undos, tab, desk, missed, session>>
    BY <1>3 DEF ReviewerReads
  <2>2. c = "show" => Handler(c).pc = "load"
    BY DEF Handler, Loading, AwayFrom, OfCard, OnCard
  <2> QED BY <2>1, <2>2, CommandRead
<1>4. CASE GuiReview
  <2>1. PICK c \in {"show", "ans", "ease"} : run[Connect].pc = "idle" /\ run' = [run EXCEPT ![Connect] = Handler(c)]
    BY <1>4 DEF GuiReview, Asks
  <2>2. Handler(c).pc \notin {"cards", "raw", "addNotes"}
    BY DEF Handler, Idle, Loading, AwayFrom, OfCard, OnCard
  <2>3. Connect \in Runs
    BY DEF Runs
  <2> QED BY <1>4, <2>1, <2>2, <2>3, Rested, SameRecords DEF GuiReview, Busy, DeskInv
<1>5. ASSUME NEW k \in Runs, ShowNext(k) PROVE Pages' /\ Turns /\ Settled
  <2>1. run[k].pc = "load" /\ Ends(k) /\ UNCHANGED <<col, undos, desk>>
    BY <1>5 DEF ShowNext
  <2>2. Settled
    BY <2>1, HandlerEnds DEF DeskInv, Pages
  <2> QED BY <1>5, <2>1, <2>2, ShowNextStep, SameCollection DEF DeskInv, Untouched
<1>6. ASSUME NEW k \in Runs, GoAway(k) PROVE Pages' /\ Turns /\ Settled
  <2>1. PICK s \in Sends({"reviewer"}) :
          Leaves(s.got, Goto(run[k].page), {}) /\ missed' = (missed \/ ~s.ok)
    BY <1>6 DEF GoAway
  <2>2. run[k].pc = "away" /\ Ends(k) /\ UNCHANGED <<col, undos, ui, desk, session>>
    BY <1>6 DEF GoAway
  <2> QED BY <2>1, <2>2, SendsMove DEF Busy
<1> QED BY <1>1, <1>2, <1>3, <1>4, <1>5, <1>6, OperateStep, ShowAnswerStep DEF ReviewerNext, Runs

---------------------------------------------------------------------------
(* The browser.                                                              *)
LEMMA Together == ASSUME NEW c, NEW d, NEW e, Shrinks(c, d), Shrinks(d, e) PROVE Shrinks(c, e)
BY DEF Shrinks

LEMMA BrowserJobs ==
  ASSUME Sound(col), NEW h, h.cmd \in Clears \cup Keeps PROVE Shrinks(col, Acted(h))
<1>1. CASE h.cmd = "suspend"
  BY <1>1, Jobs1 DEF Acted
<1>2. CASE h.cmd = "unsuspend"
  <2>1. col.due \cup Live(col, h.cards) \subseteq CardsOf(col.notes)
    BY LiveCards DEF Sound
  <2>2. Acted(h) = [col EXCEPT !.due = @ \cup Live(col, h.cards)]
    BY <1>2 DEF Acted
  <2>3. Acted(h) = [col EXCEPT !.due = col.due \cup Live(col, h.cards)]
    BY <2>2
  <2>4. Shrinks(col, [col EXCEPT !.due = col.due \cup Live(col, h.cards)])
    BY <2>1, Jobs1
  <2> QED BY <2>3, <2>4
<1>3. CASE h.cmd \in {"reset", "reschedule"}
  BY <1>3, Jobs1 DEF Acted
<1>4. CASE h.cmd = "delete"
  BY <1>4, Jobs1 DEF Acted
<1>5. CASE h.cmd = "changedeck"
  BY <1>5, Jobs1 DEF Acted
<1>6. CASE h.cmd \in {"addtag", "removetag"}
  <2> DEFINE ns == NotesOf(col, h.cards)
  <2>1. Acted(h) = Tagged(col, ns, "tag", TRUE) \/ Acted(h) = Tagged(col, ns, "tag", FALSE)
    BY <1>6 DEF Acted
  <2>2. Shrinks(col, Tagged(col, ns, "tag", TRUE)) /\ Shrinks(col, Tagged(col, ns, "tag", FALSE))
    BY Jobs1
  <2> QED BY <2>1, <2>2
<1> QED BY <1>1, <1>2, <1>3, <1>4, <1>5, <1>6 DEF Clears, Keeps

LEMMA ActStep ==
  ASSUME DeskInv, NEW k \in Sockets, Act(k), UNCHANGED session PROVE Pages' /\ Turns /\ Settled
<1> DEFINE h == run[k]
           next == [pc |-> "search", query |-> LastQuery]
<1>1. h.pc = "act" /\ h.cmd \in Clears \cup Keeps /\ UNCHANGED <<desk, session>> /\ k \in Runs /\ k # Connect
  BY OfSockets DEF Act
<1>2. Idle.pc = "idle" /\ next.pc = "search" /\ Draws(next, "browser")
  BY DEF Idle, Draws
<1>3. CASE /\ Commits(Acted(h))
           /\ \E s \in Spreads(Acted(h)) :
                /\ Broadcasts("browser", s)
                /\ IF s.ok
                   THEN /\ ui' = IF h.cmd \in Clears THEN [ui EXCEPT !.cards = {}, !.notes = {}] ELSE ui
                        /\ run' = [run EXCEPT ![k] = next]
                   ELSE Ends(k) /\ UNCHANGED ui
  <2>1. Turns /\ col' = Acted(h)
    BY <1>1, <1>3, BrowserJobs, Committed DEF DeskInv, Collections, Commits
  <2>2. PICK s \in Spreads(col') :
          /\ Broadcasts("browser", s)
          /\ IF s.ok
             THEN /\ ui' = IF h.cmd \in Clears THEN [ui EXCEPT !.cards = {}, !.notes = {}] ELSE ui
                  /\ run' = [run EXCEPT ![k] = next]
             ELSE Ends(k) /\ UNCHANGED ui
    BY <1>3, <2>1
  <2>3. Records' /\ SameCards
    <3>1. CASE ui' = ui
      BY <1>1, <3>1, SameRecords DEF DeskInv
    <3>2. CASE ui' = [ui EXCEPT !.cards = {}, !.notes = {}]
      BY <1>1, <3>2 DEF DeskInv, Pages, Records, SameCards
    <3> QED BY <2>2, <3>1, <3>2
  <2> HIDE DEF h, next
  <2>4. CASE s.ok
    <3>1. run' = [run EXCEPT ![k] = next]
      BY <2>2, <2>4
    <3> QED BY <1>1, <1>2, <2>1, <2>2, <2>3, <3>1, ToldStep DEF Busy, h
  <2>5. CASE ~s.ok
    <3>1. run' = [run EXCEPT ![k] = Idle]
      BY <2>2, <2>5 DEF Ends
    <3> QED BY <1>1, <1>2, <2>1, <2>2, <2>3, <2>5, <3>1, ToldStep DEF Busy, h
  <2> QED BY <2>4, <2>5
<1>4. CASE Ends(k) /\ UNCHANGED <<col, undos, ui, tab, sock, missed>>
  BY <1>1, <1>2, <1>4, Rested, SameRecords DEF Ends, Busy, DeskInv
<1> QED BY <1>3, <1>4 DEF Act

LEMMA BrowserSteps == DeskInv /\ BrowserNext /\ UNCHANGED session => Pages' /\ Turns /\ Settled
<1> SUFFICES ASSUME DeskInv, BrowserNext, UNCHANGED session PROVE Pages' /\ Turns /\ Settled
  OBVIOUS
<1>0. Idle.pc = "idle" /\ Connect \in Runs
  BY DEF Idle, Runs
<1>1. ASSUME NEW t \in Tabs, Use(t) PROVE Pages' /\ Turns /\ Settled
  BY <1>1, CommandGiven DEF Use
<1>2. ASSUME NEW t \in Tabs, NEW k \in Sockets, OpenBrowser(t, k) PROVE Pages' /\ Turns /\ Settled
  <2> DEFINE first == [cmd |-> "search", query |-> "all"]
  <2>1. first.cmd = "search"
    OBVIOUS
  <2>2. Opens(t, k, <<first>>) /\ tab[t].page = "browser"
    BY <1>2 DEF OpenBrowser
  <2> HIDE DEF first
  <2>3. Open(t, k, <<first>>)
    BY <2>1, <2>2, Few DEF Open
  <2> QED BY <2>3, PageOpened
<1>3. ASSUME NEW k \in Sockets, BrowserReads(k) PROVE Pages' /\ Turns /\ Settled
  <2> DEFINE c == Head(sock[k].box)
  <2>1. Reads(k, "browser") /\ Starts(k, Task(c)) /\ UNCHANGED <<col, undos, tab, desk, missed>>
    BY <1>3 DEF BrowserReads
  <2>2. c.cmd \in {"search", "refresh"} => Task(c).pc = "search"
    BY DEF Task, Clears, Keeps
  <2> QED BY <2>1, <2>2, CommandRead
<1>4. ASSUME NEW k \in Sockets, Search(k) PROVE Pages' /\ Turns /\ Settled
  <2>1. run[k].pc = "search" /\ Ends(k) /\ UNCHANGED <<col, undos, desk>> /\ k \in Runs /\ k # Connect
    BY <1>4, OfSockets DEF Search
  <2>2. Settled
    BY <2>1, HandlerEnds DEF DeskInv, Pages
  <2> QED BY <1>4, <2>1, <2>2, SearchStep, SameCollection DEF DeskInv, Untouched
<1>5. ASSUME NEW k \in Sockets, Resolve(k) PROVE Pages' /\ Turns /\ Settled
  <2> DEFINE ns == NotesOf(col, run[k].cards)
             next == IF ns = {} THEN Idle ELSE [pc |-> "convert", notes |-> ns]
  <2>1. run[k].pc = "resolve" /\ run' = [run EXCEPT ![k] = next]
        /\ UNCHANGED <<col, undos, ui, tab, sock, desk, missed>> /\ k \in Runs /\ k # Connect
    BY <1>5, OfSockets DEF Resolve
  <2> HIDE DEF next
  <2> QED BY <2>1, Rested, SameRecords DEF Busy, DeskInv
<1>6. ASSUME NEW k \in Sockets, Convert(k) PROVE Pages' /\ Turns /\ Settled
  <2>1. run[k].pc = "convert" /\ Ends(k) /\ UNCHANGED <<col, undos, ui, desk>> /\ k \in Runs /\ k # Connect
    BY <1>6, OfSockets DEF Convert
  <2>2. CASE UNCHANGED <<tab, sock, missed>>
    BY <1>0, <2>1, <2>2, Rested, SameRecords DEF Ends, Busy, DeskInv
  <2>3. CASE \E s \in Sends({"browser"}) : Leaves(s.got, Elsewhere, {}) /\ missed' = (missed \/ ~s.ok)
    BY <2>1, <2>3, SendsMove DEF Busy
  <2> QED BY <1>6, <2>2, <2>3 DEF Convert
<1>7. ASSUME NEW k \in Runs, Select(k) PROVE Pages' /\ Turns /\ Settled
  <2> DEFINE ns == NotesOf(col, run[k].cards)
  <2>1. run[k].pc = "select" /\ Ends(k) /\ UNCHANGED <<col, undos, tab, sock, desk, missed>>
    BY <1>7 DEF Select
  <2>2. ui' = [ui EXCEPT !.cards = run[k].cards, !.notes = ns]
    BY <1>7 DEF Select
  <2> HIDE DEF ns
  <2>3. Records' /\ SameCards
    BY <2>2 DEF DeskInv, Pages, Records, SameCards
  <2> QED BY <1>0, <2>1, <2>3, Rested DEF Ends, Busy
<1>8. CASE GuiBrowser
  BY <1>8, RequestStep DEF GuiBrowser
<1>9. CASE GuiBrowse
  <2>1. run[Connect].pc = "guiBrowse" /\ Ends(Connect) /\ UNCHANGED <<col, undos, tab, sock, desk, missed>>
    BY <1>9 DEF GuiBrowse
  <2>2. Records' /\ SameCards
    <3>1. CASE ui' = ui
      BY <3>1, SameRecords DEF DeskInv
    <3>2. CASE ui' = [ui EXCEPT !.query = run[Connect].query, !.browsing = TRUE]
      BY <3>2 DEF DeskInv, Pages, Records, SameCards
    <3> QED BY <1>9, <3>1, <3>2 DEF GuiBrowse
  <2> QED BY <1>0, <2>1, <2>2, Rested DEF Ends, Busy
<1> QED BY <1>1, <1>2, <1>3, <1>4, <1>5, <1>6, <1>7, <1>8, <1>9, ActStep DEF BrowserNext, Runs

---------------------------------------------------------------------------
(* The card actions of AnkiConnect, and those of its gui.                    *)
LEMMA CardJobs ==
  ASSUME Sound(col), NEW do \in CardKinds, NEW cs, NEW d \in Done(do, cs) PROVE Shrinks(col, d)
<1> USE DEF Done
<1>1. CASE do = "suspend"
  BY <1>1, Jobs1
<1>2. CASE do = "unsuspend"
  <2>1. col.due \cup Live(col, cs) \subseteq CardsOf(col.notes)
    BY LiveCards DEF Sound
  <2>2. d = [col EXCEPT !.due = col.due \cup Live(col, cs)]
    BY <1>2
  <2> QED BY <2>1, <2>2, Jobs1
<1>3. CASE do = "answercards"
  <2>1. PICK again \in SUBSET cs : d = PutAside(Rescheduled(col, cs), cs \ again)
    BY <1>3 DEF Answered
  <2>2. Shrinks(col, Rescheduled(col, cs))
    BY Jobs1
  <2>3. Shrinks(Rescheduled(col, cs), d)
    BY <2>1, <2>2, Jobs1 DEF Shrinks
  <2> QED BY <2>2, <2>3, Together
<1>4. CASE do \in {"forgetcards", "setduedate", "relearncards"}
  BY <1>4, Jobs1
<1>5. CASE do \in {"seteasefactors", "setvalue"}
  BY <1>5, Jobs1
<1>6. CASE do = "movecards"
  BY <1>6, Jobs1
<1>7. CASE do \in {"deletedecks", "deletenotes"}
  BY <1>7, Jobs1
<1> QED BY <1>1, <1>2, <1>3, <1>4, <1>5, <1>6, <1>7 DEF CardKinds

LEMMA CardActionsSteps == DeskInv /\ CardActionsNext /\ UNCHANGED session => Pages' /\ Turns /\ Settled
<1> SUFFICES ASSUME DeskInv, CardActionsNext, UNCHANGED session PROVE Pages' /\ Turns /\ Settled
  OBVIOUS
<1>0. Idle.pc = "idle" /\ Connect \in Runs
  BY DEF Idle, Runs
<1>1. CASE Jobs
  BY <1>1, RequestStep DEF Jobs
<1>2. CASE CardJob
  <2> DEFINE h == run[Connect]
  <2>1. h.pc = "cards" /\ run' = [run EXCEPT ![Connect] = Idle] /\ UNCHANGED <<ui, desk>>
    BY <1>2 DEF CardJob, Ends
  <2>2. Records' /\ SameCards
    BY <2>1, SameRecords DEF DeskInv
  <2>3. h.do \in CardKinds /\ Sound(col) /\ Collections
    BY <2>1, DesksAssumption DEF DeskInv, Asked, Collections
  <2>4. CASE Jobbed(h)
    <3>1. PICK c \in Done(h.do, h.cards) : Commits(c) /\ \E s \in Spreads(c) : Broadcasts("ankiconnect", s)
      BY <2>4 DEF Jobbed
    <3>2. col' = c /\ Turns
      BY <3>1, <2>3, CardJobs, Committed DEF Commits
    <3>3. PICK s \in Spreads(col') : Broadcasts("ankiconnect", s)
      BY <3>1, <3>2
    <3> HIDE DEF h
    <3> QED BY <1>0, <2>1, <2>2, <3>2, <3>3, ToldStep DEF Busy, h
  <2>5. CASE BreaksOff(h)
    <3>1. PICK cs \in SUBSET h.cards : \E c \in Done(h.do, cs) : Commits(c) /\ missed' = (missed \/ c # col)
      BY <2>5 DEF BreaksOff
    <3>2. PICK c \in Done(h.do, cs) : Commits(c) /\ missed' = (missed \/ c # col)
      BY <3>1
    <3>3. col' = c /\ Turns /\ UNCHANGED <<tab, sock>>
      BY <3>2, <2>3, <2>5, CardJobs, Committed DEF Commits, BreaksOff
    <3>4. ~missed' => ~missed /\ Alike(col, col')
      BY <3>2, <3>3, AlikeIf DEF Alike
    <3> QED BY <1>0, <2>1, <2>2, <3>3, <3>4, UntoldStep DEF Busy
  <2>6. CASE Refused(h)
    BY <1>0, <2>1, <2>2, <2>6, Rested DEF Busy, Refused
  <2>7. CASE PastTheBackend(h)
    <3>1. Turns
      <4>1. CASE h.cards = {}
        BY <2>3, <2>7, <4>1, SameCollection DEF PastTheBackend, Untouched
      <4>2. CASE h.cards # {}
        BY <2>3, <2>7, <4>2, CardJobs, Forgotten DEF PastTheBackend
      <4> QED BY <4>1, <4>2
    <3>2. missed' = (missed \/ col' # col) /\ UNCHANGED <<tab, sock>>
      BY <2>7 DEF PastTheBackend
    <3>3. ~missed' => ~missed /\ Alike(col, col')
      BY <3>2, AlikeIf DEF Alike
    <3> QED BY <1>0, <2>1, <2>2, <3>1, <3>2, <3>3, UntoldStep DEF Busy
  <2> QED BY <1>2, <2>4, <2>5, <2>6, <2>7 DEF CardJob
<1> QED BY <1>1, <1>2 DEF CardActionsNext

---------------------------------------------------------------------------
(* AnkiConnect's undo and navigation; sockets and tabs that go.              *)
Others ==
  \/ \E k \in Sockets : Notice(k)
  \/ \E t \in Tabs : CloseTab(t)
  \/ GuiAsks \/ GuiUndo \/ GuiDeck \/ GuiNavigate

LEMMA OthersSteps == DeskInv /\ Others /\ UNCHANGED session => Pages' /\ Turns /\ Settled
<1> SUFFICES ASSUME DeskInv, Others, UNCHANGED session PROVE Pages' /\ Turns /\ Settled
  OBVIOUS
<1>0. Idle.pc = "idle" /\ Connect \in Runs
  BY DEF Idle, Runs
<1>1. ASSUME NEW k \in Sockets, Notice(k) PROVE Pages' /\ Turns /\ Settled
  <2>1. UNCHANGED <<col, undos, run, desk>>
    BY <1>1 DEF Notice
  <2> QED BY <1>1, <2>1, NoticeStep, HandlersRest, SameCollection DEF DeskInv, Pages, Untouched
<1>2. ASSUME NEW t \in Tabs, CloseTab(t) PROVE Pages' /\ Turns /\ Settled
  <2>1. UNCHANGED <<col, undos, ui, run, desk, missed, session>> /\ Leaves({t}, Elsewhere, {})
    BY <1>2 DEF CloseTab
  <2>2. RunsOn /\ Settled
    BY <2>1, HandlersRest DEF DeskInv, Pages
  <2>3. Move
    BY <2>1, <2>2, SameRecords DEF Move, DeskInv
  <2> QED BY <2>1, <2>2, <2>3, MoveStep, SameCollection DEF DeskInv, Untouched
<1>3. CASE GuiAsks
  BY <1>3, RequestStep DEF GuiAsks
<1>4. CASE GuiUndo
  <2>1. run[Connect].pc = "guiUndo" /\ run' = [run EXCEPT ![Connect] = Idle] /\ UNCHANGED <<ui, desk>>
    BY <1>4 DEF GuiUndo, Ends
  <2>2. Records' /\ SameCards
    BY <2>1, SameRecords DEF DeskInv
  <2>3. CASE undos = <<>>
    <3>1. UNCHANGED <<col, undos, tab, sock, missed>>
      BY <1>4, <2>3 DEF GuiUndo
    <3> QED BY <1>0, <2>1, <2>2, <3>1, Rested DEF Busy
  <2>4. CASE undos # <<>>
    <3>1. PICK c \in {undos[Len(undos)]} : Undoes(c) /\ \E s \in Spreads(c) : Broadcasts("ankiconnect", s)
      BY <1>4, <2>4 DEF GuiUndo
    <3>2. col' = c /\ Turns
      BY <3>1, Undone DEF Undoes, DeskInv
    <3>3. PICK s \in Spreads(col') : Broadcasts("ankiconnect", s)
      BY <3>1, <3>2
    <3> QED BY <1>0, <2>1, <2>2, <3>2, <3>3, ToldStep DEF Busy
  <2> QED BY <2>3, <2>4
<1>5. CASE GuiDeck
  <2> DEFINE c == [col EXCEPT !.cur = run[Connect].deck]
             h == [pc |-> "guiNavigate", page |-> run[Connect].page]
  <2>1. /\ run[Connect].pc = "guiDeck" /\ run' = [run EXCEPT ![Connect] = h]
        /\ UNCHANGED <<ui, desk, tab, sock>> /\ Commits(c) /\ missed' = (missed \/ col' # col)
    BY <1>5 DEF GuiDeck
  <2>2. Shrinks(col, c)
    BY Jobs1 DEF DeskInv, Collections
  <2>3. h.pc = "guiNavigate"
    OBVIOUS
  <2> HIDE DEF c, h
  <2>4. Turns
    BY <2>1, <2>2, Committed DEF DeskInv
  <2>5. ~missed' => ~missed /\ Alike(col, col')
    BY <2>1, AlikeIf
  <2> QED BY <1>0, <2>1, <2>3, <2>4, <2>5, SameRecords, UntoldStep DEF Busy, DeskInv
<1>6. CASE GuiNavigate
  <2>1. PICK s \in Sends({ui.screen}) :
          Leaves(s.got, Goto(run[Connect].page), {}) /\ missed' = (missed \/ ~s.ok)
    BY <1>6 DEF GuiNavigate
  <2>2. run[Connect].pc = "guiNavigate" /\ Ends(Connect) /\ UNCHANGED <<col, undos, ui, desk>>
    BY <1>6 DEF GuiNavigate
  <2> QED BY <1>0, <2>1, <2>2, SendsMove DEF Busy
<1> QED BY <1>1, <1>2, <1>3, <1>4, <1>5, <1>6 DEF Others

---------------------------------------------------------------------------
(* The deck screens.                                                         *)
LEMMA DueOnly ==
  ASSUME NEW c, Sound(c), NEW xs, xs \subseteq c.due \/ xs \subseteq CardsOf(c.notes)
  PROVE  Shrinks(c, [c EXCEPT !.due = xs]) /\ [c EXCEPT !.due = xs].notes = c.notes
<1>1. Shrinks(c, [c EXCEPT !.due = xs])
  BY Jobs1
<1>2. c = [notes |-> c.notes, due |-> c.due, ver |-> c.ver, marks |-> c.marks,
           home |-> c.home, cur |-> c.cur, note |-> c.note]
  BY DEF Sound
<1>3. [c EXCEPT !.due = xs].notes = c.notes
  BY <1>2
<1> QED BY <1>1, <1>3

LEMMA EmptiedDecks ==
  ASSUME NEW c, Sound(c), NEW d \in Emptied(c) PROVE Shrinks(c, d) /\ d.notes = c.notes
<1> DEFINE e == Rehomed(c, {x \in Cards : c.home[x] = Filtered}, 1)
<1>1. PICK xs \in SUBSET {x \in c.due : c.home[x] = Filtered} : d = [e EXCEPT !.due = @ \ xs]
  BY DEF Emptied
<1>2. Shrinks(c, e) /\ e.notes = c.notes /\ e.due = c.due
  BY Jobs1
<1> HIDE DEF e
<1>3. Sound(e) /\ d = [e EXCEPT !.due = e.due \ xs] /\ e.due \ xs \subseteq e.due
  BY <1>1, <1>2 DEF Shrinks
<1>4. Shrinks(e, d) /\ d.notes = e.notes
  BY <1>3, DueOnly
<1> QED BY <1>2, <1>4, Together

LEMMA GatheredDecks ==
  ASSUME NEW c, Sound(c), NEW d \in Gathered(c) PROVE Shrinks(c, d)
<1>1. PICK e \in Emptied(c), xs \in {c.due, Live(c, Cards)} : d = [Rehomed(e, xs, Filtered) EXCEPT !.due = @ \cup xs]
  BY DEF Gathered
<1>2. Shrinks(c, e) /\ e.notes = c.notes /\ Sound(e)
  BY EmptiedDecks DEF Shrinks
<1> DEFINE g == Rehomed(e, xs, Filtered)
<1>3. Shrinks(e, g) /\ g.notes = e.notes /\ g.due = e.due
  BY <1>2, Jobs1
<1>4. d = [g EXCEPT !.due = g.due \cup xs]
  BY <1>1
<1> HIDE DEF g
<1>5. xs \subseteq CardsOf(c.notes)
  BY LiveCards DEF Sound
<1>6. Sound(g) /\ g.due \cup xs \subseteq CardsOf(g.notes)
  BY <1>2, <1>3, <1>5 DEF Shrinks, Sound
<1>7. Shrinks(g, d)
  BY <1>4, <1>6, DueOnly
<1> QED BY <1>2, <1>3, <1>7, Together

LEMMA MoreIsDue ==
  ASSUME NEW c, Sound(c), NEW d \in MoreDue(c) PROVE Shrinks(c, d)
<1>1. PICK xs \in SUBSET {x \in Live(c, Cards) : c.home[x] = c.cur} : d = [c EXCEPT !.due = @ \cup xs]
  BY DEF MoreDue
<1>2. d = [c EXCEPT !.due = c.due \cup xs] /\ c.due \cup xs \subseteq CardsOf(c.notes)
  BY <1>1, LiveCards DEF Sound
<1> QED BY <1>2, DueOnly

LEMMA BuiltDecks ==
  ASSUME NEW c, Sound(c), NEW d \in Built(c) PROVE Shrinks(c, d)
<1>1. PICK g \in Gathered(c) : d = [g EXCEPT !.cur = Filtered]
  BY DEF Built
<1>2. Shrinks(c, g) /\ Sound(g)
  BY GatheredDecks DEF Shrinks
<1> QED BY <1>1, <1>2, Jobs1, Together

LEMMA DeckJobsShrink ==
  ASSUME Sound(col), NEW h,
         h.cmd \in {"collapse", "create", "setdesc", "unbury", "refresh", "empty", "submit"},
         NEW d \in DeckJobs(h)
  PROVE  Shrinks(col, d)
<1> USE DEF DeckJobs
<1>1. CASE h.cmd = "collapse"
  <2>1. PICK on \in BOOLEAN : d = Marked(col, {<<"collapsed", h.deck>>}, on)
    BY <1>1
  <2> QED BY <2>1, Jobs1
<1>2. CASE h.cmd = "create"
  <2>1. PICK i \in {left} : d = Marked(col, {<<"created", i>>}, TRUE)
    BY <1>2
  <2> QED BY <2>1, Jobs1
<1>3. CASE h.cmd = "setdesc"
  <2>1. PICK on \in BOOLEAN : d = Marked(col, {<<"desc", col.cur>>}, on)
    BY <1>3
  <2> QED BY <2>1, Jobs1
<1>4. CASE h.cmd = "unbury"
  BY <1>4, MoreIsDue
<1>5. CASE h.cmd = "refresh"
  BY <1>5, GatheredDecks
<1>6. CASE h.cmd = "empty"
  BY <1>6, EmptiedDecks
<1>7. CASE h.cmd = "submit"
  <2>1. d \in Built(col) \/ d \in MoreDue(col)
    BY <1>7
  <2> QED BY <2>1, BuiltDecks, MoreIsDue
<1> QED BY <1>1, <1>2, <1>3, <1>4, <1>5, <1>6, <1>7

LEMMA Transacted ==
  ASSUME DeskInv, NEW k \in Sockets, NEW c, Shrinks(col, c), NEW initiator, NEW next,
         Transacts(k, c, initiator, next), run[k].pc \notin Busy, UNCHANGED <<ui, desk, session>>,
         initiator \in {"deckbrowser", "overview", "browser", "reviewer"} => Draws(next, initiator)
  PROVE  Pages' /\ Turns /\ Settled
<1>1. Commits(c) /\ k \in Runs /\ k # Connect
  BY OfSockets DEF Transacts
<1>2. col' = c /\ Turns
  BY <1>1, Committed DEF Commits, DeskInv
<1>3. PICK s \in Spreads(col') :
        Broadcasts(initiator, s) /\ run' = [run EXCEPT ![k] = IF s.ok THEN next ELSE Idle]
  BY <1>2 DEF Transacts
<1>4. Records' /\ SameCards
  BY SameRecords DEF DeskInv
<1>5. CASE s.ok
  <2>1. run' = [run EXCEPT ![k] = next]
    BY <1>3, <1>5
  <2> QED BY <1>1, <1>2, <1>3, <1>4, <2>1, ToldStep
<1>6. CASE ~s.ok
  <2>1. run' = [run EXCEPT ![k] = Idle]
    BY <1>3, <1>6
  <2> QED BY <1>1, <1>2, <1>3, <1>4, <1>6, <2>1, ToldStep
<1> QED BY <1>5, <1>6

LEMMA DeckScreensSteps == DeskInv /\ DeckScreensNext /\ UNCHANGED session => Pages' /\ Turns /\ Settled
<1> SUFFICES ASSUME DeskInv, DeckScreensNext, UNCHANGED session PROVE Pages' /\ Turns /\ Settled
  OBVIOUS
<1>0. Idle.pc = "idle" /\ \A k \in Sockets : k \in Runs /\ k # Connect
  BY OfSockets DEF Idle
<1>1. ASSUME NEW t \in Tabs, DrawPage(t) PROVE Pages' /\ Turns /\ Settled
  <2>1. /\ tab[t].page \in DeckPages /\ Put({t}, Drawn(tab[t].page, col))
        /\ UNCHANGED <<col, undos, ui, sock, run, desk, missed>>
    BY <1>1 DEF DrawPage
  <2>2. RunKeeps /\ Settled
    BY <2>1, HandlersRest DEF DeskInv, Pages
  <2>3. Redraw
    BY <2>1, <2>2, SameRecords DEF Redraw, Calm, DeskInv
  <2> QED BY <2>1, <2>2, <2>3, RedrawStep, SameCollection DEF DeskInv, Untouched
<1>2. ASSUME NEW t \in Tabs, UseDecks(t) PROVE Pages' /\ Turns /\ Settled
  BY <1>2, CommandGiven DEF UseDecks
<1>3. ASSUME NEW t \in Tabs, NEW k \in Sockets, OpenDeckPage(t, k) PROVE Pages' /\ Turns /\ Settled
  <2>1. Opens(t, k, <<>>) /\ tab[t].page \in DeckPages /\ tab[t].shows # Blank
    BY <1>3 DEF OpenDeckPage
  <2>2. Open(t, k, <<>>)
    BY <2>1, Few DEF Open, DeckPages
  <2> QED BY <2>2, PageOpened
<1>4. ASSUME NEW k \in Sockets, DeckReads(k) PROVE Pages' /\ Turns /\ Settled
  <2>1. PICK page \in DeckPages : Reads(k, page) /\ Starts(k, DeckTask(page, Head(sock[k].box)))
    BY <1>4 DEF DeckReads
  <2>2. UNCHANGED <<col, undos, tab, desk, missed, session>> /\ page # "browser" /\ page # "reviewer"
    BY <1>4 DEF DeckReads, DeckPages
  <2> QED BY <2>1, <2>2, CommandRead
<1>5. ASSUME NEW k \in Sockets, Go(k) \/ Reload(k) PROVE Pages' /\ Turns /\ Settled
  <2>1. PICK to : Moves(run[k].page, to)
    BY <1>5 DEF Go, Reload
  <2>2. PICK s \in Sends({run[k].page}) : Leaves(s.got, to, {}) /\ missed' = (missed \/ ~s.ok)
    BY <2>1 DEF Moves
  <2>3. run[k].pc \in {"reload", "going"} /\ Ends(k) /\ UNCHANGED <<col, undos, ui, desk>>
    BY <1>5 DEF Go, Reload
  <2> QED BY <1>0, <2>2, <2>3, SendsMove
<1>6. ASSUME NEW k \in Sockets, OpenDeck(k) PROVE Pages' /\ Turns /\ Settled
  <2> DEFINE c == [col EXCEPT !.cur = run[k].deck]
             next == Going("deckbrowser", "overview")
  <2>1. Shrinks(col, c) /\ Draws(next, "deckbrowser")
    BY Jobs1 DEF DeskInv, Collections, Going, Draws
  <2>2. run[k].pc = "opendeck" /\ UNCHANGED <<ui, desk>>
    BY <1>6 DEF OpenDeck
  <2>3. \/ Transacts(k, c, "deckbrowser", next)
        \/ Commits(c) /\ missed' = TRUE /\ run' = [run EXCEPT ![k] = next] /\ UNCHANGED <<tab, sock>>
    BY <1>6 DEF OpenDeck
  <2> HIDE DEF c, next
  <2>4. CASE Transacts(k, c, "deckbrowser", next)
    BY <2>1, <2>2, <2>4, Transacted DEF Busy
  <2>5. CASE Commits(c) /\ missed' = TRUE /\ run' = [run EXCEPT ![k] = next] /\ UNCHANGED <<tab, sock>>
    <3>1. Turns
      BY <2>1, <2>5, Committed DEF DeskInv
    <3> QED BY <1>0, <2>2, <2>5, <3>1, SameRecords, UntoldStep DEF Busy, DeskInv
  <2> QED BY <2>3, <2>4, <2>5
<1>7. ASSUME NEW k \in Sockets, WhichDeck(k) PROVE Pages' /\ Turns /\ Settled
  <2>1. run[k].pc = "whichdeck" /\ UNCHANGED <<col, undos, ui, tab, sock, desk, missed>>
    BY <1>7 DEF WhichDeck
  <2>2. PICK h : run' = [run EXCEPT ![k] = h]
    BY <1>7 DEF WhichDeck
  <2> QED BY <1>0, <2>1, <2>2, Rested, SameRecords DEF Busy, DeskInv
<1>8. ASSUME NEW k \in Sockets, DeckJob(k) PROVE Pages' /\ Turns /\ Settled
  <2> DEFINE h == run[k]
             next == IF h.cmd = "submit" THEN Going(h.page, "overview") ELSE [pc |-> "reload", page |-> h.page]
  <2>1. /\ h.pc = "deckjob" /\ h.page \in DeckPages /\ UNCHANGED <<ui, desk>>
        /\ h.cmd \in {"collapse", "create", "setdesc", "unbury", "refresh", "empty", "submit"}
    BY <1>8 DEF DeckJob
  <2>2. h.page \in {"deckbrowser", "overview", "browser", "reviewer"} => Draws(next, h.page)
    BY <2>1 DEF DeckPages, Draws, Going
  <2>3. \/ \E c \in DeckJobs(h) : Transacts(k, c, h.page, next)
        \/ Ends(k) /\ UNCHANGED <<col, undos, tab, sock, missed>>
    BY <1>8 DEF DeckJob
  <2> HIDE DEF h, next
  <2>4. ASSUME NEW c \in DeckJobs(h), Transacts(k, c, h.page, next) PROVE Pages' /\ Turns /\ Settled
    <3>1. Shrinks(col, c)
      BY <2>1, DeckJobsShrink DEF DeskInv, Collections
    <3>2. run[k].pc \notin Busy
      BY <2>1 DEF Busy, h
    <3> QED BY <2>1, <2>2, <2>4, <3>1, <3>2, Transacted
  <2>5. CASE Ends(k) /\ UNCHANGED <<col, undos, tab, sock, missed>>
    BY <1>0, <2>1, <2>5, Rested, SameRecords DEF Ends, Busy, DeskInv, h
  <2> QED BY <2>3, <2>4, <2>5
<1>9. ASSUME NEW k \in Sockets, CheckDb(k) PROVE Pages' /\ Turns /\ Settled
  <2>1. /\ run[k].pc = "checkdb" /\ undos' = <<>> /\ run' = [run EXCEPT ![k] = Idle]
        /\ UNCHANGED <<col, ui, tab, sock, desk, missed>>
    BY <1>9 DEF CheckDb, Ends
  <2>2. Turns
    BY <2>1, Forgotten DEF DeskInv
  <2>3. Alike(col, col')
    BY <2>1, AlikeIf
  <2> QED BY <1>0, <2>1, <2>2, <2>3, SameRecords, UntoldStep DEF Busy, DeskInv
<1>10. ASSUME NEW k \in Sockets, EmptyCards(k) \/ Emptying(k) PROVE Pages' /\ Turns /\ Settled
  <2>1. /\ run[k].pc \in {"emptycards", "emptied"} /\ run' = [run EXCEPT ![k] = Idle]
        /\ UNCHANGED <<col, undos, ui, tab, sock, desk, missed>>
    BY <1>10 DEF EmptyCards, Emptying, Ends
  <2> QED BY <1>0, <2>1, Rested, SameRecords DEF Busy, DeskInv
<1>11. ASSUME NEW k \in Sockets, DeleteEmpty(k) PROVE Pages' /\ Turns /\ Settled
  <2> DEFINE c == Without(col, NotesOf(col, report))
             next == [pc |-> "emptied"]
  <2>1. /\ run[k].pc = "emptycards_delete" /\ Transacts(k, c, "tools", next)
        /\ UNCHANGED <<ui, desk>>
    BY <1>11 DEF DeleteEmpty
  <2>2. Shrinks(col, c)
    BY Jobs1 DEF DeskInv, Collections
  <2> HIDE DEF c, next
  <2> QED BY <2>1, <2>2, Transacted DEF Busy
<1> QED BY <1>1, <1>2, <1>3, <1>4, <1>5, <1>6, <1>7, <1>8, <1>9, <1>10, <1>11 DEF DeckScreensNext

---------------------------------------------------------------------------
(* Notes that are added.                                                     *)
LEMMA LeastOf ==
  ASSUME NEW S \in SUBSET Nat, S # {} PROVE \E m \in S : \A o \in S : m <= o
<1> DEFINE Below == {ss \in Nat \X Nat : ss[1] < ss[2]}
<1>1. IsWellFoundedOn(Below, Nat)
  BY NatLessThanWellFounded DEF OpToRel
<1> HIDE DEF Below
<1>2. PICK x \in S : \A y \in S : <<y, x>> \notin Below
  BY <1>1, WFMin
<1>3. \A y \in S : ~(y < x)
  BY <1>2 DEF Below
<1> QED BY <1>2, <1>3

LEMMA Unnumbered ==
  ASSUME NEW c PROVE Unused(c) \subseteq Notes /\ Unused(c) \subseteq Nat /\ Unused(c) \cap c.notes = {}
<1>1. Unused(c) \subseteq Notes /\ Unused(c) \subseteq Nat
  BY NumbersAssumption DEF Unused
<1>2. \A n \in Unused(c), m \in c.notes : n > m
  BY DEF Unused, Used
<1>3. \A n \in Unused(c) : ~(n > n)
  BY <1>1
<1> QED BY <1>1, <1>2, <1>3

LEMMA WithOne ==
  ASSUME NEW c, Sound(c), Unused(c) # {}, NEW new
  PROVE  /\ Sound(With(c, new))
         /\ \E n \in Unused(c) : /\ With(c, new).notes = c.notes \cup {n}
                                 /\ With(c, new).note = [c.note EXCEPT ![n] = new]
<1> DEFINE n == CHOOSE m \in Unused(c) : \A o \in Unused(c) : m <= o
           note == [c.note EXCEPT ![n] = new]
<1>1. n \in Unused(c) /\ n \in Notes
  BY LeastOf, Unnumbered
<1>2. c = [notes |-> c.notes, due |-> c.due, ver |-> c.ver, marks |-> c.marks,
           home |-> c.home, cur |-> c.cur, note |-> c.note]
      /\ c.notes \subseteq Notes /\ c.note = [m \in Notes |-> c.note[m]] /\ c.due \subseteq CardsOf(c.notes)
  BY DEF Sound
<1>3. With(c, new) = [c EXCEPT !.notes = @ \cup {n}, !.note[n] = new, !.due = @ \cup CardsOf({n})]
  BY DEF With
<1>4. note = [m \in Notes |-> note[m]]
  BY <1>2
<1> HIDE DEF n
<1>5. With(c, new) = [notes |-> c.notes \cup {n}, due |-> c.due \cup CardsOf({n}), ver |-> c.ver,
                      marks |-> c.marks, home |-> c.home, cur |-> c.cur, note |-> note]
  <2> DEFINE d == [c EXCEPT !.notes = @ \cup {n}]
             e == [d EXCEPT !.note[n] = new]
  <2>1. With(c, new) = [e EXCEPT !.due = @ \cup CardsOf({n})]
    BY <1>3
  <2>2. d = [notes |-> c.notes \cup {n}, due |-> c.due, ver |-> c.ver, marks |-> c.marks,
             home |-> c.home, cur |-> c.cur, note |-> c.note]
    BY <1>2
  <2> HIDE DEF d
  <2>3. e = [notes |-> c.notes \cup {n}, due |-> c.due, ver |-> c.ver, marks |-> c.marks,
             home |-> c.home, cur |-> c.cur, note |-> note]
    BY <2>2
  <2> HIDE DEF e
  <2> QED BY <2>1, <2>3
<1> HIDE DEF note
<1>6. c.due \cup CardsOf({n}) \subseteq CardsOf(c.notes \cup {n})
  BY <1>2 DEF CardsOf
<1>7. Sound(With(c, new)) /\ With(c, new).notes = c.notes \cup {n} /\ With(c, new).note = note
  BY <1>1, <1>2, <1>4, <1>5, <1>6 DEF Sound
<1> QED BY <1>1, <1>7 DEF note

(* What a step adds is no twin of what there was.                            *)
NothingTwice ==
  \A n \in Added, m \in col'.notes \ Added : ~Wanted => ~Twins(col'.note[n], col'.note[m])

LEMMA OneMore ==
  ASSUME Collections, NEW new, Addable(col, new, FALSE), Commits(With(col, new))
  PROVE  Collections' /\ col' = With(col, new) /\ NothingTwice
<1>1. Sound(col) /\ Unused(col) # {} /\ \A n \in col.notes : ~Twins(col.note[n], new)
  BY DEF Collections, Addable
<1>2. PICK n \in Unused(col) : /\ With(col, new).notes = col.notes \cup {n}
                               /\ With(col, new).note = [col.note EXCEPT ![n] = new]
  BY <1>1, WithOne
<1>3. Collections' /\ col' = With(col, new)
  BY <1>1, WithOne, Stacked
<1>4. n \in Notes /\ n \notin col.notes /\ col.notes \subseteq Notes /\ col.note = [m \in Notes |-> col.note[m]]
  BY <1>1, Unnumbered DEF Sound
<1>5. col'.note[n] = new /\ \A m \in col.notes : col'.note[m] = col.note[m]
  BY <1>2, <1>3, <1>4
<1>6. Added = {} \/ (Added = {n} /\ col'.notes \ Added = col.notes)
  BY <1>2, <1>3, <1>4 DEF Added
<1>7. NothingTwice
  BY <1>1, <1>5, <1>6 DEF NothingTwice, Twins
<1> QED BY <1>3, <1>7

LEMMA Joined ==
  ASSUME NEW a, NEW b, IsSeq(a), IsSeq(b)
  PROVE  /\ IsSeq(a \o b) /\ Len(a \o b) = Len(a) + Len(b) /\ Len(a) \in Nat /\ Len(b) \in Nat
         /\ \A i \in DOMAIN (a \o b) : \/ \E j \in DOMAIN a : (a \o b)[i] = a[j]
                                       \/ \E j \in DOMAIN b : (a \o b)[i] = b[j]
<1> DEFINE A == {a[i] : i \in DOMAIN a}
           B == {b[i] : i \in DOMAIN b}
<1>1. a \in Seq(A \cup B) /\ b \in Seq(A \cup B) /\ \A x \in A \cup B : (\E j \in DOMAIN a : x = a[j]) \/ \E j \in DOMAIN b : x = b[j]
  BY DEF IsSeq
<1> HIDE DEF A, B
<1>2. (a \o b) \in Seq(A \cup B) /\ Len(a \o b) = Len(a) + Len(b) /\ Len(a) \in Nat /\ Len(b) \in Nat
  BY <1>1
<1>3. \A i \in DOMAIN (a \o b) : (a \o b)[i] \in A \cup B
  BY <1>2
<1> QED BY <1>1, <1>2, <1>3, OwnElements

LEMMA SomeMore ==
  ASSUME Sound(col), NEW new, NEW is, NEW f, \A i \in is : f[i] \in Unused(col)
  PROVE  LET c == Adding(new, f, is)
             ns == {f[i] : i \in is}
         IN  /\ Sound(c) /\ c.notes = col.notes \cup ns /\ c.due = col.due \cup CardsOf(ns)
             /\ c.home = col.home /\ c.cur = col.cur /\ c.marks = col.marks
             /\ \A n \in col.notes : c.note[n] = col.note[n]
             /\ \A n \in ns : \E i \in is : f[i] = n /\ c.note[n] = new[i]
<1> DEFINE c == Adding(new, f, is)
           ns == {f[i] : i \in is}
           note == [n \in Notes |-> IF n \in ns THEN new[CHOOSE i \in is : f[i] = n] ELSE col.note[n]]
<1>1. ns \subseteq Unused(col)
  OBVIOUS
<1>2. ns \subseteq Notes /\ ns \cap col.notes = {}
  BY <1>1, Unnumbered
<1>3. col = [notes |-> col.notes, due |-> col.due, ver |-> col.ver, marks |-> col.marks,
             home |-> col.home, cur |-> col.cur, note |-> col.note]
      /\ col.notes \subseteq Notes /\ col.note = [m \in Notes |-> col.note[m]] /\ col.due \subseteq CardsOf(col.notes)
  BY DEF Sound
<1>4. /\ note = [n \in Notes |-> note[n]]
      /\ \A n \in col.notes : note[n] = col.note[n]
      /\ \A n \in ns : \E i \in is : f[i] = n /\ note[n] = new[i]
  <2>1. \A n \in col.notes : note[n] = col.note[n]
    BY <1>2, <1>3
  <2>2. ASSUME NEW n \in ns PROVE \E i \in is : f[i] = n /\ note[n] = new[i]
    <3>1. \E i \in is : f[i] = n
      OBVIOUS
    <3>2. PICK i : i = CHOOSE j \in is : f[j] = n
      OBVIOUS
    <3>3. i \in is /\ f[i] = n
      BY <3>1, <3>2
    <3>4. note[n] = new[i]
      BY <1>2, <3>2
    <3> QED BY <3>3, <3>4
  <2> QED BY <2>1, <2>2
<1>5. c = [col EXCEPT !.notes = @ \cup ns, !.due = @ \cup CardsOf(ns), !.note = note]
  BY DEF Adding
<1> HIDE DEF c, note, ns
<1>6. c = [notes |-> col.notes \cup ns, due |-> col.due \cup CardsOf(ns), ver |-> col.ver,
           marks |-> col.marks, home |-> col.home, cur |-> col.cur, note |-> note]
  <2> DEFINE d == [col EXCEPT !.notes = @ \cup ns]
             e == [d EXCEPT !.due = @ \cup CardsOf(ns)]
  <2>1. c = [e EXCEPT !.note = note]
    BY <1>5
  <2>2. d = [notes |-> col.notes \cup ns, due |-> col.due, ver |-> col.ver, marks |-> col.marks,
             home |-> col.home, cur |-> col.cur, note |-> col.note]
    BY <1>3
  <2> HIDE DEF d
  <2>3. e = [notes |-> col.notes \cup ns, due |-> col.due \cup CardsOf(ns), ver |-> col.ver, marks |-> col.marks,
             home |-> col.home, cur |-> col.cur, note |-> col.note]
    BY <2>2
  <2> HIDE DEF e
  <2> QED BY <2>1, <2>3
<1>7. col.due \cup CardsOf(ns) \subseteq CardsOf(col.notes \cup ns)
  BY <1>3 DEF CardsOf
<1>8. Sound(c)
  BY <1>2, <1>3, <1>4, <1>6, <1>7 DEF Sound
<1>9. /\ c.notes = col.notes \cup ns /\ c.due = col.due \cup CardsOf(ns)
      /\ c.home = col.home /\ c.cur = col.cur /\ c.marks = col.marks /\ c.note = note
  BY <1>6
<1> QED BY <1>4, <1>8, <1>9 DEF c, ns

LEMMA StepByStep ==
  ASSUME Sound(col), NEW new, NEW is, IsFiniteSet(is), NEW f, \A i \in is : f[i] \in Unused(col)
  PROVE  /\ IsSeq(Steps(new, f, is)) /\ \A k \in DOMAIN Steps(new, f, is) : Sound(Steps(new, f, is)[k])
         /\ Len(Steps(new, f, is)) = Cardinality(is) /\ Cardinality(is) \in Nat
<1> DEFINE before(k) == {i \in is : Rank(i, is) < k - 1}
           n == Cardinality(is)
           s == Steps(new, f, is)
<1>1. n \in Nat
  BY FS_CardinalityType
<1>2. s = [k \in 1..n |-> Adding(new, f, before(k))]
  BY DEF Steps
<1>3. ASSUME NEW k \in 1..n PROVE Sound(Adding(new, f, before(k)))
  <2>1. \A i \in before(k) : f[i] \in Unused(col)
    OBVIOUS
  <2> HIDE DEF before
  <2> QED BY <2>1, SomeMore
<1> HIDE DEF before, n, s
<1>4. s \in [1..n -> {s[k] : k \in DOMAIN s}] /\ DOMAIN s = 1..n
  BY <1>2
<1>5. IsSeq(s) /\ Len(s) = n
  BY <1>1, <1>4 DEF IsSeq
<1>6. \A k \in DOMAIN s : Sound(s[k])
  BY <1>2, <1>3, <1>4
<1> QED BY <1>1, <1>5, <1>6 DEF n, s

LEMMA AsMany ==
  ASSUME NEW S, IsFiniteSet(S), S \subseteq Nat, NEW f, \A i \in S : f[i] \in Nat,
         \A i, j \in S : i < j => f[i] < f[j]
  PROVE  Cardinality({f[i] : i \in S}) = Cardinality(S)
<1> DEFINE T == {f[i] : i \in S}
           g == [i \in S |-> f[i]]
<1>1. \A i, j \in S : i # j => f[i] # f[j]
  OBVIOUS
<1>2. g \in [S -> T] /\ (\A i, j \in S : g[i] = g[j] => i = j) /\ \A t \in T : \E i \in S : g[i] = t
  BY <1>1
<1> HIDE DEF g, T
<1>3. g \in Bijection(S, T)
  BY <1>2 DEF Bijection, Injection, Surjection, IsInjective
<1> QED BY <1>3, FS_Bijection DEF ExistsBijection, T

(* AnkiConnect adds all the notes it was given, or none.                     *)
LEMMA NoteRequests ==
  ASSUME Asked, run[Connect].pc = "addNotes"
  PROVE  LET new == run[Connect].new IN Len(new) \in Nat /\ DOMAIN new = 1..Len(new)
BY DesksAssumption DEF Asked

LEMMA ConnectEnds ==
  ASSUME DeskInv, Ends(Connect), UNCHANGED <<ui, desk, session>>, run[Connect].pc \notin Busy
  PROVE  Calm /\ Asked'
<1>1. run' = [k \in Runs |-> IF k = Connect THEN Idle ELSE run[k]] /\ Connect \in Runs
  BY DEF Ends, DeskInv, Pages, Shapes, Runs
<1>2. RunKeeps
  BY <1>1 DEF RunKeeps, RunsOn
<1>3. Asked'
  BY <1>1 DEF Asked, DeskInv, Idle
<1> QED BY <1>2, <1>3, SameRecords DEF Calm, DeskInv

LEMMA Answers ==
  ASSUME DeskInv, Calm, Tells(col') PROVE Pages'
<1>1. PICK s \in Spreads(col') : Broadcasts("ankiconnect", s)
  BY DEF Tells
<1>2. Covers("ankiconnect")
  BY DEF Covers
<1> QED BY <1>1, <1>2, TellStep DEF Tell, DeskInv

LEMMA AddNotesStep ==
  ASSUME DeskInv, AddNotes, UNCHANGED session
  PROVE  /\ Pages' /\ Collections' /\ Asked' /\ NothingTwice
         /\ Cardinality(Added) \in {0, Len(run[Connect].new)}
<1> DEFINE new == run[Connect].new
           is == DOMAIN new \ Failures(new, run[Connect].dup)
<1>1. run[Connect].pc = "addNotes" /\ Ends(Connect) /\ UNCHANGED <<ui, desk>>
  BY DEF AddNotes
<1>2. PICK f \in Numberings(is) :
        LET c == Adding(new, f, is)
        IN  IF is = DOMAIN new
            THEN col' = c /\ undos' = undos \o Steps(new, f, is) /\ Tells(c)
            ELSE /\ col' = TakesBack(c, {f[i] : i \in is})
                 /\ undos' = undos \o Steps(new, f, is) \o (IF is = {} THEN <<>> ELSE <<c>>)
                 /\ Quietly
  BY DEF AddNotes
<1> DEFINE ns == {f[i] : i \in is}
           c == Adding(new, f, is)
           steps == Steps(new, f, is)
<1>3. Len(new) \in Nat /\ DOMAIN new = 1..Len(new) /\ is \subseteq 1..Len(new) /\ IsFiniteSet(1..Len(new))
      /\ Cardinality(1..Len(new)) = Len(new)
  <2>1. Len(new) \in Nat /\ DOMAIN new = 1..Len(new)
    BY <1>1, NoteRequests DEF DeskInv
  <2> QED BY <2>1, FS_Interval
<1>4. IsFiniteSet(is) /\ is \subseteq Nat
  BY <1>3, FS_Subset
<1>5. (\A i \in is : f[i] \in Unused(col)) /\ \A i, j \in is : i < j => f[i] < f[j]
  BY DEF Numberings
<1>6. ns \cap col.notes = {} /\ \A i \in is : f[i] \in Nat
  BY <1>5, Unnumbered
<1>7. Cardinality(ns) = Cardinality(is)
  BY <1>4, <1>5, <1>6, AsMany
<1>8. Calm /\ Asked'
  BY <1>1, ConnectEnds DEF Busy
<1>9. Sound(col) /\ IsSeq(undos) /\ \A i \in DOMAIN undos : Sound(undos[i])
  BY DEF DeskInv, Collections
<1>10. /\ Sound(c) /\ c.notes = col.notes \cup ns /\ c.due = col.due \cup CardsOf(ns)
       /\ c.home = col.home /\ c.cur = col.cur /\ c.marks = col.marks
       /\ \A n \in col.notes : c.note[n] = col.note[n]
       /\ \A n \in ns : \E i \in is : f[i] = n /\ c.note[n] = new[i]
  BY <1>5, <1>9, SomeMore
<1>11. IsSeq(steps) /\ (\A k \in DOMAIN steps : Sound(steps[k])) /\ Len(steps) = Cardinality(is)
  BY <1>4, <1>5, <1>9, StepByStep
<1> HIDE DEF is, c, ns, steps
<1>12. /\ IsSeq(undos \o steps) /\ \A i \in DOMAIN (undos \o steps) : Sound((undos \o steps)[i])
  BY <1>9, <1>11, Joined
<1>13. CASE is = DOMAIN new
  <2>1. col' = c /\ undos' = undos \o steps /\ Tells(c)
    BY <1>2, <1>13 DEF c, steps
  <2>2. Collections'
    BY <1>10, <1>12, <2>1 DEF Collections
  <2>3. Pages'
    BY <1>8, <2>1, Answers
  <2>4. Added = {} \/ (Added = ns /\ col'.notes \ Added = col.notes)
    BY <1>6, <1>10, <2>1 DEF Added
  <2>5. Cardinality(Added) \in {0, Len(new)}
    BY <1>3, <1>7, <1>13, <2>4, FS_EmptySet
  <2>6. NothingTwice
    <3>1. SUFFICES ASSUME NEW n \in ns, NEW m \in col.notes, ~Wanted PROVE ~Twins(col'.note[n], col'.note[m])
      BY <2>4 DEF NothingTwice
    <3>2. PICK i \in is : f[i] = n /\ c.note[n] = new[i]
      BY <1>10
    <3>3. ~Twins(col.note[m], new[i])
      BY <1>1, <3>1, <3>2 DEF is, Failures, Wanted
    <3> QED BY <3>2, <3>3, <1>10, <2>1 DEF Twins
  <2> QED BY <1>8, <2>2, <2>3, <2>5, <2>6
<1>14. CASE is # DOMAIN new
  <2> DEFINE last == IF is = {} THEN <<>> ELSE <<c>>
  <2>1. col' = Without(c, ns) /\ undos' = undos \o steps \o last /\ UNCHANGED <<tab, sock, missed>>
    BY <1>2, <1>14 DEF c, steps, ns, TakesBack, Quietly
  <2>2. IsSeq(last) /\ \A i \in DOMAIN last : Sound(last[i])
    <3>1. CASE is = {}
      BY <3>1, Few
    <3>2. CASE is # {}
      <4>1. DOMAIN <<c>> = {1} /\ <<c>>[1] = c
        OBVIOUS
      <4> QED BY <1>10, <3>2, <4>1, Few
    <3> QED BY <3>1, <3>2
  <2> HIDE DEF last
  <2>3. IsSeq(undos') /\ \A i \in DOMAIN undos' : Sound(undos'[i])
    <3> DEFINE a == undos \o steps
    <3>1. undos' = a \o last
      BY <2>1
    <3> HIDE DEF a
    <3>2. IsSeq(a) /\ \A i \in DOMAIN a : Sound(a[i])
      BY <1>12 DEF a
    <3> QED BY <2>2, <3>1, <3>2, Joined
  <2>4. Sound(col') /\ col'.notes = col.notes /\ col'.due = col.due
        /\ col'.home = col.home /\ col'.cur = col.cur /\ col'.marks = col.marks
    <3>1. Sound(Without(c, ns))
      BY <1>10, Jobs1 DEF Shrinks
    <3>2. /\ Without(c, ns).notes = c.notes \ ns /\ Without(c, ns).due = c.due \ CardsOf(ns)
          /\ Without(c, ns).home = c.home /\ Without(c, ns).cur = c.cur /\ Without(c, ns).marks = c.marks
      BY <1>10 DEF Sound, Without
    <3>3. CardsOf(ns) \cap col.due = {}
      BY <1>6, <1>9 DEF Sound, CardsOf
    <3> QED BY <1>6, <1>10, <2>1, <3>1, <3>2, <3>3
  <2>5. Alike(col, col')
    BY <2>4, AlikeIf
  <2>6. Pages'
    BY <1>8, <2>1, <2>5, StillStep DEF Still, DeskInv
  <2>7. Added = {}
    BY <2>4 DEF Added
  <2>8. Cardinality(Added) = 0 /\ NothingTwice
    BY <2>7, FS_EmptySet DEF NothingTwice
  <2> QED BY <1>8, <2>3, <2>4, <2>6, <2>8 DEF Collections
<1> QED BY <1>13, <1>14

(* AnkiConnect leaves the oldest of the notes that are alike.                *)
OldestStay ==
  \A n \in col.notes :
    (n \notin col'.notes) <=>
      /\ n \notin Empty(col)
      /\ \E m \in col'.notes : m < n /\ Twins(col.note[m], col.note[n])

LEMMA Deduplicated ==
  ASSUME Sound(col), col' = Without(col, Fresh(col) \ Empty(col)) PROVE OldestStay
<1>1. col'.notes = col.notes \ (Fresh(col) \ Empty(col)) /\ col.notes \subseteq Nat
  BY NumbersAssumption DEF Sound, Without
<1>2. ASSUME NEW n \in col.notes, n \in Fresh(col), n \notin Empty(col)
      PROVE  \E m \in col'.notes : m < n /\ Twins(col.note[m], col.note[n])
  <2> DEFINE older == {m \in col.notes : m < n /\ Twins(col.note[m], col.note[n])}
  <2>1. older # {} /\ older \in SUBSET Nat
    BY <1>1, <1>2 DEF Fresh
  <2> HIDE DEF older
  <2>2. PICK m \in older : \A o \in older : m <= o
    BY <2>1, LeastOf
  <2>3. m \in col.notes /\ m < n /\ Twins(col.note[m], col.note[n])
    BY <2>2 DEF older
  <2>4. m \notin Fresh(col)
    <3>1. SUFFICES ASSUME NEW o \in col.notes, o < m, Twins(col.note[o], col.note[m]) PROVE FALSE
      BY DEF Fresh
    <3>2. o < n /\ Twins(col.note[o], col.note[n])
      BY <1>1, <1>2, <2>3, <3>1 DEF Twins
    <3>3. m <= o
      BY <2>2, <3>2 DEF older
    <3> QED BY <1>1, <2>3, <3>1, <3>3
  <2> QED BY <1>1, <2>3, <2>4
<1>3. ASSUME NEW n \in col.notes, NEW m \in col'.notes, m < n, Twins(col.note[m], col.note[n])
      PROVE  n \in Fresh(col)
  BY <1>1, <1>3 DEF Fresh
<1> QED BY <1>1, <1>2, <1>3 DEF OldestStay

LEMMA NoteJobsShrink ==
  ASSUME Sound(col), NEW h, h.pc \in Told PROVE Shrinks(col, NoteJobs(h))
<1> USE DEF NoteJobs
<1>0. Shrinks(col, col) /\ \A n, x : Shrinks(col, Edit(n, x))
  BY Edited DEF Shrinks, Edit
<1>1. CASE h.pc \in {"updateTags", "updateNoteModel"}
  BY <1>0, <1>1
<1>2. CASE h.pc \in {"addTags", "removeTags"}
  <2>1. PICK on \in BOOLEAN : NoteJobs(h) = Tagged(col, h.notes, "tag", on)
    BY <1>2
  <2>2. Shrinks(col, Tagged(col, h.notes, "tag", on))
    BY Jobs1
  <2> QED BY <2>1, <2>2
<1>3. CASE h.pc = "deleteNotes"
  BY <1>3, Jobs1
<1>4. CASE h.pc = "replaceTagsInAllNotes"
  <2> DEFINE d == Tagged(col, {n \in col.notes : "tag" \in col.note[n].tags}, "marked", TRUE)
  <2>1. Shrinks(col, d) /\ Sound(d)
    BY Jobs1 DEF Shrinks
  <2>2. NoteJobs(h) = Tagged(d, col.notes, "tag", FALSE)
    BY <1>4 DEF Replaced
  <2> HIDE DEF d
  <2>3. Shrinks(d, Tagged(d, col.notes, "tag", FALSE))
    BY <2>1, Jobs1
  <2> QED BY <2>1, <2>2, <2>3, Together
<1>5. CASE h.pc = "removeEmptyNotes"
  BY <1>5, Jobs1
<1>6. CASE h.pc = "removeDuplicateNotes"
  BY <1>6, Jobs1
<1> QED BY <1>1, <1>2, <1>3, <1>4, <1>5, <1>6 DEF Told

LEMMA NoteJobStep ==
  ASSUME DeskInv, NoteJob, UNCHANGED session
  PROVE  /\ Pages' /\ Turns /\ Asked'
         /\ run[Connect].pc # "addNotes"
         /\ run[Connect].pc = "removeDuplicateNotes" => OldestStay
<1>1. run[Connect].pc \in Told /\ Ends(Connect) /\ UNCHANGED <<ui, desk>>
  BY DEF NoteJob
<1> DEFINE c == NoteJobs(run[Connect])
<1>2. Commits(c) /\ Tells(c)
  BY DEF NoteJob
<1>3. Shrinks(col, c)
  BY <1>1, NoteJobsShrink DEF DeskInv, Collections
<1>4. run[Connect].pc = "removeDuplicateNotes" => c = Without(col, Fresh(col) \ Empty(col))
  BY DEF NoteJobs
<1> HIDE DEF c
<1>5. col' = c /\ Turns
  BY <1>2, <1>3, Committed DEF Commits, DeskInv
<1>6. run[Connect].pc \notin Busy /\ run[Connect].pc # "addNotes"
  BY <1>1 DEF Told, Busy
<1>7. Calm /\ Asked'
  BY <1>1, <1>6, ConnectEnds
<1>8. Pages'
  BY <1>2, <1>5, <1>7, Answers
<1>9. run[Connect].pc = "removeDuplicateNotes" => OldestStay
  BY <1>4, <1>5, Deduplicated DEF DeskInv, Collections
<1> QED BY <1>5, <1>6, <1>7, <1>8, <1>9

---------------------------------------------------------------------------
(* The note forms and AnkiConnect's notes.                                   *)
AllOrNone ==
  run[Connect].pc = "addNotes" /\ run'[Connect].pc = "idle" => Cardinality(Added) \in {0, Len(run[Connect].new)}
OldestKept ==
  run[Connect].pc = "removeDuplicateNotes" /\ run'[Connect].pc = "idle" => OldestStay
Steady == Pages' /\ Collections' /\ Asked' /\ NothingTwice /\ AllOrNone /\ OldestKept

LEMMA SteadyIf ==
  /\ Pages' /\ Collections' /\ NothingTwice /\ Settled => Steady
  /\ Pages' /\ Turns /\ Settled => Steady
<1>1. ASSUME Settled PROVE Asked' /\ AllOrNone /\ OldestKept
  BY <1>1 DEF Settled, AllOrNone, OldestKept
<1>2. ASSUME Turns PROVE Collections' /\ NothingTwice
  BY <1>2 DEF Turns, NothingTwice
<1> QED BY <1>1, <1>2 DEF Steady

LEMMA FilledStep ==
  ASSUME DeskInv, NEW k \in Runs, NEW page \in {"add", "editor"}, NEW screen, Fills(page, screen), Ends(k),
         run[k].pc \notin Busy \cup {"addNotes", "removeDuplicateNotes"},
         UNCHANGED <<col, undos, ui, sock, desk, session>>
  PROVE  Pages' /\ Turns /\ Settled
<1>1. PICK s \in Sends({page}) : Put(s.got, screen) /\ missed' = (missed \/ ~s.ok)
  BY DEF Fills
<1>2. s.got \in SUBSET Seen({page}) /\ Seen({page}) = {t \in Tabs : tab[t].sock # 0 /\ tab[t].page = page}
  BY Reached, SeenTabs DEF DeskInv, Pages
<1>3. RunKeeps /\ Settled
  BY HandlerEnds DEF DeskInv, Pages
<1>4. Redraw
  <2>1. s.got \in SUBSET Tabs /\ \A t \in s.got : tab[t].page \notin {"deckbrowser", "overview", "browser", "reviewer"}
    BY <1>2
  <2>2. Put(s.got, screen) /\ (~missed' => ~missed)
    BY <1>1
  <2>3. Calm
    BY <1>3, SameRecords DEF Calm, DeskInv
  <2> QED BY <2>1, <2>2, <2>3 DEF Redraw
<1> QED BY <1>3, <1>4, RedrawStep, SameCollection DEF DeskInv, Untouched

LEMMA AddNoteStep ==
  ASSUME DeskInv, NEW k \in Sockets, AddNote(k), UNCHANGED session PROVE Steady
<1> DEFINE new == run[k].new
           next == [pc |-> "emptyform", type |-> new.type]
<1>1. run[k].pc = "addnote" /\ UNCHANGED <<ui, desk>> /\ k \in Runs /\ k # Connect /\ Records' /\ SameCards
  BY OfSockets, SameRecords DEF AddNote, DeskInv
<1>2. CASE Addable(col, new, FALSE)
  <2>1. Commits(With(col, new)) /\ \E s \in Sends(Contexts) :
               /\ Broadcasts("add", s)
               /\ run' = [run EXCEPT ![k] = IF s.ok THEN next ELSE Idle]
    BY <1>2 DEF AddNote
  <2>2. Collections' /\ col' = With(col, new) /\ NothingTwice
    BY <1>2, <2>1, OneMore DEF DeskInv
  <2>3. col' # col
    <3>1. Sound(col) /\ Unused(col) # {}
      BY <1>2 DEF Addable, DeskInv, Collections
    <3>2. PICK n \in Unused(col) : col'.notes = col.notes \cup {n}
      BY <2>2, <3>1, WithOne
    <3> QED BY <3>2, Unnumbered
  <2>4. PICK s \in Spreads(col') : Broadcasts("add", s) /\ run' = [run EXCEPT ![k] = IF s.ok THEN next ELSE Idle]
    BY <2>1, <2>3 DEF Spreads
  <2> HIDE DEF next
  <2>5. PICK h : run' = [run EXCEPT ![k] = h]
    BY <2>4
  <2>6. Pages' /\ Settled
    <3>1. run[k].pc \notin Busy /\ \E x \in Spreads(col') : Broadcasts("add", x)
      BY <1>1, <2>4 DEF Busy
    <3> QED BY <1>1, <2>5, <3>1, ToldByOthers
  <2> QED BY <2>2, <2>6, SteadyIf
<1>3. CASE ~Addable(col, new, FALSE)
  <2>1. run' = [run EXCEPT ![k] = Idle] /\ UNCHANGED <<col, undos, tab, sock, missed>>
    BY <1>3 DEF AddNote, Ends
  <2> QED BY <1>1, <2>1, Rested, SteadyIf DEF Busy
<1> QED BY <1>2, <1>3

LEMMA SaveNoteStep ==
  ASSUME DeskInv, NEW k \in Sockets, SaveNote(k), UNCHANGED session PROVE Pages' /\ Turns /\ Settled
<1>1. /\ run[k].pc \in {"save", "tags"} /\ run' = [run EXCEPT ![k] = Idle] /\ UNCHANGED <<ui, desk>>
      /\ k \in Runs /\ k # Connect /\ Records' /\ SameCards
  BY OfSockets, SameRecords DEF SaveNote, DeskInv, Ends
<1>2. PICK note :
        IF run[k].nid \notin col.notes THEN UNCHANGED <<col, undos, tab, sock, missed>>
        ELSE /\ Edits(run[k].nid, note)
             /\ \/ \E s \in Spreads(Edit(run[k].nid, note)) : Broadcasts("editor", s)
                \/ UNCHANGED <<tab, sock, missed>>
  BY DEF SaveNote
<1>3. CASE run[k].nid \notin col.notes
  BY <1>1, <1>2, <1>3, Rested DEF Busy
<1>4. CASE run[k].nid \in col.notes
  <2>1. Turns /\ col' = Edit(run[k].nid, note) /\ Alike(col, col')
    BY <1>2, <1>4, NoteEdited DEF DeskInv
  <2>2. CASE UNCHANGED <<tab, sock, missed>>
    BY <1>1, <2>1, <2>2, UntoldStep DEF Busy
  <2>3. CASE \E s \in Spreads(col') : Broadcasts("editor", s)
    <3>1. run[k].pc \notin Busy
      BY <1>1 DEF Busy
    <3>2. Pages' /\ Settled
      BY <1>1, <2>3, <3>1, ToldByOthers
    <3> QED BY <2>1, <3>2
  <2> QED BY <1>2, <1>4, <2>1, <2>2, <2>3
<1> QED BY <1>3, <1>4

LEMMA UpdateFieldsStep ==
  ASSUME DeskInv, UpdateFields, UNCHANGED session PROVE Pages' /\ Turns /\ Settled
<1> DEFINE n == run[Connect].nid
           note == Retyped(n, run[Connect].new.text)
           next == [pc |-> "updateTags", nid |-> n, new |-> run[Connect].new]
<1>1. /\ run[Connect].pc = "updateNote" /\ UNCHANGED <<ui, desk>> /\ Connect \in Runs /\ Records' /\ SameCards
      /\ Idle.pc = "idle" /\ next.pc = "updateTags"
  BY SameRecords DEF UpdateFields, DeskInv, Runs, Idle
<1>2. CASE n \notin col.notes
  <2>1. run' = [run EXCEPT ![Connect] = Idle] /\ UNCHANGED <<col, undos, tab, sock, missed>>
    BY <1>2 DEF UpdateFields, Ends, Quietly
  <2> QED BY <1>1, <2>1, Rested DEF Busy
<1>3. CASE n \in col.notes
  <2>1. /\ Edits(n, note)
        /\ \E s \in Spreads(Edit(n, note)) :
             /\ Broadcasts("ankiconnect", s)
             /\ run' = [run EXCEPT ![Connect] = next] \/ run' = [run EXCEPT ![Connect] = Idle]
    BY <1>3 DEF UpdateFields, Ends
  <2> HIDE DEF note, next
  <2>2. Turns /\ col' = Edit(n, note)
    BY <2>1, NoteEdited DEF DeskInv
  <2>3. PICK s \in Spreads(col') :
          /\ Broadcasts("ankiconnect", s)
          /\ run' = [run EXCEPT ![Connect] = next] \/ run' = [run EXCEPT ![Connect] = Idle]
    BY <2>1, <2>2
  <2>4. PICK h \in {next, Idle} : run' = [run EXCEPT ![Connect] = h]
    BY <2>3
  <2>5. h.pc \notin {"cards", "raw", "addNotes"}
    BY <1>1, <2>4
  <2>6. /\ run[Connect].pc \notin Busy \cup {"addNotes", "removeDuplicateNotes"}
        /\ \E x \in Spreads(col') : Broadcasts("ankiconnect", x)
    BY <1>1, <2>3 DEF Busy
  <2>7. Pages' /\ Settled
    BY <1>1, <2>4, <2>5, <2>6, ToldByOthers
  <2> QED BY <2>2, <2>7
<1> QED BY <1>2, <1>3

LEMMA ReplaceTagsStep ==
  ASSUME DeskInv, ReplaceTags, UNCHANGED session PROVE Pages' /\ Turns /\ Settled
<1>1. /\ run[Connect].pc = "replaceTags" /\ run' = [run EXCEPT ![Connect] = Idle]
      /\ UNCHANGED <<ui, desk, tab, sock, missed>> /\ Connect \in Runs /\ Records' /\ SameCards
      /\ Idle.pc = "idle"
  BY SameRecords DEF ReplaceTags, Ends, Quietly, DeskInv, Runs, Idle
<1>2. PICK ns \in SUBSET run[Connect].notes : Commits(Replaced(col, ns))
  BY DEF ReplaceTags
<1> DEFINE d == Tagged(col, {n \in ns : "tag" \in col.note[n].tags}, "marked", TRUE)
           e == Tagged(d, ns, "tag", FALSE)
<1>3. Shrinks(col, d) /\ Sound(d) /\ Sound(col)
  BY Jobs1 DEF DeskInv, Collections, Shrinks
<1>4. d.notes = col.notes /\ d.due = col.due /\ d.home = col.home /\ d.cur = col.cur /\ d.marks = col.marks
  BY <1>3 DEF Tagged, Sound
<1>5. e = Replaced(col, ns)
  BY DEF Replaced
<1> HIDE DEF d
<1>6. Shrinks(d, e)
  BY <1>3, Jobs1
<1>7. e.notes = d.notes /\ e.due = d.due /\ e.home = d.home /\ e.cur = d.cur /\ e.marks = d.marks
  BY <1>3 DEF Tagged, Sound
<1> HIDE DEF e
<1>8. Turns /\ col' = e
  BY <1>2, <1>3, <1>5, <1>6, Together, Committed DEF DeskInv, Commits
<1>9. Alike(col, col')
  BY <1>4, <1>7, <1>8, AlikeIf
<1> QED BY <1>1, <1>8, <1>9, UntoldStep DEF Busy

LEMMA NoteFormsSteps == DeskInv /\ NoteFormsNext /\ UNCHANGED session => Steady
<1> SUFFICES ASSUME DeskInv, NoteFormsNext, UNCHANGED session PROVE Steady
  OBVIOUS
<1>0. Idle.pc = "idle" /\ \A k \in Sockets : k \in Runs /\ k # Connect
  BY OfSockets DEF Idle
<1>1. ASSUME NEW t \in Tabs, UseAdd(t) \/ UseEditor(t) PROVE Steady
  <2>1. PICK c : Commands(t, c)
    BY <1>1 DEF UseAdd, UseEditor
  <2> QED BY <2>1, CommandGiven, SteadyIf
<1>2. ASSUME NEW t \in Tabs, NEW k \in Sockets, OpenAdd(t, k) \/ OpenEditor(t, k) PROVE Steady
  <2>1. tab[t].page \in {"add", "editor"} /\ \E c : Opens(t, k, <<c>>)
    BY <1>2 DEF OpenAdd, OpenEditor
  <2>2. PICK c : Opens(t, k, <<c>>)
    BY <2>1
  <2>3. IsSeq(<<c>>)
    BY Few
  <2> HIDE DEF IsSeq
  <2>4. Open(t, k, <<c>>)
    BY <2>1, <2>2, <2>3 DEF Open
  <2> QED BY <2>4, PageOpened, SteadyIf
<1>3. ASSUME NEW k \in Sockets, AddReads(k) \/ EditorReads(k) PROVE Steady
  <2>1. PICK page \in {"add", "editor"} : Reads(k, page) /\ \E h : Starts(k, h)
    BY <1>3 DEF AddReads, EditorReads
  <2>2. PICK h : Starts(k, h)
    BY <2>1
  <2>3. UNCHANGED <<col, undos, tab, desk, missed, session>> /\ page # "browser" /\ page # "reviewer"
    BY <1>3 DEF AddReads, EditorReads
  <2> QED BY <2>1, <2>2, <2>3, CommandRead, SteadyIf
<1>4. ASSUME NEW k \in Runs, AddReady(k) \/ FillForm(k) PROVE Steady
  <2>1. /\ run[k].pc \in {"addReady", "emptyform"} /\ Ends(k)
        /\ UNCHANGED <<col, undos, ui, sock, desk, session>> /\ \E screen : Fills("add", screen)
    BY <1>4 DEF AddReady, FillForm
  <2>2. PICK screen : Fills("add", screen)
    BY <2>1
  <2>3. run[k].pc \notin Busy \cup {"addNotes", "removeDuplicateNotes"}
    BY <2>1 DEF Busy
  <2> QED BY <2>1, <2>2, <2>3, FilledStep, SteadyIf
<1>5. ASSUME NEW k \in Sockets, LoadNote(k) PROVE Steady
  <2>1. run[k].pc = "loadnote" /\ Ends(k) /\ UNCHANGED <<col, undos, ui, sock, desk, session>>
    BY <1>5 DEF LoadNote
  <2>2. CASE Fills("editor", Editing(run[k].nid))
    <3>1. run[k].pc \notin Busy \cup {"addNotes", "removeDuplicateNotes"}
      BY <2>1 DEF Busy
    <3> QED BY <1>0, <2>1, <2>2, <3>1, FilledStep, SteadyIf
  <2>3. CASE UNCHANGED <<tab, missed>>
    <3>1. run' = [run EXCEPT ![k] = Idle] /\ Records' /\ SameCards /\ run[k].pc \notin Busy
      BY <2>1, SameRecords DEF Ends, Busy, DeskInv
    <3> QED BY <1>0, <2>1, <2>3, <3>1, Rested, SteadyIf
  <2> QED BY <1>5, <2>2, <2>3 DEF LoadNote
<1>6. CASE NoteRequest
  <2>1. UNCHANGED <<col, undos, ui, tab, sock, desk, missed, session>> /\ \E kinds : Request(kinds)
    BY <1>6 DEF NoteRequest
  <2>2. PICK kinds : Request(kinds)
    BY <2>1
  <2> QED BY <2>1, <2>2, RequestStep, SteadyIf
<1>7. CASE AddNotes
  <2>1. run[Connect].pc = "addNotes"
    BY <1>7 DEF AddNotes
  <2> QED BY <1>7, <2>1, AddNotesStep DEF Steady, AllOrNone, OldestKept
<1>8. CASE NoteJob
  BY <1>8, NoteJobStep DEF Steady, AllOrNone, OldestKept, Turns, NothingTwice
<1>9. ASSUME NEW k \in Sockets, AddNote(k) \/ SaveNote(k) PROVE Steady
  BY <1>9, AddNoteStep, SaveNoteStep, SteadyIf
<1>10. CASE UpdateFields \/ ReplaceTags
  BY <1>10, UpdateFieldsStep, ReplaceTagsStep, SteadyIf
<1> QED BY <1>0, <1>1, <1>2, <1>3, <1>4, <1>5, <1>6, <1>7, <1>8, <1>9, <1>10 DEF NoteFormsNext, Runs

---------------------------------------------------------------------------
(* The calls of Anki's own pages.                                            *)
LEMMA RawResultsAreSound ==
  ASSUME Sound(col), NEW h, h.do \in {"import", "options"}, NEW c \in RawResults(h) PROVE Sound(c)
<1>1. CASE c = col
  BY <1>1
<1>2. CASE h.do = "import" /\ c # col
  <2>1. \/ Unused(col) # {} /\ c = With(col, h.new)
        \/ \E n : c = Edit(n, h.new)
    BY <1>2 DEF RawResults
  <2>2. \A n : Sound(Edit(n, h.new))
    BY Edited DEF Edit, Shrinks
  <2> QED BY <2>1, <2>2, WithOne
<1>3. CASE h.do = "options" /\ c # col
  <2>1. PICK xs \in SUBSET Live(col, Cards) : c = [col EXCEPT !.due = xs]
    BY <1>3 DEF RawResults
  <2>2. xs \subseteq CardsOf(col.notes)
    BY LiveCards
  <2> QED BY <2>1, <2>2, DueOnly DEF Shrinks
<1> QED BY <1>1, <1>2, <1>3

LEMMA ConvertedNotes == ASSUME Sound(col), NEW h PROVE Shrinks(col, Converted(h))
<1>1. CASE ~Convertible(h)
  BY <1>1 DEF Converted, Shrinks
<1>2. CASE Convertible(h)
  <2> DEFINE note == [n \in Notes |-> IF n \in h.notes THEN [col.note[n] EXCEPT !.type = h.to] ELSE col.note[n]]
  <2>1. Converted(h) = [col EXCEPT !.note = note]
    BY <1>2 DEF Converted
  <2>2. note = [n \in Notes |-> note[n]]
    OBVIOUS
  <2> HIDE DEF note
  <2>3. Converted(h) = [notes |-> col.notes, due |-> col.due, ver |-> col.ver, marks |-> col.marks,
                        home |-> col.home, cur |-> col.cur, note |-> note]
    BY <2>1 DEF Sound
  <2> QED BY <2>2, <2>3, Pieces DEF Sound
<1> QED BY <1>1, <1>2

LEMMA RawCallsSteps == DeskInv /\ RawCallsNext /\ UNCHANGED session => Steady
<1> SUFFICES ASSUME DeskInv, RawCallsNext, UNCHANGED session PROVE Steady
  OBVIOUS
<1>0. Connect \in Runs /\ Sound(col)
  BY DEF Runs, DeskInv, Collections
<1>1. CASE AskRaw
  <2>1. PICK r \in desk.asks : /\ Asks(r)
                               /\ run' = [run EXCEPT ![Connect] =
                                    IF r.pc = "allOfType" /\ ui.notes # {} THEN Chosen(r, ui.notes) ELSE r]
    BY <1>1 DEF AskRaw
  <2>2. PICK h \in {Chosen(r, ui.notes), r} : run' = [run EXCEPT ![Connect] = h]
    BY <2>1
  <2>3. h.pc \in {"cards", "raw", "addNotes"} => h \in desk.asks
    BY <2>2 DEF Chosen
  <2>4. /\ UNCHANGED <<col, undos, tab, sock, desk, missed>> /\ Records' /\ SameCards
        /\ run[Connect].pc \notin Busy \cup {"addNotes", "removeDuplicateNotes"}
    BY <1>1, <2>1, SameRecords DEF AskRaw, Asks, Busy, DeskInv
  <2> QED BY <1>0, <2>2, <2>3, <2>4, Rested, SteadyIf
<1>2. CASE AllOfType
  <2> DEFINE h == Chosen(run[Connect], {n \in col.notes : col.note[n].type = run[Connect].from})
  <2>1. run' = [run EXCEPT ![Connect] = h]
    BY <1>2 DEF AllOfType
  <2>2. h.pc \notin {"cards", "raw", "addNotes"}
    BY DEF Chosen
  <2> HIDE DEF h
  <2>3. /\ UNCHANGED <<col, undos, tab, sock, desk, missed>> /\ Records' /\ SameCards
        /\ run[Connect].pc \notin Busy \cup {"addNotes", "removeDuplicateNotes"}
    BY <1>2, SameRecords DEF AllOfType, Busy, DeskInv
  <2> QED BY <1>0, <2>1, <2>2, <2>3, Rested, SteadyIf
<1>3. CASE ChangeNotetype
  <2> DEFINE c == Converted(run[Connect])
  <2>1. Commits(c) /\ Tells(c) /\ Ends(Connect) /\ UNCHANGED <<ui, desk>> /\ run[Connect].pc = "changeNotetype"
    BY <1>3 DEF ChangeNotetype
  <2>2. Shrinks(col, c)
    BY <1>0, ConvertedNotes
  <2> HIDE DEF c
  <2>3. Turns /\ col' = c
    BY <2>1, <2>2, Committed DEF Commits, DeskInv
  <2>4. Calm /\ Asked'
    BY <2>1, ConnectEnds DEF Busy
  <2>5. Pages'
    BY <2>1, <2>3, <2>4, Answers
  <2> QED BY <2>1, <2>3, <2>4, <2>5 DEF Steady, AllOrNone, OldestKept, Turns, NothingTwice
<1>4. CASE RawCall
  <2>1. PICK c \in RawResults(run[Connect]) : Commits(c) /\ Tells(c)
    BY <1>4 DEF RawCall
  <2>2. Ends(Connect) /\ UNCHANGED <<ui, desk>> /\ run[Connect].pc = "raw"
    BY <1>4 DEF RawCall
  <2>3. run[Connect].do \in {"import", "options"}
    BY <2>2, DesksAssumption DEF DeskInv, Asked
  <2>4. Collections' /\ col' = c
    BY <1>0, <2>1, <2>3, RawResultsAreSound, Stacked DEF DeskInv
  <2>5. Calm /\ Asked'
    BY <2>2, ConnectEnds DEF Busy
  <2>6. Pages'
    BY <2>1, <2>4, <2>5, Answers
  <2> QED BY <2>2, <2>4, <2>5, <2>6 DEF Steady, AllOrNone, OldestKept, NothingTwice, Wanted
<1> QED BY <1>1, <1>2, <1>3, <1>4 DEF RawCallsNext

---------------------------------------------------------------------------
(* Every step of every desk.                                                 *)
LEMMA InitialDesk == Init => DeskInv
<1> SUFFICES ASSUME Init PROVE DeskInv
  OBVIOUS
<1>1. PICK d \in Desks : desk = d /\ tab = [t \in Tabs |-> Away(d.pages[t])] /\ col = d.col
  BY DEF Init, DeskInit
<1>2. /\ undos = <<>> /\ sock = [k \in Sockets |-> Free] /\ run = [k \in Runs |-> Idle]
      /\ session = NoCard
      /\ ui = [screen |-> Elsewhere, card |-> 0, side |-> "none", query |-> "none",
               browsing |-> FALSE, cards |-> {}, notes |-> {}]
  BY DEF Init, DeskInit, ReviewerInit, Runs
<1>3. \A t \in Tabs : TabShape(tab[t]) /\ tab[t].sock = 0 /\ tab[t].shows = Blank
  BY <1>1 DEF TabShape, Away
<1>4. SockShape(Free)
  BY Few DEF Free, SockShape
<1>5. Shapes
  <2>1. tab = [t \in Tabs |-> tab[t]] /\ sock = [k \in Sockets |-> sock[k]] /\ run = [k \in Runs |-> run[k]]
    BY <1>1, <1>2
  <2> QED BY <1>2, <1>3, <1>4, <2>1 DEF Shapes
<1>6. Records
  BY <1>2 DEF Records, NoCard
<1>7. Linked
  BY <1>2, <1>3 DEF Linked
<1>8. Heard
  BY <1>3 DEF Heard, Hears, ShowsIt
<1>9. Collections
  BY <1>1, <1>2, Few, DesksAssumption DEF Collections
<1>10. Asked
  <2>1. run[Connect] = Idle
    BY <1>2 DEF Runs
  <2> QED BY <1>1, <2>1 DEF Asked, Idle
<1> QED BY <1>5, <1>6, <1>7, <1>8, <1>9, <1>10 DEF DeskInv, Pages

LEMMA NothingHere ==
  DeskInv /\ UNCHANGED <<col, undos, ui, tab, sock, run, desk, missed, session>> => Steady
<1> SUFFICES ASSUME DeskInv, UNCHANGED <<col, undos, ui, tab, sock, run, desk, missed, session>> PROVE Steady
  OBVIOUS
<1>1. RunKeeps /\ Settled
  BY HandlersRest DEF DeskInv, Pages
<1>2. Alike(col, col')
  BY AlikeIf
<1>3. Pages'
  BY <1>1, <1>2, SameRecords, StillStep DEF Still, Calm, DeskInv
<1> QED BY <1>1, <1>3, SameCollection, SteadyIf DEF DeskInv, Untouched

LEMMA EveryStep == DeskInv /\ [Next]_Vars => Steady
<1> SUFFICES ASSUME DeskInv, [Next]_Vars PROVE Steady
  OBVIOUS
<1>1. CASE ReviewerNext
  BY <1>1, ReviewerSteps, SteadyIf
<1>2. CASE NoteFormsNext /\ UNCHANGED session
  BY <1>2, NoteFormsSteps
<1>3. CASE RawCallsNext /\ UNCHANGED session
  BY <1>3, RawCallsSteps
<1>4. CASE DeckScreensNext /\ UNCHANGED session
  BY <1>4, DeckScreensSteps, SteadyIf
<1>5. CASE UNCHANGED <<col, undos, ui, tab, sock, run, desk, missed, session>>
  BY <1>5, NothingHere
<1>6. CASE BrowserNext /\ UNCHANGED session
  BY <1>6, BrowserSteps, SteadyIf
<1>7. CASE CardActionsNext /\ UNCHANGED session
  BY <1>7, CardActionsSteps, SteadyIf
<1>8. CASE Others /\ UNCHANGED session
  BY <1>8, OthersSteps, SteadyIf
<1>9. CASE UNCHANGED Vars
  BY <1>5, <1>9 DEF Vars, deskVars
<1> QED BY <1>1, <1>2, <1>3, <1>4, <1>5, <1>6, <1>7, <1>8, <1>9 DEF Next, Others

(* The state has its shapes; pages and sockets belong together; while nothing*)
(* was missed, each page shows what it should or will be drawn or loaded     *)
(* again; the collection and all it can go back to are sound.                *)
THEOREM DeskInvariant == Spec => []DeskInv
<1>1. DeskInv /\ [Next]_Vars => DeskInv'
  BY EveryStep DEF Steady, DeskInv
<1> QED BY <1>1, InitialDesk, PTL DEF Spec

LEMMA NothingAwaited == ASSUME DeskInv, AtRest PROVE \A page : ~Awaited(page)
<1>1. \A k \in Runs : run[k].pc = "idle"
  BY DEF AtRest, DeskInv, Pages, Shapes
<1>2. \A k \in Sockets : \A cmds : ~Holds(sock[k].box, cmds)
  BY Few DEF AtRest
<1> QED BY <1>1, <1>2 DEF Awaited, Draws, Sent

LEMMA PagesAtRest == ASSUME DeskInv, AtRest, ~missed, NEW t \in Tabs PROVE ShowsIt(tab[t])
BY NothingAwaited DEF DeskInv, Pages, Heard, Hears

(* Once every command is handled and every page has loaded, each reviewer    *)
(* page shows the card in flight, which AnkiConnect's mirror has too and     *)
(* which the collection has next, unless a change was not told.              *)
(* (reviewer.py:227-242, hub.py:28-41)                                       *)
THEOREM ReviewersShowIt == Spec => []ReviewersShowTheNextCard
<1>1. DeskInv => ReviewersShowTheNextCard
  BY PagesAtRest DEF ReviewersShowTheNextCard, Seen, ShowsIt
<1> QED BY <1>1, DeskInvariant, PTL

(* ... the rows of each browser page are what its search finds now ...       *)
(* (browser.py:165-199, bootstrap.ts:83-95)                                  *)
THEOREM BrowsersShowIt == Spec => []RowsAreCurrent
<1>1. DeskInv => RowsAreCurrent
  BY PagesAtRest DEF RowsAreCurrent, Seen, ShowsIt
<1> QED BY <1>1, DeskInvariant, PTL

(* ... and the list of decks and the overview show the collection as it is.  *)
(* (deckbrowser.py:39-103, overview.py:7-70, bootstrap.ts:83-95)             *)
THEOREM DeckPagesShowIt == Spec => []DeckPagesAreCurrent
<1>1. DeskInv => DeckPagesAreCurrent
  BY PagesAtRest DEF DeckPagesAreCurrent, Seen, ShowsIt
<1> QED BY <1>1, DeskInvariant, PTL

(* A note that is added has no twin among the others, other than by an undo, *)
(* by an import or as a duplicate that was asked for.                        *)
(* (add.py:129-154, _helpers.py:38-45)                                       *)
THEOREM NewNotesHaveNoTwins == Spec => NewNotesAreNew
<1>1. DeskInv /\ [Next]_Vars => [NothingTwice]_col
  BY EveryStep DEF Steady
<1> QED BY <1>1, DeskInvariant, PTL DEF Spec, NewNotesAreNew, NothingTwice

(* addNotes adds all of its notes, or none.                                  *)
(* (ankiconnect/actions/notes.py:61-89)                                      *)
THEOREM NotesTogether == Spec => AllOrNothing
<1>1. DeskInv /\ [Next]_Vars => [AllOrNone]_run
  BY EveryStep DEF Steady
<1> QED BY <1>1, DeskInvariant, PTL DEF Spec, AllOrNothing, AllOrNone

(* removeDuplicateNotes deletes no note without leaving an older twin of it, *)
(* and leaves no twins but empty notes.  (extra_actions/notes.py:19-69)      *)
THEOREM OldestNotesStay == Spec => TheOldestStays
<1>1. DeskInv /\ [Next]_Vars => [OldestKept]_run
  BY EveryStep DEF Steady
<1> QED BY <1>1, DeskInvariant, PTL DEF Spec, TheOldestStays, OldestKept, OldestStay
=============================================================================
