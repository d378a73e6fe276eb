------------------------------- MODULE MCDesk -------------------------------
EXTENDS Screens

MCNoteOf == <<1, 1, 2, 3, 4>>
MCPlain == [x \in {"", "x", "<x>", "y"} |-> IF x = "<x>" THEN "x" ELSE x]

N(y, x) == [type |-> y, text |-> x, tags |-> {}]
C(notes) ==
  [notes |-> DOMAIN notes, due |-> CardsOf(DOMAIN notes), ver |-> [c \in Cards |-> 0], marks |-> {},
   home |-> [c \in Cards |-> 1], cur |-> 1,
   note |-> [n \in Notes |-> IF n \in DOMAIN notes THEN notes[n] ELSE N(1, "")]]
C3 == C(<<N(1, "x"), N(1, "y")>>)
D(pages, menu, asks, n, c) ==
  [pages |-> pages, site |-> {}, menu |-> menu, asks |-> asks, commands |-> n, col |-> c]
P(pcs) == {[pc |-> p] : p \in pcs}
Rev2 == <<"reviewer", "reviewer">>
Bro2 == <<"browser", "browser">>

ReviewDesks ==
  { D(Rev2, {"ans", "ease", "undo", "close"}, P({"show", "ans", "ease", "guiUndo"}), 3, C3),
    D(Rev2, OfCard \cup OnCard, {}, 2, C3),
    D(Rev2, {"decks", "edit", "cardinfo", "buryc"}, {[pc |-> "guiDeck", deck |-> d, page |-> "reviewer"] : d \in {1, 2}}, 2, C3),
    D(<<"reviewer", "browser">>, {"ans", "ease", "suspendc", "search", "select", "delete", "undo"}, {}, 3, C3) }
BrowseDesks ==
  LET browse(qs) == {[pc |-> "guiBrowse", query |-> q] : q \in qs}
      select(css) == {[pc |-> "select", cards |-> cs] : cs \in css}
  IN  { D(Bro2, {"search", "select"} \cup Clears, browse({"bad"}), 3, C3),
        D(Bro2, {"select", "changenotetype"} \cup Keeps, browse({"none"}) \cup select({{1}, {5}}), 3, C(<<N(1, "x")>>)),
        D(<<"reviewer", "browser">>, {},
          {[pc |-> "cards", do |-> d, cards |-> cs] :
             d \in {"suspend", "unsuspend", "seteasefactors", "setvalue", "forgetcards", "relearncards",
                    "answercards", "setduedate", "movecards", "deletedecks"}, cs \in {{}, {1, 3}}}, 1, C3) }
FormDesks ==
  { D(<<"add", "add">>, {"setnotetype", "saveTags", "addnote"}, {[pc |-> "emptyform", type |-> 2]}, 3, C3),
    D(<<"add", Elsewhere>>, {"addnote"},
      {[pc |-> "addNotes", new |-> <<N(1, x), N(1, y)>>, dup |-> b] : x, y \in {"", "<x>", "y"}, b \in BOOLEAN},
      2, C(<<N(1, "x")>>)),
    D(<<"editor", Elsewhere>>, {"load", "blur", "key", "saveTags"},
      {[pc |-> "updateNote", nid |-> n, new |-> N(1, "<x>")] : n \in {1, 3}}, 2, C3),
    D(<<"editor", Elsewhere>>, {"blur"},
      {[pc |-> p, notes |-> ns] : p \in {"addTags", "removeTags", "deleteNotes", "replaceTags"}, ns \in {{2, 3, 4}}}
      \cup P({"replaceTagsInAllNotes", "removeEmptyNotes", "removeDuplicateNotes"})
      \cup {[pc |-> "updateNoteModel", nid |-> 2, new |-> N(2, "")]},
      2, C(<<N(1, "x"), N(1, "<x>"), N(2, "x")>>)) }
RawDesks ==
  { D(<<"browser", Elsewhere>>, {"search", "select", "suspend"},
      {[pc |-> "allOfType", from |-> 1, to |-> 2]}, 3, C3),
    D(<<"browser", "reviewer">>, {},
      {[pc |-> "raw", do |-> "import", new |-> N(1, "<x>")], [pc |-> "raw", do |-> "options"]}, 1, C3) }
TypeDesks == {D(<<Elsewhere, Elsewhere>>, {"types"}, {}, 3, C3)}
Site(d, pages) == [d EXCEPT !.site = pages]
DeckDesks ==
  { Site(D(<<"deckbrowser", "overview">>, {"open", "decks", "study", "setdesc", "suspendc"},
           {[pc |-> "guiDeck", deck |-> 2, page |-> "overview"], [pc |-> "guiNavigate", page |-> "deckbrowser"]},
           2, C3),
         {"deckbrowser", "overview", "reviewer"}),
    Site(D(<<"deckbrowser", "overview">>, {"collapse", "create", "opts", "unbury"}, {}, 2, C3), {}),
    Site(D(<<"overview", "filtereddeck">>, {"submit", "cancel", "refresh", "empty", "studymore", "createfiltered"},
           {}, 2, C(<<N(1, "x")>>)),
         {"overview", "filtereddeck", "customstudy"}),
    Site(D(<<"overview", Elsewhere>>, {"submit", "refresh", "empty", "studymore", "opts"},
           {}, 3, [C(<<N(1, "x")>>) EXCEPT !.cur = Filtered, !.home = [c \in Cards |-> Filtered]]),
         {"overview", "filtereddeck", "customstudy"}),
    Site(D(<<"tools", "overview">>, {"checkdb", "emptycards", "emptycards_delete"},
           {[pc |-> "updateNote", nid |-> 2, new |-> N(1, x)] : x \in {"", "x"}}, 3,
           C(<<N(1, "x"), N(1, "")>>)), {}) }
MCDesks == DeckDesks \cup RawDesks \cup ReviewDesks \cup BrowseDesks \cup FormDesks \cup TypeDesks
MCModels ==
  [m \in Models |->
     IF m = 2 THEN [flds |-> <<Item(Name("a"), "plain", 1)>>, tmpls |-> <<Item(Name("a"), "plain", 1)>>,
                    head |-> "i"]
     ELSE [flds |-> <<Item(Name("a"), "plain", 1), Item(Name("b"), "plain", 2)>>,
           tmpls |-> <<Item(Name("a"), "plain", 1)>>, head |-> "h"]]
=============================================================================
