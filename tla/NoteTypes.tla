----------------------------- MODULE NoteTypes ------------------------------
(* The note types of the collection, and the jobs that change them: the      *)
(* screens for their fields and their card templates, the list of note       *)
(* types, and the AnkiConnect actions on models.                             *)
(*                                                                           *)
(* A job asks col.models for a type and gets the dictionary it keeps of it,  *)
(* which the code changes in place; update_dict then drops the dictionary    *)
(* and writes it.  What a job leaves in the dictionary without update_dict   *)
(* is there for the next one, and for the next page that is rendered.        *)
EXTENDS Naturals, Sequences, FiniteSets, SequencesExt

CONSTANTS
  Models,       \* note types that exist or may be created
  Titles,       \* what a field or a template can be called, without "+" after it
  Looks,        \* what else a form says of it: its font, or its formats
  Sheets,       \* pages with a form
  MaxItems      \* BOUND: fields or templates of a type, and rows of a form

ASSUME ItemsAssumption == MaxItems \in Nat

VARIABLES
  models,       \* the stored types: None, or fields, templates and head (name, styling);
                \* "data" is what the notes have in a field, or the cards of a
                \* template (0: nothing yet)
  cached,       \* the dictionaries that col.models keeps, or None
  earlier,      \* the stored types before each job, for undo
  sheet,        \* the form of a page, as it was rendered
  doomed,       \* the types that pages are about to delete, found not to be the last
  races,        \* history: another type was deleted before the one of a page was
  strayed       \* history: types of which a form that was out of date failed half way

typeVars == <<models, cached, earlier, sheet, doomed, races, strayed>>

None == [none |-> TRUE]
Lists == {"flds", "tmpls"}
Item(name, look, data) == [name |-> name, look |-> look, data |-> data]
Dict(d) == d = [flds |-> d.flds, tmpls |-> d.tmpls, head |-> d.head]
Whole(types) ==                     \* a state of the store
  types = [m \in Models |-> types[m]] /\ \A m \in Models : types[m] = None \/ Dict(types[m])
Proper(list) ==                     \* what Anki stores of a list: each item has its own data
  /\ list \in Seq({list[i] : i \in DOMAIN list})
  /\ \A i \in DOMAIN list :
       /\ list[i] = Item(list[i].name, list[i].look, list[i].data) /\ list[i].data \in Nat \ {0}
       /\ \A j \in DOMAIN list : list[i].data = list[j].data => i = j
There == {m \in Models : models[m] # None}
Got(m) == IF cached[m] # None THEN cached[m] ELSE models[m]        \* col.models.get
Least(S) == CHOOSE x \in S : \A y \in S : x <= y
Ascending(S) ==                     \* the numbers of a set, in order
  CHOOSE s \in [1..Cardinality(S) -> S] : \A i, j \in DOMAIN s : i < j => s[i] < s[j]
Named(list, name) == {i \in DOMAIN list : list[i].name = name}

(* Anki appends "+" to a name that is taken, and gives new items their data. *)
Numbered(list, i, before) ==
  LET x == list[i]
      k == Least({j \in x.name[2]..(x.name[2] + Len(list)) :
                    \A y \in ToSet(before) : y.name # <<x.name[1], j>>})
      d == Least({e \in 1..(i + Len(list)) :
                    \A y \in ToSet(before) \cup ToSet(list) : y.data # e})
  IN  Item(<<x.name[1], k>>, x.look, IF x.data = 0 THEN d ELSE x.data)
Written(list) ==
  LET done[i \in 0..Len(list)] ==
        IF i = 0 THEN <<>> ELSE Append(done[i - 1], Numbered(list, i, done[i - 1]))
  IN  done[Len(list)]

AsWritten(d) == [flds |-> Written(d.flds), tmpls |-> Written(d.tmpls), head |-> d.head]

(* update_dict: the dictionary is dropped, then written, if Anki takes it    *)
(* (it wants a field and a template, and templates that show a field).       *)
Update(m, d) ==
  /\ cached' = [cached EXCEPT ![m] = None]
  /\ strayed' = strayed \ {m}
  /\ \/ /\ d.flds # <<>> /\ d.tmpls # <<>>
        /\ models' = [models EXCEPT ![m] = AsWritten(d)]
        /\ earlier' = IF models' = models THEN earlier ELSE Append(earlier, models)
     \/ UNCHANGED <<models, earlier>>
  /\ UNCHANGED <<doomed, races, sheet>>
Leave(m, d) ==                      \* an exception before update_dict
  /\ cached' = [cached EXCEPT ![m] = d]
  /\ UNCHANGED <<models, earlier, doomed, races, sheet>>

(* ---- the pages with a form ---- *)
(* A row names the place its item had in the type (orig, 0 if it is new).    *)
Row(orig, name, look) == [orig |-> orig, name |-> name, look |-> look]
Place(m, l, x) ==                   \* "ord"
  Least({i \in DOMAIN models[m][l] : models[m][l][i].data = x.data})

FormRows(m, l) ==
  [i \in DOMAIN Got(m)[l] |->
     LET x == Got(m)[l][i] IN Row(Place(m, l, x), x.name, x.look)]

Render(p, m, l) ==
  /\ m \in There
  /\ cached' = [cached EXCEPT ![m] = Got(m)]
  /\ sheet' = [sheet EXCEPT ![p] =
       [of |-> m, list |-> l, head |-> Got(m).head, base |-> Got(m)[l], rows |-> FormRows(m, l)]]
  /\ UNCHANGED <<models, earlier, doomed, races, strayed>>

(* What a user can make of the form with its buttons: rows deleted, moved,   *)
(* renamed and added.  BOUND: the names on it, and all rows made look alike. *)
Name(t) == <<t, 0>>
Arranged(rows) ==
  UNION {{s \in [1..n -> DOMAIN rows \cup {0}] :
            \A i, j \in 1..n : i # j => s[i] # s[j] \/ s[i] = 0} : n \in 0..MaxItems}
Filled(rows) ==
  UNION {{[i \in DOMAIN s |-> IF s[i] = 0 THEN Row(0, Name(t[i]), look)
                              ELSE Row(rows[s[i]].orig, Name(t[i]), look)]
          : t \in [DOMAIN s -> Titles], look \in Looks} : s \in Arranged(rows)}

(* The job of a save, on the dictionary it gets: the items without a row are *)
(* removed, those with one renamed, new ones appended, and all put in order  *)
(* by name.  A row whose item is not there any more stops it half way.       *)
Known(m, l, list, orig) == \E i \in DOMAIN list : Place(m, l, list[i]) = orig
Kept(m, l, list, rows) ==
  LET at == Ascending({i \in DOMAIN list : Place(m, l, list[i]) \in {rows[j].orig : j \in DOMAIN rows}})
  IN  [j \in DOMAIN at |-> list[at[j]]]
Renamed(m, l, list, rows) ==
  LET kept == Kept(m, l, list, rows)
      unknown == {i \in DOMAIN rows : rows[i].orig # 0 /\ ~Known(m, l, list, rows[i].orig)}
      done == {i \in DOMAIN rows : \A j \in unknown : i < j}
      rowsOf(x) == {i \in done : rows[i].orig = Place(m, l, x)}
      renamed(x, r) == [x EXCEPT !.name = r.name, !.look = IF l = "tmpls" THEN r.look ELSE @]
  IN  [ok |-> unknown = {},
       list |-> [j \in DOMAIN kept |-> IF rowsOf(kept[j]) = {} THEN kept[j]
                                       ELSE renamed(kept[j], rows[Least(rowsOf(kept[j]))])]]
Extended(list, rows) ==
  LET new == Ascending({i \in DOMAIN rows : rows[i].orig = 0})
  IN  list \o [j \in DOMAIN new |-> Item(rows[new[j]].name, rows[new[j]].look, 0)]
Moved(list, i, to) ==
  [k \in DOMAIN list |-> IF k = to THEN list[i]
                         ELSE IF to < k /\ k <= i THEN list[k - 1]
                         ELSE IF i <= k /\ k < to THEN list[k + 1] ELSE list[k]]
PlacedUnsought(l, list, row, i) ==                               \* mutant
  Moved([list EXCEPT ![i].look = row.look], Least(Named(list, row.name)), i)
Placed(l, list, row, i) ==
  LET j == Least(Named(list, row.name))
  IN  Moved(IF l = "flds" THEN [list EXCEPT ![j].look = row.look] ELSE list, j, i)
Ordered(l, list, rows) ==
  LET a[i \in 0..Len(rows)] == IF i = 0 THEN list ELSE Placed(l, a[i - 1], rows[i], i)
  IN  a[Len(rows)]

AtLeastOne(m, l, list, rows) ==
  rows # <<>> /\ (Kept(m, l, list, rows) # <<>> \/ \E i \in DOMAIN rows : rows[i].orig = 0)
Saved(m, l, list, rows) ==
  LET renamed == Renamed(m, l, list, rows)
  IN  IF ~AtLeastOne(m, l, list, rows) THEN [ok |-> FALSE, list |-> list]
      ELSE IF ~renamed.ok THEN renamed
      ELSE [ok |-> TRUE, list |-> Ordered(l, Extended(renamed.list, rows), rows)]

(* A form is up to date if it would be rendered alike now.  That the items   *)
(* look as they did is not enough: one that was rendered from a dictionary   *)
(* some other form had left changed names places that are not taken any more.*)
UpToDate(p) ==
  /\ sheet[p] # None /\ sheet[p].of \in There
  /\ sheet[p].base = Got(sheet[p].of)[sheet[p].list]
  /\ sheet[p].rows = FormRows(sheet[p].of, sheet[p].list)
Save(p) ==
  /\ sheet[p] # None /\ sheet[p].of \in There
  /\ LET m == sheet[p].of
         l == sheet[p].list
     IN  \E rows \in Filled(sheet[p].rows) :
           LET s == Saved(m, l, Got(m)[l], rows)
               d == [Got(m) EXCEPT ![l] = s.list]
           IN  IF s.ok THEN Update(m, IF l = "tmpls" THEN [d EXCEPT !.head = sheet[p].head] ELSE d)
               ELSE /\ Leave(m, d)
                    /\ strayed' = IF UpToDate(p) THEN strayed ELSE strayed \cup {m}

(* ---- the list of note types ---- *)
Rename(m, head) == m \in There /\ Update(m, [Got(m) EXCEPT !.head = head])

(* A copy of a type: a deep copy of its dictionary.                          *)
Create(n, d) ==
  /\ models' = [models EXCEPT ![n] = AsWritten(d)]
  /\ earlier' = Append(earlier, models)
  /\ UNCHANGED <<sheet, doomed, races, strayed>>
AddShallow(base, n, head) ==                                    \* mutant
  /\ base \in There /\ n \in Models \ There
  /\ cached' = [cached EXCEPT ![base] = [Got(base) EXCEPT !.head = head]]
  /\ Create(n, [Got(base) EXCEPT !.head = head])
Add(base, n, head) ==
  /\ base \in There /\ n \in Models \ There
  /\ cached' = [cached EXCEPT ![base] = Got(base)]
  /\ Create(n, [Got(base) EXCEPT !.head = head])

(* To delete a type: one job counts the types, another deletes it.           *)
AskDeleteUnguarded(m) ==                                        \* mutant
  /\ doomed' = doomed \cup {m}
  /\ UNCHANGED <<models, cached, earlier, sheet, races, strayed>>
AskDelete(m) ==
  /\ Cardinality(There) > 1 /\ doomed' = doomed \cup {m}
  /\ UNCHANGED <<models, cached, earlier, sheet, races, strayed>>
Gone(m) ==
  /\ m \in There
  /\ models' = [models EXCEPT ![m] = None] /\ cached' = [cached EXCEPT ![m] = None]
  /\ earlier' = Append(earlier, models)
  /\ strayed' = strayed \ {m}
  /\ races' = (races \/ doomed \ {m} # {})
  /\ UNCHANGED sheet
Delete(m) ==
  /\ m \in doomed /\ doomed' = doomed \ {m}
  /\ IF m \in There THEN Gone(m)
     ELSE UNCHANGED <<models, cached, earlier, sheet, races, strayed>>

(* ---- AnkiConnect ---- *)
CreateModel(n, head) ==
  /\ n \in Models \ There
  /\ Create(n, [flds |-> <<Item(Name("a"), "plain", 0)>>,
                tmpls |-> <<Item(Name("a"), "plain", 0)>>, head |-> head])
  /\ UNCHANGED cached
DeleteModel(m) ==                   \* of a type that no note uses
  /\ Cardinality(There) > 1 /\ Gone(m) /\ UNCHANGED doomed

(* What the actions make of a list: items are found by name; a template that *)
(* is added under a name that is there is written over.                      *)
Changes(l, list) ==
  LET at(n) == Least(Named(list, n))
      names == {list[i].name : i \in DOMAIN list}
      added(n, look) == IF l = "tmpls" /\ n \in names THEN [list EXCEPT ![at(n)].look = look]
                        ELSE Append(list, Item(n, look, 0))
  IN  {[list EXCEPT ![at(n)].look = look] : n \in names, look \in Looks}
      \cup {[i \in DOMAIN list |-> [list[i] EXCEPT !.look = look]] : look \in Looks}
      \cup {[list EXCEPT ![at(n)].name = Name(t)] : n \in names, t \in Titles}
      \cup {Moved(list, at(n), i) : n \in names, i \in DOMAIN list}
      \cup {RemoveAt(list, at(n)) : n \in names}
      \cup {added(Name(t), look) : t \in Titles, look \in Looks}
ModelAction(m, l) ==
  /\ m \in There
  /\ \E list \in Changes(l, Got(m)[l]) :
       Len(list) <= MaxItems /\ Update(m, [Got(m) EXCEPT ![l] = list])

(* Undo, of any screen: col.models drops all its dictionaries.               *)
UndoType ==
  /\ earlier # <<>>
  /\ models' = earlier[Len(earlier)] /\ earlier' = Front(earlier)
  /\ cached' = [m \in Models |-> None]
  /\ strayed' = {}
  /\ races' = (races \/ doomed # {})
  /\ UNCHANGED <<sheet, doomed>>

NoteTypesInit ==
  /\ cached = [m \in Models |-> None] /\ sheet = [p \in Sheets |-> None]
  /\ earlier = <<>> /\ doomed = {} /\ races = FALSE /\ strayed = {}

NoteTypesNext ==
  \/ \E m \in Models, l \in Lists :
       ModelAction(m, l) \/ \E p \in Sheets : Render(p, m, l)
  \/ \E p \in Sheets : Save(p)
  \/ \E m \in Models : AskDelete(m) \/ Delete(m) \/ DeleteModel(m)
  \/ \E m \in Models, head \in {"h", "i"} :
       Rename(m, head) \/ CreateModel(m, head) \/ \E n \in Models : Add(n, m, head)
  \/ UndoType

(* A form that is saved as it was rendered from the type, with a name of its *)
(* own in every row, makes the type what the form shows: items in its order  *)
(* with its names and looks, those kept with their data, the others new.     *)
(* (fields.py:127-172, card_layout.py:157-194)                               *)
FreshSaveIsExact ==
  \A p \in Sheets : UpToDate(p) =>
    LET m == sheet[p].of
        l == sheet[p].list
    IN  \A rows \in Filled(sheet[p].rows) :
          rows # <<>> /\ IsInjective([i \in DOMAIN rows |-> rows[i].name]) =>
            LET s == Saved(m, l, Got(m)[l], rows)
            IN  /\ s.ok /\ Len(s.list) = Len(rows)
                /\ \A i \in DOMAIN rows :
                     s.list[i] = Item(rows[i].name, rows[i].look,
                                      IF rows[i].orig = 0 THEN 0 ELSE models[m][l][rows[i].orig].data)

(* What col.models keeps of a type is what is stored, unless a form that was *)
(* out of date has failed on it: no other job leaves in the dictionary what  *)
(* it did not write.                                                         *)
CleanUnlessStale ==
  \A m \in Models \ strayed : cached[m] \in {None, models[m]}

(* "Never delete the only note type" (notetypes.py:121), unless another one  *)
(* was deleted since the page's guard, which is a job of its own.            *)
TheLastTypeStays ==
  [][models # models' /\ There' = {} => races]_models
=============================================================================
