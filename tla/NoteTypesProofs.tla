--------------------------- MODULE NoteTypesProofs ---------------------------
(* What is true of the note types on every desk: their shape, what col.models *)
(* keeps of them, and that the last one is not deleted.                       *)
EXTENDS Screens, FiniteSetTheorems, FunctionTheorems, WellFoundedInduction, TLAPS

---------------------------------------------------------------------------
(* The inductive invariant.                                                  *)

(* The stored types, those before each job and what is kept are types or     *)
(* nothing.                                                                  *)
TypesAreWhole ==
  /\ Whole(models) /\ Whole(cached)
  /\ earlier \in Seq({earlier[i] : i \in DOMAIN earlier})
  /\ \A i \in DOMAIN earlier : Whole(earlier[i])

(* A form that has rows was rendered from a list of a type.                  *)
FormsNameLists == \A p \in Sheets : sheet[p] # None => sheet[p].list \in Lists

(* Unless a deletion overtook another one there is always a type, also after *)
(* an undo, and one besides each type that a page is about to delete.        *)
HasType(types) == \E m \in Models : types[m] # None
OneRemains ==
  ~races => /\ HasType(models)
            /\ \A i \in DOMAIN earlier : HasType(earlier[i])
            /\ \A m \in doomed : \E n \in Models : n # m /\ models[n] # None

TypesInv == TypesAreWhole /\ FormsNameLists /\ CleanUnlessStale /\ OneRemains

---------------------------------------------------------------------------
(* Types, sequences of them, and forms.                                      *)

LEMMA NoneIsNoDict == \A d : Dict(d) => d # None
<1> TAKE d
<1> SUFFICES ASSUME Dict(d), d = None PROVE FALSE
  OBVIOUS
<1>1. "none" \in DOMAIN None
  BY DEF None
<1>2. "none" \notin DOMAIN [flds |-> d.flds, tmpls |-> d.tmpls, head |-> d.head]
  OBVIOUS
<1> QED BY <1>1, <1>2 DEF Dict

(* One type of a state of the store may be replaced.                         *)
Swapped(f, m, d) == [f EXCEPT ![m] = d]

LEMMA WholeExcept ==
  ASSUME NEW f, Whole(f), NEW m \in Models, NEW d, d = None \/ Dict(d)
  PROVE  /\ Whole(Swapped(f, m, d)) /\ Swapped(f, m, d)[m] = d
         /\ \A n \in Models \ {m} : Swapped(f, m, d)[n] = f[n]
<1>1. f = [n \in Models |-> f[n]] /\ \A n \in Models : f[n] = None \/ Dict(f[n])
  BY DEF Whole
<1> DEFINE g == Swapped(f, m, d)
<1>2. g = [n \in Models |-> IF n = m THEN d ELSE f[n]]
  BY <1>1 DEF Swapped
<1> HIDE DEF g
<1>3. g = [n \in Models |-> g[n]]
  BY <1>2
<1>4. \A n \in Models : g[n] = IF n = m THEN d ELSE f[n]
  BY <1>2
<1>5. \A n \in Models : g[n] = None \/ Dict(g[n])
  <2> TAKE n \in Models
  <2>1. CASE n = m
    BY <1>4, <2>1
  <2>2. CASE n # m
    BY <1>1, <1>4, <2>2
  <2> QED BY <2>1, <2>2
<1>6. Whole(g)
  BY <1>3, <1>5 DEF Whole
<1> QED BY <1>4, <1>6 DEF g

LEMMA ModelsExcept ==
  ASSUME Whole(models), NEW m \in Models, NEW d, d = None \/ Dict(d), models' = [models EXCEPT ![m] = d]
  PROVE  Whole(models') /\ models'[m] = d /\ \A n \in Models \ {m} : models'[n] = models[n]
<1>1. models' = Swapped(models, m, d)
  BY DEF Swapped
<1>2. Whole(models) /\ m \in Models /\ (d = None \/ Dict(d))
  OBVIOUS
<1> QED BY ONLY <1>1, <1>2, WholeExcept

LEMMA CachedExcept ==
  ASSUME Whole(cached), NEW m \in Models, NEW d, d = None \/ Dict(d), cached' = [cached EXCEPT ![m] = d]
  PROVE  Whole(cached') /\ cached'[m] = d /\ \A n \in Models \ {m} : cached'[n] = cached[n]
<1>1. cached' = Swapped(cached, m, d)
  BY DEF Swapped
<1>2. Whole(cached) /\ m \in Models /\ (d = None \/ Dict(d))
  OBVIOUS
<1> QED BY ONLY <1>1, <1>2, WholeExcept

LEMMA NothingIsWhole == Whole([m \in Models |-> None])
BY DEF Whole

(* What col.models gives of a type that is there.                            *)
LEMMA GotIsDict ==
  ASSUME TypesAreWhole, NEW m \in There
  PROVE  m \in Models /\ Dict(Got(m))
<1>1. m \in Models /\ models[m] # None
  BY DEF There
<1>2. (models[m] = None \/ Dict(models[m])) /\ (cached[m] = None \/ Dict(cached[m]))
  BY <1>1 DEF TypesAreWhole, Whole
<1> QED BY <1>1, <1>2 DEF Got

LEMMA DictExcept ==
  ASSUME NEW d, Dict(d), NEW l \in Lists, NEW x
  PROVE  Dict([d EXCEPT ![l] = x]) /\ Dict([d EXCEPT !.head = x])
         /\ [d EXCEPT ![l] = d[l]] = d
<1> SUFFICES ASSUME NEW a, NEW b, NEW c, d = [flds |-> a, tmpls |-> b, head |-> c]
             PROVE  Dict([d EXCEPT ![l] = x]) /\ Dict([d EXCEPT !.head = x])
                               /\ [d EXCEPT ![l] = d[l]] = d
  BY DEF Dict
<1>1. [d EXCEPT !.head = x] = [flds |-> a, tmpls |-> b, head |-> x]
  OBVIOUS
<1>3. CASE l = "flds"
  <2>1. [d EXCEPT ![l] = x] = [flds |-> x, tmpls |-> b, head |-> c]
    BY <1>3
  <2>2. [d EXCEPT ![l] = d[l]] = d
    BY <1>3
  <2> QED BY <1>1, <2>1, <2>2 DEF Dict
<1>4. CASE l = "tmpls"
  <2>1. [d EXCEPT ![l] = x] = [flds |-> a, tmpls |-> x, head |-> c]
    BY <1>4
  <2>2. [d EXCEPT ![l] = d[l]] = d
    BY <1>4
  <2> QED BY <1>1, <2>1, <2>2 DEF Dict
<1> QED BY <1>3, <1>4 DEF Lists

(* A sequence is one of its own elements.                                    *)
LEMMA SeqOfItsOwn ==
  ASSUME NEW S, NEW s \in Seq(S)
  PROVE  s \in Seq({s[i] : i \in DOMAIN s})
<1>1. Len(s) \in Nat /\ DOMAIN s = 1..Len(s) /\ s \in [1..Len(s) -> S]
  OBVIOUS
<1> DEFINE T == {s[i] : i \in DOMAIN s}
<1>2. s \in [1..Len(s) -> T]
  BY <1>1
<1> HIDE DEF T
<1>3. s \in Seq(T)
  BY <1>1, <1>2
<1> QED BY <1>3 DEF T

LEMMA OneMore ==
  ASSUME NEW S, NEW s \in Seq(S), NEW x
  PROVE  /\ Append(s, x) \in Seq({Append(s, x)[i] : i \in DOMAIN Append(s, x)})
         /\ \A i \in DOMAIN Append(s, x) :
              Append(s, x)[i] = x \/ \E j \in DOMAIN s : Append(s, x)[i] = s[j]
<1>1. Append(s, x) \in Seq(S \cup {x})
  OBVIOUS
<1>2. Append(s, x) \in Seq({Append(s, x)[i] : i \in DOMAIN Append(s, x)})
  BY <1>1, SeqOfItsOwn
<1>3. \A i \in DOMAIN Append(s, x) :
        Append(s, x)[i] = x \/ \E j \in DOMAIN s : Append(s, x)[i] = s[j]
  OBVIOUS
<1> QED BY <1>2, <1>3

LEMMA OneLess ==
  ASSUME NEW S, NEW s \in Seq(S), s # <<>>
  PROVE  /\ Front(s) \in Seq({Front(s)[i] : i \in DOMAIN Front(s)})
         /\ \A i \in DOMAIN Front(s) : \E j \in DOMAIN s : Front(s)[i] = s[j]
         /\ Len(s) \in DOMAIN s
<1>0. Len(s) \in Nat \ {0} /\ DOMAIN s = 1..Len(s) /\ Front(s) = SubSeq(s, 1, Len(s) - 1)
  BY DEF Front
<1>1. Front(s) \in Seq(S) /\ DOMAIN Front(s) = 1..(Len(s) - 1)
  BY <1>0
<1>2. Front(s) \in Seq({Front(s)[i] : i \in DOMAIN Front(s)})
  BY <1>1, SeqOfItsOwn
<1>3. \A i \in DOMAIN Front(s) : i \in DOMAIN s /\ Front(s)[i] = s[i]
  BY <1>0
<1> QED BY <1>0, <1>2, <1>3

(* ---- saves ---- *)
(* A form that is up to date never fails half way: what its rows name is     *)
(* there, so either all are found or the job refuses before it begins.       *)
LEMMA RowsOfAForm ==
  ASSUME NEW rows, NEW filled \in Filled(rows), NEW i \in DOMAIN filled, filled[i].orig # 0
  PROVE  \E j \in DOMAIN rows : filled[i].orig = rows[j].orig
<1>1. PICK s \in Arranged(rows) :
        filled \in {[k \in DOMAIN s |-> IF s[k] = 0 THEN Row(0, Name(t[k]), look)
                              ELSE Row(rows[s[k]].orig, Name(t[k]), look)]
          : t \in [DOMAIN s -> Titles], look \in Looks}
  BY DEF Filled
<1>2. PICK t, look :
        filled = [k \in DOMAIN s |-> IF s[k] = 0 THEN Row(0, Name(t[k]), look)
                              ELSE Row(rows[s[k]].orig, Name(t[k]), look)]
  BY <1>1
<1>3. i \in DOMAIN s /\ filled[i] = IF s[i] = 0 THEN Row(0, Name(t[i]), look)
                              ELSE Row(rows[s[i]].orig, Name(t[i]), look)
  BY <1>2
<1>4. s[i] # 0 /\ filled[i].orig = rows[s[i]].orig
  BY <1>3 DEF Row
<1>5. \A k \in DOMAIN s : s[k] \in DOMAIN rows \cup {0}
  BY DEF Arranged
<1> QED BY <1>3, <1>4, <1>5

LEMMA FreshFormsAreKnown ==
  ASSUME NEW p \in Sheets, UpToDate(p), NEW rows \in Filled(sheet[p].rows)
  PROVE  LET m == sheet[p].of
             l == sheet[p].list
             s == Saved(m, l, Got(m)[l], rows)
         IN  s.ok \/ s.list = Got(m)[l]
<1> DEFINE m == sheet[p].of
           l == sheet[p].list
           list == Got(m)[l]
<1>1. sheet[p].rows = FormRows(m, l)
  BY DEF UpToDate
<1>2. \A j \in DOMAIN FormRows(m, l) : j \in DOMAIN list /\ FormRows(m, l)[j].orig = Place(m, l, list[j])
  BY DEF FormRows, Row
<1>3. \A i \in DOMAIN rows : rows[i].orig # 0 => Known(m, l, list, rows[i].orig)
  <2> SUFFICES ASSUME NEW i \in DOMAIN rows, rows[i].orig # 0 PROVE Known(m, l, list, rows[i].orig)
    OBVIOUS
  <2>1. PICK j \in DOMAIN sheet[p].rows : rows[i].orig = sheet[p].rows[j].orig
    BY RowsOfAForm
  <2> QED BY <1>1, <1>2, <2>1 DEF Known
<1>4. Renamed(m, l, list, rows).ok
  BY <1>3 DEF Renamed
<1>5. Saved(m, l, list, rows).ok \/ Saved(m, l, list, rows).list = list
  BY <1>4 DEF Saved
<1> QED BY <1>5

---------------------------------------------------------------------------
(* The actions.  Most of a state of the store stays, and a job either leaves *)
(* it for undo or leaves it alone.                                           *)
LEMMA Parts ==
  ASSUME TypesInv
  PROVE  /\ TypesAreWhole /\ FormsNameLists /\ OneRemains
         /\ Whole(models) /\ Whole(cached)
         /\ \A m \in Models \ strayed : cached[m] = None \/ cached[m] = models[m]
         /\ \A m \in Models \ strayed : Got(m) = models[m]
BY DEF TypesInv, TypesAreWhole, CleanUnlessStale, Got

LEMMA KeptForUndo ==
  ASSUME TypesInv, earlier' = earlier \/ earlier' = Append(earlier, models)
  PROVE  /\ earlier' \in Seq({earlier'[i] : i \in DOMAIN earlier'})
         /\ \A i \in DOMAIN earlier' : Whole(earlier'[i])
         /\ ~races => \A i \in DOMAIN earlier' : HasType(earlier'[i])
<1>0. PICK S : earlier \in Seq(S)
  BY DEF TypesInv, TypesAreWhole
<1>1. Whole(models) /\ \A i \in DOMAIN earlier : Whole(earlier[i])
  BY DEF TypesInv, TypesAreWhole
<1>2. ~races => HasType(models) /\ \A i \in DOMAIN earlier : HasType(earlier[i])
  BY DEF TypesInv, OneRemains
<1>3. CASE earlier' = earlier
  BY <1>1, <1>2, <1>3 DEF TypesInv, TypesAreWhole
<1>4. CASE earlier' = Append(earlier, models)
  <2>1. /\ earlier' \in Seq({earlier'[i] : i \in DOMAIN earlier'})
        /\ \A i \in DOMAIN earlier' : earlier'[i] = models \/ \E j \in DOMAIN earlier : earlier'[i] = earlier[j]
    BY <1>0, <1>4, OneMore
  <2>2. \A i \in DOMAIN earlier' : Whole(earlier'[i])
    BY <1>1, <2>1
  <2>3. ~races => \A i \in DOMAIN earlier' : HasType(earlier'[i])
    BY <1>2, <2>1
  <2> QED BY <2>1, <2>2, <2>3
<1> QED BY <1>3, <1>4

(* A step that puts a type in the place of one, or of none.                  *)
LEMMA PutType ==
  ASSUME TypesInv, NEW m \in Models, NEW d, Dict(d), models' = [models EXCEPT ![m] = d]
  PROVE  /\ Whole(models') /\ HasType(models') /\ models'[m] = d
         /\ \A n \in Models \ {m} : models'[n] = models[n]
         /\ \A n \in Models : models[n] # None => models'[n] # None
<1>1. /\ Whole(models') /\ models'[m] = d /\ \A n \in Models \ {m} : models'[n] = models[n]
  BY ModelsExcept, Parts
<1>2. d # None
  BY NoneIsNoDict
<1> QED BY <1>1, <1>2 DEF HasType

LEMMA UpdateKeeps ==
  ASSUME TypesInv, NEW m \in Models, NEW d, Dict(d), Update(m, d)
  PROVE  TypesInv' /\ (models' # models => HasType(models'))
<1>0. UNCHANGED <<doomed, races, sheet>> /\ strayed' = strayed \ {m}
      /\ cached' = [cached EXCEPT ![m] = None]
  BY DEF Update
<1>1. /\ Whole(cached') /\ cached'[m] = None /\ \A n \in Models \ {m} : cached'[n] = cached[n]
  BY <1>0, CachedExcept, Parts
<1>2. Dict(AsWritten(d))
  BY DEF AsWritten, Dict
<1>3. models' = models \/ models' = [models EXCEPT ![m] = AsWritten(d)]
  BY DEF Update
<1>4. /\ Whole(models') /\ \A n \in Models \ {m} : models'[n] = models[n]
      /\ \A n \in Models : models[n] # None => models'[n] # None
      /\ models' # models => HasType(models')
  BY <1>2, <1>3, PutType, Parts
<1>5. earlier' = earlier \/ earlier' = Append(earlier, models)
  BY DEF Update
<1>6. TypesAreWhole'
  BY <1>1, <1>4, <1>5, KeptForUndo DEF TypesAreWhole
<1>7. CleanUnlessStale'
  BY <1>0, <1>1, <1>4, Parts DEF CleanUnlessStale
<1>8. OneRemains'
  <2> SUFFICES ASSUME ~races'
               PROVE  /\ HasType(models') /\ \A i \in DOMAIN earlier' : HasType(earlier'[i])
                      /\ \A x \in doomed' : \E n \in Models : n # x /\ models'[n] # None
    BY DEF OneRemains
  <2>1. ~races /\ HasType(models) /\ \A x \in doomed : \E n \in Models : n # x /\ models[n] # None
    BY <1>0 DEF TypesInv, OneRemains
  <2>2. HasType(models')
    BY <1>4, <2>1 DEF HasType
  <2>3. \A i \in DOMAIN earlier' : HasType(earlier'[i])
    BY <1>5, <2>1, KeptForUndo
  <2> QED BY <1>0, <1>4, <2>1, <2>2, <2>3
<1>9. FormsNameLists'
  BY <1>0 DEF TypesInv, FormsNameLists
<1> QED BY <1>4, <1>6, <1>7, <1>8, <1>9 DEF TypesInv

(* A step that changes only what is kept of a type.                          *)
LEMMA CachingKeeps ==
  ASSUME TypesInv, UNCHANGED <<models, earlier, doomed, races>>, FormsNameLists',
         NEW m \in Models, NEW d, Dict(d), cached' = [cached EXCEPT ![m] = d],
         strayed \subseteq strayed', m \in strayed' \/ d = models[m]
  PROVE  TypesInv'
<1>1. /\ Whole(cached') /\ cached'[m] = d /\ \A n \in Models \ {m} : cached'[n] = cached[n]
  BY CachedExcept, Parts
<1>2. TypesAreWhole'
  BY <1>1 DEF TypesInv, TypesAreWhole
<1>3. CleanUnlessStale'
  BY <1>1, Parts DEF CleanUnlessStale
<1>4. OneRemains'
  BY DEF TypesInv, OneRemains
<1> QED BY <1>2, <1>3, <1>4 DEF TypesInv

LEMMA RenderKeeps ==
  ASSUME TypesInv, NEW p \in Sheets, NEW m \in Models, NEW l \in Lists, Render(p, m, l)
  PROVE  TypesInv' /\ models' = models
<1>1. UNCHANGED <<models, earlier, doomed, races, strayed>> /\ cached' = [cached EXCEPT ![m] = Got(m)]
      /\ m \in There
  BY DEF Render
<1>2. Dict(Got(m))
  BY <1>1, GotIsDict, Parts
<1>3. PICK f : f.list = l /\ sheet' = [sheet EXCEPT ![p] = f]
  BY DEF Render
<1>4. FormsNameLists'
  BY <1>3, Parts DEF FormsNameLists
<1>5. m \in strayed' \/ Got(m) = models[m]
  BY <1>1, Parts
<1> QED BY <1>1, <1>2, <1>4, <1>5, CachingKeeps

LEMMA SaveKeeps ==
  ASSUME TypesInv, NEW p \in Sheets, Save(p)
  PROVE  TypesInv' /\ (models' # models => HasType(models'))
<1> DEFINE m == sheet[p].of
           l == sheet[p].list
<1>1. sheet[p] # None /\ m \in There /\ m \in Models /\ l \in Lists /\ Dict(Got(m))
  BY Parts, GotIsDict DEF Save, FormsNameLists
<1>2. PICK rows \in Filled(sheet[p].rows) :
        LET s == Saved(m, l, Got(m)[l], rows)
            d == [Got(m) EXCEPT ![l] = s.list]
        IN  IF s.ok THEN Update(m, IF l = "tmpls" THEN [d EXCEPT !.head = sheet[p].head] ELSE d)
            ELSE /\ Leave(m, d)
                 /\ strayed' = IF UpToDate(p) THEN strayed ELSE strayed \cup {m}
  BY DEF Save
<1> DEFINE s == Saved(m, l, Got(m)[l], rows)
           d == [Got(m) EXCEPT ![l] = s.list]
<1>3. Dict(d) /\ Dict([d EXCEPT !.head = sheet[p].head])
  BY <1>1, DictExcept
<1>4. CASE s.ok
  <2>1. PICK e : Dict(e) /\ Update(m, e)
    BY <1>2, <1>3, <1>4
  <2> QED BY <1>1, <2>1, UpdateKeeps
<1>5. CASE ~s.ok
  <2>1. UNCHANGED <<models, earlier, doomed, races, sheet>> /\ cached' = [cached EXCEPT ![m] = d]
        /\ strayed' = IF UpToDate(p) THEN strayed ELSE strayed \cup {m}
    BY <1>2, <1>5 DEF Leave
  <2>2. m \in strayed' \/ d = models[m]
    <3>1. CASE UpToDate(p)
      <4>1. d = Got(m)
        BY <1>1, <1>5, <3>1, FreshFormsAreKnown, DictExcept
      <4> QED BY <1>1, <2>1, <3>1, <4>1, Parts
    <3>2. CASE ~UpToDate(p)
      BY <2>1, <3>2
    <3> QED BY <3>1, <3>2
  <2>3. FormsNameLists'
    BY <2>1 DEF TypesInv, FormsNameLists
  <2> QED BY <1>1, <1>3, <2>1, <2>2, <2>3, CachingKeeps
<1> QED BY <1>4, <1>5

LEMMA CreateKeeps ==
  ASSUME TypesInv, NEW n \in Models \ There, NEW d, Create(n, d), Whole(cached'),
         \A m \in Models \ strayed : cached'[m] = None \/ (m # n /\ cached'[m] = models[m])
  PROVE  TypesInv' /\ HasType(models')
<1>1. /\ UNCHANGED <<sheet, doomed, races, strayed>> /\ earlier' = Append(earlier, models)
      /\ models' = [models EXCEPT ![n] = AsWritten(d)]
  BY DEF Create
<1>2. Dict(AsWritten(d))
  BY DEF AsWritten, Dict
<1>3. /\ Whole(models') /\ HasType(models') /\ \A m \in Models \ {n} : models'[m] = models[m]
      /\ \A m \in Models : models[m] # None => models'[m] # None
  BY <1>1, <1>2, PutType
<1>4. TypesAreWhole'
  BY <1>1, <1>3, KeptForUndo DEF TypesAreWhole
<1>5. CleanUnlessStale'
  BY <1>1, <1>3 DEF CleanUnlessStale
<1>6. OneRemains'
  <2>1. ~races => \A x \in doomed : \E m \in Models : m # x /\ models[m] # None
    BY DEF TypesInv, OneRemains
  <2>2. ~races => \A i \in DOMAIN earlier' : HasType(earlier'[i])
    BY <1>1, KeptForUndo
  <2> QED BY <1>1, <1>3, <2>1, <2>2 DEF OneRemains
<1>7. FormsNameLists'
  BY <1>1 DEF TypesInv, FormsNameLists
<1> QED BY <1>3, <1>4, <1>5, <1>6, <1>7 DEF TypesInv

LEMMA AddKeeps ==
  ASSUME TypesInv, NEW base \in Models, NEW n \in Models, NEW head, Add(base, n, head)
  PROVE  TypesInv' /\ HasType(models')
<1>1. /\ base \in There /\ n \in Models \ There /\ cached' = [cached EXCEPT ![base] = Got(base)]
      /\ \E d : Create(n, d)
  BY DEF Add
<1>2. Dict(Got(base))
  BY <1>1, GotIsDict, Parts
<1>3. /\ Whole(cached') /\ cached'[base] = Got(base)
      /\ \A m \in Models \ {base} : cached'[m] = cached[m]
  BY <1>1, <1>2, CachedExcept, Parts
<1>4. models[n] = None /\ n # base
  BY <1>1 DEF There
<1>5. \A m \in Models \ strayed : cached'[m] = None \/ (m # n /\ cached'[m] = models[m])
  <2> TAKE m \in Models \ strayed
  <2>1. (cached[m] = None \/ cached[m] = models[m]) /\ Got(m) = models[m]
    BY Parts
  <2>2. CASE m = base
    BY <1>3, <1>4, <2>1, <2>2
  <2>3. CASE m # base
    BY <1>3, <1>4, <2>1, <2>3
  <2> QED BY <2>2, <2>3
<1> QED BY <1>1, <1>3, <1>5, CreateKeeps

LEMMA CreateModelKeeps ==
  ASSUME TypesInv, NEW n \in Models, NEW head, CreateModel(n, head)
  PROVE  TypesInv' /\ HasType(models')
<1>1. /\ n \in Models \ There /\ cached' = cached /\ \E d : Create(n, d)
  BY DEF CreateModel
<1>2. models[n] = None
  BY <1>1 DEF There
<1>3. \A m \in Models \ strayed : cached'[m] = None \/ (m # n /\ cached'[m] = models[m])
  <2> TAKE m \in Models \ strayed
  <2>1. cached[m] = None \/ cached[m] = models[m]
    BY Parts
  <2> QED BY <1>1, <1>2, <2>1
<1> QED BY <1>1, <1>3, CreateKeeps, Parts

(* ---- deletions ---- *)
LEMMA Several ==
  ASSUME Cardinality(There) > 1, NEW m
  PROVE  \E n \in Models : n # m /\ models[n] # None
<1>1. There \subseteq {m} => Cardinality(There) \in {0, 1}
  <2> SUFFICES ASSUME There \subseteq {m} PROVE Cardinality(There) \in {0, 1}
    OBVIOUS
  <2>1. There = {} \/ There = {m}
    OBVIOUS
  <2> QED BY <2>1, FS_EmptySet, FS_Singleton
<1>2. ~(There \subseteq {m})
  BY <1>1
<1> QED BY <1>2 DEF There

LEMMA GoneKeeps ==
  ASSUME TypesInv, NEW m \in Models, Gone(m), doomed' \subseteq doomed,
         ~races => \E n \in Models : n # m /\ models[n] # None
  PROVE  TypesInv' /\ (~races => HasType(models'))
<1>1. /\ models' = [models EXCEPT ![m] = None] /\ cached' = [cached EXCEPT ![m] = None]
      /\ earlier' = Append(earlier, models) /\ strayed' = strayed \ {m}
      /\ races' = (races \/ doomed \ {m} # {}) /\ sheet' = sheet
  BY DEF Gone
<1>2. /\ Whole(models') /\ models'[m] = None /\ \A n \in Models \ {m} : models'[n] = models[n]
      /\ Whole(cached') /\ cached'[m] = None /\ \A n \in Models \ {m} : cached'[n] = cached[n]
  BY <1>1, ModelsExcept, CachedExcept, Parts
<1>3. TypesAreWhole'
  BY <1>1, <1>2, KeptForUndo DEF TypesAreWhole
<1>4. CleanUnlessStale'
  BY <1>1, <1>2, Parts DEF CleanUnlessStale
<1>5. ~races => HasType(models') /\ \E n \in Models : n # m /\ models'[n] # None
  BY <1>2 DEF HasType
<1>6. OneRemains'
  <2> SUFFICES ASSUME ~races'
               PROVE  /\ HasType(models') /\ \A i \in DOMAIN earlier' : HasType(earlier'[i])
                      /\ \A x \in doomed' : \E n \in Models : n # x /\ models'[n] # None
    BY DEF OneRemains
  <2>1. ~races /\ doomed' \subseteq {m}
    BY <1>1
  <2> QED BY <1>1, <1>5, <2>1, KeptForUndo
<1>7. FormsNameLists'
  BY <1>1 DEF TypesInv, FormsNameLists
<1> QED BY <1>3, <1>4, <1>5, <1>6, <1>7 DEF TypesInv

LEMMA DeletingKeeps ==
  ASSUME TypesInv, NEW m \in Models, AskDelete(m) \/ Delete(m) \/ DeleteModel(m)
  PROVE  TypesInv' /\ (models' # models /\ ~races => HasType(models'))
<1>1. CASE AskDelete(m)
  <2>1. UNCHANGED <<models, cached, earlier, sheet, races, strayed>> /\ doomed' = doomed \cup {m}
        /\ Cardinality(There) > 1
    BY <1>1 DEF AskDelete
  <2>2. \E n \in Models : n # m /\ models[n] # None
    BY <2>1, Several
  <2>3. OneRemains'
    BY <2>1, <2>2, Parts DEF OneRemains
  <2> QED BY <2>1, <2>3, Parts DEF TypesInv, TypesAreWhole, FormsNameLists, CleanUnlessStale
<1>2. CASE Delete(m) /\ m \in There
  <2>1. Gone(m) /\ m \in doomed /\ doomed' \subseteq doomed
    BY <1>2 DEF Delete
  <2>2. ~races => \E n \in Models : n # m /\ models[n] # None
    BY <2>1, Parts DEF OneRemains
  <2> QED BY <2>1, <2>2, GoneKeeps
<1>3. CASE Delete(m) /\ m \notin There
  <2>1. UNCHANGED <<models, cached, earlier, sheet, races, strayed>> /\ doomed' \subseteq doomed
    BY <1>3 DEF Delete
  <2>2. OneRemains'
    BY <2>1, Parts DEF OneRemains
  <2> QED BY <2>1, <2>2, Parts DEF TypesInv, TypesAreWhole, FormsNameLists, CleanUnlessStale
<1>4. CASE DeleteModel(m)
  <2>1. Gone(m) /\ Cardinality(There) > 1 /\ doomed' \subseteq doomed
    BY <1>4 DEF DeleteModel
  <2>2. \E n \in Models : n # m /\ models[n] # None
    BY <2>1, Several
  <2> QED BY <2>1, <2>2, GoneKeeps
<1> QED BY <1>1, <1>2, <1>3, <1>4

LEMMA UndoKeeps ==
  ASSUME TypesInv, UndoType
  PROVE  TypesInv' /\ (~races => HasType(models'))
<1>1. /\ earlier # <<>> /\ models' = earlier[Len(earlier)] /\ earlier' = Front(earlier)
      /\ cached' = [m \in Models |-> None] /\ strayed' = {}
      /\ races' = (races \/ doomed # {}) /\ UNCHANGED <<sheet, doomed>>
  BY DEF UndoType
<1>2. PICK S : earlier \in Seq(S)
  BY DEF TypesInv, TypesAreWhole
<1>3. /\ earlier' \in Seq({earlier'[i] : i \in DOMAIN earlier'})
      /\ \A i \in DOMAIN earlier' : \E j \in DOMAIN earlier : earlier'[i] = earlier[j]
      /\ Len(earlier) \in DOMAIN earlier
  BY <1>1, <1>2, OneLess
<1>4. \A i \in DOMAIN earlier : Whole(earlier[i]) /\ (~races => HasType(earlier[i]))
  BY DEF TypesInv, TypesAreWhole, OneRemains
<1>5. Whole(models') /\ (~races => HasType(models'))
  BY <1>1, <1>3, <1>4
<1>6. \A i \in DOMAIN earlier' : Whole(earlier'[i]) /\ (~races => HasType(earlier'[i]))
  BY <1>3, <1>4
<1>7. TypesAreWhole'
  BY <1>1, <1>3, <1>5, <1>6, NothingIsWhole DEF TypesAreWhole
<1>8. CleanUnlessStale'
  BY <1>1 DEF CleanUnlessStale
<1>9. OneRemains'
  BY <1>1, <1>5, <1>6 DEF OneRemains
<1>10. FormsNameLists'
  BY <1>1 DEF TypesInv, FormsNameLists
<1> QED BY <1>5, <1>7, <1>8, <1>9, <1>10 DEF TypesInv

LEMMA ModelActionKeeps ==
  ASSUME TypesInv, NEW m \in Models, NEW l \in Lists, ModelAction(m, l)
  PROVE  TypesInv' /\ (models' # models => HasType(models'))
<1>1. m \in There /\ Dict(Got(m))
  BY GotIsDict, Parts DEF ModelAction
<1>2. PICK list : Update(m, [Got(m) EXCEPT ![l] = list])
  BY DEF ModelAction
<1>3. Dict([Got(m) EXCEPT ![l] = list])
  BY <1>1, DictExcept
<1> QED BY <1>2, <1>3, UpdateKeeps

LEMMA RenameKeeps ==
  ASSUME TypesInv, NEW m \in Models, NEW head, Rename(m, head)
  PROVE  TypesInv' /\ (models' # models => HasType(models'))
<1>1. m \in There /\ Dict(Got(m)) /\ Update(m, [Got(m) EXCEPT !.head = head])
  BY GotIsDict, Parts DEF Rename
<1>2. Dict([Got(m) EXCEPT !.head = head])
  BY <1>1, DictExcept DEF Lists
<1> QED BY <1>1, <1>2, UpdateKeeps

---------------------------------------------------------------------------
(* The theorems.                                                             *)
LEMMA TypesStepKeeps ==
  ASSUME TypesInv, NoteTypesNext
  PROVE  TypesInv' /\ (models' # models /\ ~races => HasType(models'))
<1>1. CASE \E m \in Models, l \in Lists : ModelAction(m, l)
  BY <1>1, ModelActionKeeps
<1>2. CASE \E m \in Models, l \in Lists, p \in Sheets : Render(p, m, l)
  BY <1>2, RenderKeeps
<1>3. CASE \E p \in Sheets : Save(p)
  BY <1>3, SaveKeeps
<1>4. CASE \E m \in Models : AskDelete(m) \/ Delete(m) \/ DeleteModel(m)
  BY <1>4, DeletingKeeps
<1>5. CASE \E m \in Models, head \in {"h", "i"} : Rename(m, head)
  BY <1>5, RenameKeeps
<1>6. CASE \E m \in Models, head \in {"h", "i"} : CreateModel(m, head)
  BY <1>6, CreateModelKeeps
<1>7. CASE \E m \in Models, head \in {"h", "i"}, n \in Models : Add(n, m, head)
  BY <1>7, AddKeeps
<1>8. CASE UndoType
  BY <1>8, UndoKeeps
<1> QED BY <1>1, <1>2, <1>3, <1>4, <1>5, <1>6, <1>7, <1>8 DEF NoteTypesNext

LEMMA StepKeeps ==
  ASSUME TypesInv, [Next]_Vars
  PROVE  TypesInv' /\ (models' # models /\ ~races => HasType(models'))
<1>1. NoteTypesNext \/ UNCHANGED typeVars
  BY DEF Next, Vars
<1>2. CASE UNCHANGED typeVars
  BY <1>2 DEF typeVars, TypesInv, TypesAreWhole, FormsNameLists, CleanUnlessStale, OneRemains, HasType, Whole
<1> QED BY <1>1, <1>2, TypesStepKeeps

(* The stored types, those kept for undo and those that are cached stay      *)
(* types, unless a deletion overtook another one there is always one, and    *)
(* what is cached of a type is what is stored, if no stale form failed on it.*)
THEOREM TypesInvHolds == Spec => []TypesInv
<1>1. Init => TypesInv
  <2> SUFFICES ASSUME Init PROVE TypesInv
    OBVIOUS
  <2>1. /\ models = Stored /\ cached = [m \in Models |-> None] /\ sheet = [p \in Sheets |-> None]
        /\ earlier = <<>> /\ doomed = {} /\ strayed = {}
    BY DEF Init, NoteTypesInit
  <2>2. Whole(models) /\ HasType(models)
    BY <2>1, StoredAssumption DEF HasType
  <2>3. earlier \in Seq({earlier[i] : i \in DOMAIN earlier}) /\ DOMAIN earlier = {}
    BY <2>1
  <2>4. TypesAreWhole
    BY <2>1, <2>2, <2>3, NothingIsWhole DEF TypesAreWhole
  <2> QED BY <2>1, <2>2, <2>3, <2>4 DEF TypesInv, FormsNameLists, CleanUnlessStale, OneRemains
<1>2. TypesInv /\ [Next]_Vars => TypesInv'
  BY StepKeeps
<1> QED BY <1>1, <1>2, PTL DEF Spec

(* What col.models keeps of a type is what is stored, unless a form that was *)
(* out of date has failed on it: a form that is up to date never fails after *)
(* it has begun to change the dictionary.                                    *)
THEOREM CacheIsClean == Spec => []CleanUnlessStale
<1>1. TypesInv => CleanUnlessStale
  BY DEF TypesInv
<1> QED BY <1>1, TypesInvHolds, PTL

(* The only note type is not deleted, unless another one was deleted between *)
(* a page's guard and its deletion; an undo does not take the last one away  *)
(* either.                                                                   *)
THEOREM OneTypeStays == Spec => TheLastTypeStays
<1>1. TypesInv /\ [Next]_Vars => [models # models' /\ There' = {} => races]_models
  <2> SUFFICES ASSUME TypesInv, [Next]_Vars, models # models', There' = {} PROVE races
    OBVIOUS
  <2>1. ~HasType(models')
    BY DEF There, HasType
  <2> QED BY <2>1, StepKeeps
<1> QED BY <1>1, TypesInvHolds, PTL DEF Spec, TheLastTypeStays
---------------------------------------------------------------------------
(* Numbers: the least of a set, induction, a set in order.                   *)
LEMMA LeastIs ==
  ASSUME NEW S, S \subseteq Nat, S # {}
  PROVE  Least(S) \in S /\ \A y \in S : Least(S) <= y
<1> DEFINE Below == {ss \in Nat \X Nat : ss[1] < ss[2]}
<1>1. IsWellFoundedOn(Below, Nat)
  BY NatLessThanWellFounded DEF OpToRel
<1>2. \A x, y \in Nat : x < y => <<x, y>> \in Below
  OBVIOUS
<1> HIDE DEF Below
<1>3. PICK x \in S : \A y \in S : <<y, x>> \notin Below
  BY <1>1, WFMin
<1>4. \A y \in S : x <= y
  <2> TAKE y \in S
  <2>1. x \in Nat /\ y \in Nat /\ ~(y < x)
    BY <1>2, <1>3
  <2> QED BY <2>1
<1> QED BY <1>3, <1>4 DEF Least

LEMMA Inductive ==
  ASSUME NEW S, 0 \in S, \A n \in Nat : n \in S => n + 1 \in S
  PROVE  \A n \in Nat : n \in S
<1> DEFINE Others == Nat \ S
           x == Least(Others)
<1> SUFFICES ASSUME Others # {} PROVE FALSE
  OBVIOUS
<1>1. x \in Others /\ \A y \in Others : x <= y
  BY LeastIs
<1> HIDE DEF x
<1>2. x \in Nat /\ x # 0 /\ x - 1 \in Nat /\ x - 1 + 1 = x /\ ~(x <= x - 1)
  BY <1>1
<1>3. x - 1 \in S
  BY <1>1, <1>2
<1> QED BY <1>1, <1>2, <1>3

(* A set of the first numbers has a cardinality.                             *)
LEMMA FirstNumbers ==
  ASSUME NEW n \in Nat
  PROVE  /\ IsFiniteSet(1..n) /\ Cardinality(1..n) = n
         /\ \A S \in SUBSET (1..n) : IsFiniteSet(S) /\ Cardinality(S) \in Nat
<1>1. 1 \in Int /\ n \in Int /\ (IF 1 > n THEN 0 ELSE n - 1 + 1) = n
  OBVIOUS
<1>2. IsFiniteSet(1..n) /\ Cardinality(1..n) = n
  BY <1>1, FS_Interval
<1>3. ASSUME NEW S \in SUBSET (1..n) PROVE IsFiniteSet(S) /\ Cardinality(S) \in Nat
  <2>1. IsFiniteSet(S)
    BY <1>2, FS_Subset
  <2> QED BY <2>1, FS_CardinalityType
<1> QED BY <1>2, <1>3

OneToOne(f, S, T) ==
  f \in [S -> T] /\ (\A a, b \in S : f[a] = f[b] => a = b) /\ \A t \in T : \E a \in S : f[a] = t

LEMMA InjectionsFill ==
  ASSUME NEW S, NEW T, IsFiniteSet(S), IsFiniteSet(T), Cardinality(S) = Cardinality(T),
         NEW f \in [S -> T], \A a, b \in S : f[a] = f[b] => a = b
  PROVE  OneToOne(f, S, T)
<1> SUFFICES ASSUME NEW t \in T, \A a \in S : f[a] # t PROVE FALSE
  BY DEF OneToOne
<1>1. IsFiniteSet(T \ {t}) /\ Cardinality(T \ {t}) = Cardinality(T) - 1 /\ Cardinality(T) \in Nat
  BY FS_RemoveElement, FS_CardinalityType
<1>2. f \in [S -> T \ {t}] /\ Cardinality(T \ {t}) < Cardinality(S)
  BY <1>1
<1> QED BY <1>1, <1>2, FS_PigeonHole

LEMMA SameCounts ==
  ASSUME NEW n \in Nat, NEW k \in Nat, NEW f, OneToOne(f, 1..k, 1..n)
  PROVE  k = n
<1>1. f \in Bijection(1..k, 1..n)
  BY Fun_IsBij DEF OneToOne
<1>2. ExistsBijection(1..k, 1..n)
  BY <1>1 DEF ExistsBijection
<1> QED BY <1>2, FirstNumbers, FS_Bijection

(* The numbers of a set in order are all of them, each once.                 *)
InOrder(s, S) ==
  s \in [1..Cardinality(S) -> S] /\ \A i, j \in DOMAIN s : i < j => s[i] < s[j]

LEMMA AscendingIs ==
  ASSUME NEW n \in Nat, NEW S \in SUBSET (1..n)
  PROVE  Cardinality(S) \in Nat /\ OneToOne(Ascending(S), 1..Cardinality(S), S)
<1> DEFINE G == {k \in Nat : \A R \in SUBSET (1..k) : \E s : InOrder(s, R)}
<1>1. 0 \in G
  <2>1. \A R \in SUBSET (1..0) : R = {}
    <3>1. 1..0 = {}
      OBVIOUS
    <3> QED BY <3>1
  <2>2. InOrder([i \in 1..0 |-> 0], {})
    BY FS_EmptySet DEF InOrder
  <2> QED BY <2>1, <2>2
<1>2. ASSUME NEW k \in Nat, k \in G PROVE k + 1 \in G
  <2> SUFFICES ASSUME NEW R \in SUBSET (1..(k + 1)) PROVE \E s : InOrder(s, R)
    OBVIOUS
  <2> DEFINE Q == R \ {k + 1}
             c == Cardinality(Q)
  <2>1. Q \in SUBSET (1..k)
    OBVIOUS
  <2>2. PICK s : InOrder(s, Q)
    BY <1>2, <2>1
  <2>3. IsFiniteSet(Q) /\ c \in Nat
    BY <2>1, FirstNumbers
  <2>4. CASE k + 1 \notin R
    <3>1. Q = R
      BY <2>4
    <3> QED BY <2>2, <3>1
  <2>5. CASE k + 1 \in R
    <3>1. Cardinality(R) = c + 1
      <4>1. R = Q \cup {k + 1} /\ k + 1 \notin Q
        BY <2>5
      <4> QED BY <2>3, <4>1, FS_AddElement
    <3> DEFINE t == [i \in 1..(c + 1) |-> IF i = c + 1 THEN k + 1 ELSE s[i]]
    <3> HIDE DEF c
    <3>2. s \in [1..c -> Q] /\ \A i, j \in 1..c : i < j => s[i] < s[j]
      BY <2>2 DEF InOrder, c
    <3>3. \A i \in 1..(c + 1) : (i = c + 1 \/ i \in 1..c) /\ (i \in 1..c => i # c + 1)
      BY <2>3
    <3>4. t \in [1..(c + 1) -> R]
      BY <2>5, <3>2, <3>3
    <3>5. \A i \in 1..c : s[i] \in Nat /\ s[i] < k + 1
      <4> TAKE i \in 1..c
      <4>1. s[i] \in 1..k
        BY <2>1, <3>2
      <4> QED BY <4>1
    <3>6. \A i, j \in 1..(c + 1) : i < j => t[i] < t[j]
      <4> SUFFICES ASSUME NEW i \in 1..(c + 1), NEW j \in 1..(c + 1), i < j PROVE t[i] < t[j]
        OBVIOUS
      <4>1. i \in 1..c /\ i # c + 1
        BY <2>3
      <4> QED BY <3>2, <3>3, <3>5, <4>1
    <3> HIDE DEF t
    <3>7. InOrder(t, R)
      BY <3>1, <3>4, <3>6 DEF InOrder
    <3> QED BY <3>7
  <2> QED BY <2>4, <2>5
<1> HIDE DEF G
<1>3. n \in G
  BY <1>1, <1>2, Inductive
<1> DEFINE s == Ascending(S)
           c == Cardinality(S)
<1>4. InOrder(s, S)
  BY <1>3 DEF Ascending, InOrder, G
<1>5. IsFiniteSet(S) /\ c \in Nat /\ IsFiniteSet(1..c) /\ Cardinality(1..c) = c
  BY FirstNumbers
<1> HIDE DEF s
<1>6. s \in [1..c -> S] /\ \A i, j \in 1..c : i < j => s[i] < s[j]
  BY <1>4 DEF InOrder
<1> HIDE DEF c
<1>7. \A i, j \in 1..c : s[i] = s[j] => i = j
  <2> SUFFICES ASSUME NEW i \in 1..c, NEW j \in 1..c, s[i] = s[j] PROVE i = j
    OBVIOUS
  <2>1. s[i] \in 1..n /\ s[j] \in 1..n
    BY <1>6
  <2>2. ~(s[i] < s[j]) /\ ~(s[j] < s[i])
    BY <2>1
  <2>3. ~(i < j) /\ ~(j < i)
    BY <1>6, <2>2
  <2> QED BY <1>5, <2>3
<1>8. OneToOne(s, 1..c, S)
  BY <1>5, <1>6, <1>7, InjectionsFill DEF c
<1> QED BY <1>5, <1>8 DEF s, c

---------------------------------------------------------------------------
(* What a save makes of a list.                                              *)
IsList(A, n) == n \in Nat /\ A = [j \in 1..n |-> A[j]]

LEMMA ListIs ==
  ASSUME NEW A, NEW n, IsList(A, n)
  PROVE  A \in Seq({A[i] : i \in DOMAIN A}) /\ Len(A) = n /\ DOMAIN A = 1..n
<1>1. n \in Nat /\ DOMAIN A = 1..n /\ A \in [1..n -> {A[i] : i \in DOMAIN A}]
  BY DEF IsList
<1>2. A \in Seq({A[i] : i \in DOMAIN A})
  BY <1>1
<1> QED BY <1>1, <1>2

LEMMA SeqIsList ==
  ASSUME NEW S, NEW A \in Seq(S)
  PROVE  IsList(A, Len(A)) /\ DOMAIN A = 1..Len(A)
BY DEF IsList

LEMMA ItemParts ==
  \A a, b, c : Item(a, b, c).name = a /\ Item(a, b, c).look = b /\ Item(a, b, c).data = c
BY DEF Item

(* The items of a list are items that are stored.                            *)
Within(list, stored) == \A i \in DOMAIN list : \E j \in DOMAIN stored : list[i].data = stored[j].data
Stands(m, l, list, n) ==
  /\ Proper(models[m][l]) /\ Proper(list) /\ Within(list, models[m][l])
  /\ IsList(list, n)

LEMMA PlacesAre ==
  ASSUME NEW m, NEW l, NEW list, NEW n, Stands(m, l, list, n)
  PROVE  /\ \A i \in 1..n :
              /\ Place(m, l, list[i]) \in DOMAIN models[m][l]
              /\ Place(m, l, list[i]) \in Nat \ {0}
              /\ models[m][l][Place(m, l, list[i])].data = list[i].data
         /\ \A i, j \in 1..n : Place(m, l, list[i]) = Place(m, l, list[j]) => i = j
<1> DEFINE stored == models[m][l]
<1>1. DOMAIN stored = 1..Len(stored) /\ Len(stored) \in Nat
  BY SeqIsList DEF Stands, Proper, IsList
<1>2. DOMAIN list = 1..n
  BY DEF Stands, IsList
<1>3. ASSUME NEW i \in 1..n
      PROVE  /\ Place(m, l, list[i]) \in DOMAIN stored /\ Place(m, l, list[i]) \in Nat \ {0}
             /\ stored[Place(m, l, list[i])].data = list[i].data
  <2> DEFINE S == {j \in DOMAIN stored : stored[j].data = list[i].data}
  <2>1. S # {}
    BY <1>2 DEF Stands, Within
  <2>2. S \subseteq Nat /\ \A j \in DOMAIN stored : j \in Nat \ {0}
    BY <1>1
  <2>3. Least(S) \in S
    BY <2>1, <2>2, LeastIs
  <2>4. Place(m, l, list[i]) = Least(S)
    BY DEF Place
  <2> QED BY <2>2, <2>3, <2>4
<1>4. \A i, j \in 1..n : list[i].data = list[j].data => i = j
  BY <1>2 DEF Stands, Proper
<1> QED BY <1>3, <1>4

(* The items that have a row are kept.                                       *)
HaveRows(m, l, list, n, rows) ==
  {i \in 1..n : Place(m, l, list[i]) \in {rows[j].orig : j \in DOMAIN rows}}
KeptFrom(m, l, list, n, rows, k, g) ==
  /\ IsList(Kept(m, l, list, rows), k)
  /\ OneToOne(g, 1..k, HaveRows(m, l, list, n, rows))
  /\ \A j \in 1..k : Kept(m, l, list, rows)[j] = list[g[j]]

LEMMA KeptIs ==
  ASSUME NEW m, NEW l, NEW list, NEW n, IsList(list, n), NEW rows
  PROVE  \E k, g : k \in Nat /\ KeptFrom(m, l, list, n, rows, k, g)
<1> DEFINE S == {i \in 1..n : Place(m, l, list[i]) \in {rows[j].orig : j \in DOMAIN rows}}
           g == Ascending(S)
           k == Cardinality(S)
           K == Kept(m, l, list, rows)
<1>1. n \in Nat /\ S \in SUBSET (1..n) /\ DOMAIN list = 1..n
  BY DEF IsList
<1>2. k \in Nat /\ OneToOne(g, 1..k, S)
  <2> HIDE DEF S
  <2> QED BY <1>1, AscendingIs
<1>3. K = [j \in DOMAIN g |-> list[g[j]]]
  BY <1>1 DEF Kept
<1> HIDE DEF S, g, k, K
<1>4. DOMAIN g = 1..k
  BY <1>2 DEF OneToOne
<1>5. IsList(K, k) /\ \A j \in 1..k : K[j] = list[g[j]]
  BY <1>2, <1>3, <1>4 DEF IsList
<1> QED BY <1>2, <1>5 DEF S, K, HaveRows, KeptFrom

(* They are renamed as their rows say.                                       *)
RowsOf(m, l, x, rows, R) == {i \in R : rows[i].orig = Place(m, l, x)}
Reached(m, l, list, rows) ==
  {i \in DOMAIN rows : \A j \in DOMAIN rows :
     rows[j].orig # 0 /\ ~Known(m, l, list, rows[j].orig) => i < j}

RenamedFrom(B, k, m, l, list, rows) ==
  LET K == Kept(m, l, list, rows)
      of(x) == RowsOf(m, l, x, rows, Reached(m, l, list, rows))
  IN  /\ IsList(B, k)
      /\ \A j \in 1..k :
           IF of(K[j]) = {} THEN B[j] = K[j]
           ELSE B[j] = [K[j] EXCEPT !.name = rows[Least(of(K[j]))].name,
                                    !.look = IF l = "tmpls" THEN rows[Least(of(K[j]))].look ELSE K[j].look]

LEMMA RenamedList ==
  ASSUME NEW m, NEW l, NEW list, NEW rows, NEW k, IsList(Kept(m, l, list, rows), k)
  PROVE  RenamedFrom(Renamed(m, l, list, rows).list, k, m, l, list, rows)
<1> DEFINE B == Renamed(m, l, list, rows).list
           K == Kept(m, l, list, rows)
           R == Reached(m, l, list, rows)
           U == {i \in DOMAIN rows : rows[i].orig # 0 /\ ~Known(m, l, list, rows[i].orig)}
           T == {i \in DOMAIN rows : \A j \in U : i < j}
<1>1. T = R
  BY DEF Reached
<1>2. B = [j \in DOMAIN K |->
             IF {i \in T : rows[i].orig = Place(m, l, K[j])} = {} THEN K[j]
             ELSE [K[j] EXCEPT !.name = rows[Least({i \in T : rows[i].orig = Place(m, l, K[j])})].name,
                               !.look = IF l = "tmpls"
                                        THEN rows[Least({i \in T : rows[i].orig = Place(m, l, K[j])})].look
                                        ELSE @]]
  BY DEF Renamed
<1> HIDE DEF T, R, B, K
<1>3. B = [j \in DOMAIN K |->
             IF RowsOf(m, l, K[j], rows, R) = {} THEN K[j]
             ELSE [K[j] EXCEPT !.name = rows[Least(RowsOf(m, l, K[j], rows, R))].name,
                               !.look = IF l = "tmpls"
                                        THEN rows[Least(RowsOf(m, l, K[j], rows, R))].look
                                        ELSE @]]
  BY <1>1, <1>2 DEF RowsOf
<1>4. k \in Nat /\ DOMAIN K = 1..k
  BY DEF IsList, K
<1>5. IsList(B, k)
  BY <1>3, <1>4 DEF IsList
<1> QED BY <1>3, <1>4, <1>5 DEF RenamedFrom, B, K, R

(* However far the renaming came, the items have kept their data.            *)
IsItem(x) == x = Item(x.name, x.look, x.data)

LEMMA ItemExcept ==
  ASSUME NEW x, IsItem(x), NEW a, NEW b
  PROVE  [x EXCEPT !.name = a, !.look = b] = Item(a, b, x.data)
         /\ [x EXCEPT !.look = b] = Item(x.name, b, x.data)
         /\ [x EXCEPT !.name = a] = Item(a, x.look, x.data)
<1> SUFFICES ASSUME NEW n, NEW o, NEW d, x = [name |-> n, look |-> o, data |-> d]
             PROVE  [x EXCEPT !.name = a, !.look = b] = Item(a, b, x.data)
                    /\ [x EXCEPT !.look = b] = Item(x.name, b, x.data)
                    /\ [x EXCEPT !.name = a] = Item(a, x.look, x.data)
  BY DEF IsItem, Item
<1> DEFINE y == [x EXCEPT !.name = a]
           z == [y EXCEPT !.look = b]
<1>1. y = [name |-> a, look |-> o, data |-> d]
  OBVIOUS
<1>2. z = [name |-> a, look |-> b, data |-> d]
  <2> HIDE DEF y
  <2> QED BY <1>1
<1>3. [x EXCEPT !.look = b] = [name |-> n, look |-> b, data |-> d]
  OBVIOUS
<1>4. [x EXCEPT !.name = a, !.look = b] = z
  OBVIOUS
<1> QED BY <1>1, <1>2, <1>3, <1>4 DEF Item

LEMMA RenamedKeeps ==
  ASSUME NEW m, NEW l, NEW list, NEW n, Stands(m, l, list, n), NEW rows
  PROVE  LET B == Renamed(m, l, list, rows).list
         IN  Proper(B) /\ Within(B, models[m][l])
<1> DEFINE B == Renamed(m, l, list, rows).list
           K == Kept(m, l, list, rows)
           of(x) == RowsOf(m, l, x, rows, Reached(m, l, list, rows))
<1>0. /\ IsList(list, n) /\ DOMAIN list = 1..n /\ Within(list, models[m][l])
      /\ \A i \in 1..n : IsItem(list[i]) /\ list[i].data \in Nat \ {0}
      /\ \A i, j \in 1..n : list[i].data = list[j].data => i = j
  BY DEF Stands, IsList, Proper, IsItem
<1>1. PICK k, g : k \in Nat /\ KeptFrom(m, l, list, n, rows, k, g)
  BY <1>0, KeptIs
<1>3. /\ \A j \in 1..k : g[j] \in 1..n /\ K[j] = list[g[j]]
      /\ \A i, j \in 1..k : g[i] = g[j] => i = j
  BY <1>1 DEF KeptFrom, OneToOne, HaveRows
<1>4. /\ IsList(B, k)
      /\ \A j \in 1..k :
           IF of(K[j]) = {} THEN B[j] = K[j]
           ELSE B[j] = [K[j] EXCEPT !.name = rows[Least(of(K[j]))].name,
                                    !.look = IF l = "tmpls" THEN rows[Least(of(K[j]))].look ELSE K[j].look]
  <2>1. RenamedFrom(B, k, m, l, list, rows)
    BY <1>1, RenamedList DEF KeptFrom
  <2> HIDE DEF B
  <2> QED BY <2>1 DEF RenamedFrom
<1> HIDE DEF B, K, of
<1>5. ASSUME NEW j \in 1..k PROVE B[j].data = list[g[j]].data /\ IsItem(B[j])
  <2>1. IsItem(K[j]) /\ K[j].data = list[g[j]].data
    BY <1>0, <1>3
  <2>2. CASE of(K[j]) = {}
    <3>1. B[j] = K[j]
      BY <1>4, <2>2
    <3> QED BY <2>1, <3>1
  <2>3. CASE of(K[j]) # {}
    <3>1. PICK a, b : B[j] = [K[j] EXCEPT !.name = a, !.look = b]
      <4> DEFINE a == rows[Least(of(K[j]))].name
                 b == IF l = "tmpls" THEN rows[Least(of(K[j]))].look ELSE K[j].look
      <4>1. B[j] = [K[j] EXCEPT !.name = a, !.look = b]
        BY <1>4, <2>3
      <4> HIDE DEF a, b
      <4> QED BY <4>1
    <3>2. B[j] = Item(a, b, K[j].data)
      BY <2>1, <3>1, ItemExcept
    <3> QED BY <2>1, <3>2, ItemParts DEF IsItem
  <2> QED BY <2>2, <2>3
<1>6. DOMAIN B = 1..k /\ B \in Seq({B[i] : i \in DOMAIN B})
  <2>1. IsList(B, k)
    BY <1>4
  <2> QED BY <2>1, ListIs
<1>7. \A i, j \in 1..k : B[i].data = B[j].data => i = j
  BY <1>0, <1>3, <1>5
<1>8. Proper(B)
  <2>1. \A j \in 1..k : B[j] = Item(B[j].name, B[j].look, B[j].data) /\ B[j].data \in Nat \ {0}
    BY <1>0, <1>3, <1>5 DEF IsItem
  <2> QED BY <1>6, <1>7, <2>1 DEF Proper
<1>9. Within(B, models[m][l])
  BY <1>0, <1>3, <1>5, <1>6 DEF Within
<1> QED BY <1>8, <1>9 DEF B

(* The rows of a form: each item has one row at most.                        *)
AreRows(rows, n) ==
  /\ IsList(rows, n)
  /\ \A i \in 1..n :
       /\ rows[i].orig \in Nat
       /\ \A j \in 1..n : rows[i].orig # 0 /\ rows[i].orig = rows[j].orig => i = j

(* A list is made of rows: each of the rows R has its item, with its name    *)
(* and with the data of the place that it names.                             *)
Datum(m, l, row) == IF row.orig = 0 THEN 0 ELSE models[m][l][row.orig].data
MadeOf(A, k, r, R, m, l, rows) ==
  /\ IsList(A, k) /\ OneToOne(r, 1..k, R)
  /\ \A j \in 1..k :
       /\ A[j] = Item(rows[r[j]].name, A[j].look, Datum(m, l, rows[r[j]]))
       /\ l = "tmpls" => A[j].look = rows[r[j]].look

LEMMA RenamedIs ==
  ASSUME NEW m, NEW l, NEW list, NEW n, Stands(m, l, list, n), NEW rows, NEW N, AreRows(rows, N),
         Renamed(m, l, list, rows).ok
  PROVE  /\ \E k, r : MadeOf(Renamed(m, l, list, rows).list, k, r, {i \in 1..N : rows[i].orig # 0}, m, l, rows)
         /\ \A i \in 1..N : rows[i].orig # 0 => rows[i].orig \in DOMAIN models[m][l]
<1> DEFINE B == Renamed(m, l, list, rows).list
           K == Kept(m, l, list, rows)
           Old == {i \in 1..N : rows[i].orig # 0}
           R == Reached(m, l, list, rows)
           at(j) == Place(m, l, K[j])
<1>0. /\ IsList(list, n) /\ DOMAIN list = 1..n /\ \A i \in 1..n : IsItem(list[i])
  BY DEF Stands, IsList, Proper, IsItem
<1>1. N \in Nat /\ DOMAIN rows = 1..N
  BY DEF AreRows, IsList
<1>2. \A i \in 1..N : rows[i].orig # 0 => Known(m, l, list, rows[i].orig)
  BY <1>1 DEF Renamed
<1>3. R = 1..N
  BY <1>1, <1>2 DEF Reached
<1>4. PICK k, g : k \in Nat /\ KeptFrom(m, l, list, n, rows, k, g)
  BY <1>0, KeptIs
<1>5. /\ IsList(K, k) /\ OneToOne(g, 1..k, HaveRows(m, l, list, n, rows))
      /\ \A j \in 1..k : K[j] = list[g[j]]
  BY <1>4 DEF KeptFrom
<1> DEFINE row == [j \in 1..k |-> Least(RowsOf(m, l, K[j], rows, R))]
<1>6. /\ IsList(B, k)
      /\ \A j \in 1..k :
           IF RowsOf(m, l, K[j], rows, R) = {} THEN B[j] = K[j]
           ELSE B[j] = [K[j] EXCEPT !.name = rows[Least(RowsOf(m, l, K[j], rows, R))].name,
                                    !.look = IF l = "tmpls"
                                             THEN rows[Least(RowsOf(m, l, K[j], rows, R))].look
                                             ELSE K[j].look]
  <2>1. RenamedFrom(B, k, m, l, list, rows)
    BY <1>5, RenamedList
  <2> HIDE DEF B
  <2> QED BY <2>1 DEF RenamedFrom
<1> HIDE DEF B, K, R
<1>7. /\ \A i \in 1..n : /\ Place(m, l, list[i]) \in DOMAIN models[m][l]
                         /\ Place(m, l, list[i]) \in Nat \ {0}
                         /\ models[m][l][Place(m, l, list[i])].data = list[i].data
      /\ \A i, j \in 1..n : Place(m, l, list[i]) = Place(m, l, list[j]) => i = j
  BY PlacesAre
<1>8. ASSUME NEW j \in 1..k
      PROVE  /\ g[j] \in 1..n /\ K[j] = list[g[j]] /\ at(j) # 0
             /\ RowsOf(m, l, K[j], rows, R) # {}
             /\ row[j] \in 1..N /\ rows[row[j]].orig = at(j)
  <2>1. g[j] \in HaveRows(m, l, list, n, rows) /\ K[j] = list[g[j]]
    BY <1>5 DEF OneToOne
  <2>2. PICK i \in 1..N : rows[i].orig = at(j)
    BY <1>1, <2>1 DEF HaveRows
  <2>3. i \in RowsOf(m, l, K[j], rows, R) /\ RowsOf(m, l, K[j], rows, R) \subseteq Nat
    BY <1>3, <2>2 DEF RowsOf
  <2>4. row[j] \in RowsOf(m, l, K[j], rows, R)
    BY <2>3, LeastIs
  <2> QED BY <1>3, <1>7, <2>1, <2>3, <2>4 DEF RowsOf, HaveRows
<1>9. OneToOne(row, 1..k, Old)
  <2>1. row \in [1..k -> Old]
    BY <1>8
  <2>2. ASSUME NEW i \in 1..k, NEW j \in 1..k, row[i] = row[j] PROVE i = j
    <3>1. g[i] = g[j]
      BY <1>7, <1>8, <2>2
    <3> QED BY <1>5, <3>1 DEF OneToOne
  <2>3. ASSUME NEW t \in Old PROVE \E j \in 1..k : row[j] = t
    <3>1. PICK i \in 1..n : Place(m, l, list[i]) = rows[t].orig
      BY <1>0, <1>2 DEF Known
    <3>2. i \in HaveRows(m, l, list, n, rows)
      BY <1>1, <3>1 DEF HaveRows
    <3>3. PICK j \in 1..k : g[j] = i
      BY <1>5, <3>2 DEF OneToOne
    <3>4. rows[row[j]].orig = rows[t].orig /\ row[j] \in 1..N /\ t \in 1..N /\ rows[t].orig # 0
      BY <1>8, <3>1, <3>3
    <3> QED BY <3>4 DEF AreRows
  <2> HIDE DEF row
  <2> QED BY <2>1, <2>2, <2>3 DEF OneToOne
<1>10. ASSUME NEW j \in 1..k
       PROVE  /\ B[j] = Item(rows[row[j]].name, B[j].look, Datum(m, l, rows[row[j]]))
              /\ l = "tmpls" => B[j].look = rows[row[j]].look
  <2>1. IsItem(K[j]) /\ K[j].data = Datum(m, l, rows[row[j]])
    <3>1. IsItem(K[j]) /\ K[j].data = models[m][l][at(j)].data
      BY <1>0, <1>7, <1>8
    <3> HIDE DEF row, at
    <3> QED BY <1>8, <3>1 DEF Datum
  <2>2. B[j] = [K[j] EXCEPT !.name = rows[row[j]].name,
                            !.look = IF l = "tmpls" THEN rows[row[j]].look ELSE K[j].look]
    BY <1>6, <1>8
  <2> HIDE DEF row
  <2>3. PICK b : b = IF l = "tmpls" THEN rows[row[j]].look ELSE K[j].look
    OBVIOUS
  <2>4. B[j] = [K[j] EXCEPT !.name = rows[row[j]].name, !.look = b]
    BY <2>2, <2>3
  <2>5. B[j] = Item(rows[row[j]].name, b, K[j].data)
    BY <2>1, <2>4, ItemExcept
  <2>6. B[j].look = b
    BY <2>5, ItemParts
  <2> QED BY <2>1, <2>3, <2>5, <2>6
<1>11. MadeOf(B, k, row, Old, m, l, rows)
  <2> HIDE DEF row, Old
  <2> QED BY <1>6, <1>9, <1>10 DEF MadeOf
<1>12. ASSUME NEW i \in 1..N, rows[i].orig # 0 PROVE rows[i].orig \in DOMAIN models[m][l]
  <2>1. PICK j \in 1..n : Place(m, l, list[j]) = rows[i].orig
    BY <1>0, <1>2, <1>12 DEF Known
  <2> QED BY <1>7, <2>1
<1> HIDE DEF row
<1> QED BY <1>11, <1>12 DEF B

(* The new rows get new items.                                               *)
LEMMA ExtendedIs ==
  ASSUME NEW m, NEW l, NEW rows, NEW N, AreRows(rows, N), NEW A, NEW k, NEW r,
         MadeOf(A, k, r, {i \in 1..N : rows[i].orig # 0}, m, l, rows)
  PROVE  \E t : MadeOf(Extended(A, rows), N, t, 1..N, m, l, rows)
<1> DEFINE Old == {i \in 1..N : rows[i].orig # 0}
           New == {i \in 1..N : rows[i].orig = 0}
           new == Ascending(New)
           c == Cardinality(New)
           more == [j \in DOMAIN new |-> Item(rows[new[j]].name, rows[new[j]].look, 0)]
           E == Extended(A, rows)
           t == [j \in 1..(k + c) |-> IF j <= k THEN r[j] ELSE new[j - k]]
<1>1. N \in Nat /\ DOMAIN rows = 1..N /\ New \in SUBSET (1..N)
  BY DEF AreRows, IsList
<1>2. c \in Nat /\ OneToOne(new, 1..c, New)
  <2> HIDE DEF New
  <2> QED BY <1>1, AscendingIs
<1>3. /\ k \in Nat /\ IsList(A, k) /\ OneToOne(r, 1..k, Old)
      /\ \A j \in 1..k : /\ A[j] = Item(rows[r[j]].name, A[j].look, Datum(m, l, rows[r[j]]))
                         /\ l = "tmpls" => A[j].look = rows[r[j]].look
  BY DEF MadeOf, IsList
<1>4. E = A \o more
  BY <1>1 DEF Extended
<1>5. DOMAIN new = 1..c
  BY <1>2 DEF OneToOne
<1>6. IsList(more, c) /\ \A j \in 1..c : more[j] = Item(rows[new[j]].name, rows[new[j]].look, 0)
  BY <1>2, <1>5 DEF IsList
<1> HIDE DEF more, E, c, new, New, Old
<1>7. /\ IsList(E, k + c) /\ \A j \in 1..k : E[j] = A[j]
      /\ \A j \in 1..c : E[k + j] = more[j]
  <2>1. /\ A \in Seq({A[i] : i \in DOMAIN A}) /\ Len(A) = k
        /\ more \in Seq({more[i] : i \in DOMAIN more}) /\ Len(more) = c
    <3>1. A \in Seq({A[i] : i \in DOMAIN A}) /\ Len(A) = k
      BY <1>3, ListIs
    <3>2. more \in Seq({more[i] : i \in DOMAIN more}) /\ Len(more) = c
      BY <1>6, ListIs
    <3> QED BY <3>1, <3>2
  <2> DEFINE S == {A[i] : i \in DOMAIN A} \cup {more[i] : i \in DOMAIN more}
  <2>2. A \in Seq(S) /\ more \in Seq(S)
    BY <2>1
  <2> HIDE DEF S
  <2>3. E \in Seq(S)
    BY <1>4, <2>2
  <2>5. Len(E) = k + c
    <3>1. Len(A \o more) = Len(A) + Len(more)
      BY <2>2
    <3> QED BY <1>4, <2>1, <3>1
  <2>4. (\A j \in 1..k : E[j] = A[j]) /\ \A j \in 1..c : E[k + j] = more[j]
    BY <1>2, <1>3, <1>4, <2>1, <2>2
  <2> QED BY <2>3, <2>4, <2>5, SeqIsList
<1>8. \A j \in 1..(k + c) : j \in 1..k \/ (~(j <= k) /\ j - k \in 1..c /\ k + (j - k) = j)
  BY <1>2, <1>3
<1>9. \A j \in 1..k : j \in 1..(k + c) /\ t[j] = r[j] /\ r[j] \in Old
  BY <1>2, <1>3 DEF OneToOne
<1>10. \A j \in 1..c : k + j \in 1..(k + c) /\ t[k + j] = new[j] /\ new[j] \in New
  <2> TAKE j \in 1..c
  <2>1. k + j \in 1..(k + c) /\ ~(k + j <= k) /\ (k + j) - k = j
    BY <1>2, <1>3
  <2>2. new[j] \in New
    BY <1>2 DEF OneToOne
  <2> DEFINE x == k + j
  <2>3. t[x] = new[x - k] /\ x - k = j
    <3> HIDE DEF x
    <3>1. x \in 1..(k + c) /\ ~(x <= k) /\ x - k = j
      BY <2>1 DEF x
    <3> QED BY <3>1
  <2> QED BY <2>1, <2>2, <2>3
<1> HIDE DEF t
<1>11. /\ Old \cup New = 1..N /\ Old \cap New = {}
       /\ \A x \in New : rows[x].orig = 0
  BY <1>1 DEF AreRows, Old, New
<1>12. OneToOne(t, 1..(k + c), 1..N)
  <2>1. t \in [1..(k + c) -> 1..N]
    <3>1. \A j \in 1..(k + c) : t[j] \in 1..N
      BY <1>8, <1>9, <1>10, <1>11
    <3> QED BY <3>1 DEF t
  <2>2. ASSUME NEW i \in 1..(k + c), NEW j \in 1..(k + c), t[i] = t[j] PROVE i = j
    <3>1. CASE i \in 1..k /\ j \in 1..k
      BY <1>3, <1>9, <2>2, <3>1 DEF OneToOne
    <3>2. CASE i \notin 1..k /\ j \notin 1..k
      <4>1. new[i - k] = new[j - k] /\ i - k \in 1..c /\ j - k \in 1..c
        BY <1>8, <1>10, <2>2, <3>2
      <4>2. i - k = j - k
        BY <1>2, <4>1 DEF OneToOne
      <4> QED BY <1>3, <4>2
    <3>3. CASE ~(i \in 1..k <=> j \in 1..k)
      BY <1>8, <1>9, <1>10, <1>11, <2>2, <3>3
    <3> QED BY <3>1, <3>2, <3>3
  <2>3. ASSUME NEW i \in 1..N PROVE \E j \in 1..(k + c) : t[j] = i
    <3>1. CASE i \in Old
      <4>1. PICK j \in 1..k : r[j] = i
        BY <1>3, <3>1 DEF OneToOne
      <4> QED BY <1>9, <4>1
    <3>2. CASE i \in New
      <4>1. PICK j \in 1..c : new[j] = i
        BY <1>2, <3>2 DEF OneToOne
      <4> QED BY <1>10, <4>1
    <3> QED BY <1>11, <3>1, <3>2
  <2> QED BY <2>1, <2>2, <2>3 DEF OneToOne
<1>13. k + c = N
  BY <1>1, <1>2, <1>3, <1>12, SameCounts
<1>14. ASSUME NEW j \in 1..(k + c)
       PROVE  /\ E[j] = Item(rows[t[j]].name, E[j].look, Datum(m, l, rows[t[j]]))
              /\ l = "tmpls" => E[j].look = rows[t[j]].look
  <2>1. CASE j \in 1..k
    BY <1>3, <1>7, <1>9, <2>1
  <2>2. CASE j \notin 1..k
    <3>1. E[j] = Item(rows[t[j]].name, rows[t[j]].look, 0) /\ t[j] \in New
      BY <1>6, <1>7, <1>8, <1>10, <2>2
    <3>2. rows[t[j]].orig = 0
      BY <1>11, <3>1
    <3>3. Datum(m, l, rows[t[j]]) = 0
      BY <3>2 DEF Datum
    <3> QED BY <3>1, <3>3, ItemParts
  <2> QED BY <2>1, <2>2
<1>15. MadeOf(E, N, t, 1..N, m, l, rows)
  BY <1>7, <1>12, <1>13, <1>14 DEF MadeOf
<1> QED BY <1>15 DEF E

(* To move an item is to permute the list.                                   *)
Rearranged(M, A, n, i, to, q) ==
  /\ IsList(M, n) /\ OneToOne(q, 1..n, 1..n) /\ q[to] = i
  /\ \A k \in 1..n : M[k] = A[q[k]]
  /\ to <= i => \A k \in 1..n : k < to => q[k] = k

LEMMA MovedIs ==
  ASSUME NEW n \in Nat, NEW A, IsList(A, n), NEW i \in 1..n, NEW to \in 1..n
  PROVE  \E q : Rearranged(Moved(A, i, to), A, n, i, to, q)
<1> DEFINE q == [k \in 1..n |-> IF k = to THEN i ELSE IF to < k /\ k <= i THEN k - 1
                                ELSE IF i <= k /\ k < to THEN k + 1 ELSE k]
           M == Moved(A, i, to)
<1>1. DOMAIN A = 1..n
  BY DEF IsList
<1>2. IsList(M, n)
  BY <1>1 DEF Moved, IsList
<1>3. \A k \in 1..n : M[k] = A[q[k]]
  BY <1>1 DEF Moved
<1>4. q \in [1..n -> 1..n]
  <2>1. \A k \in 1..n : q[k] \in 1..n
    OBVIOUS
  <2> QED BY <2>1
<1>5. \A j, k \in 1..n : q[j] = q[k] => j = k
  OBVIOUS
<1>6. q[to] = i /\ (to <= i => \A k \in 1..n : k < to => q[k] = k)
  OBVIOUS
<1> HIDE DEF q, M
<1>7. OneToOne(q, 1..n, 1..n)
  BY <1>4, <1>5, FirstNumbers, InjectionsFill
<1>8. Rearranged(M, A, n, i, to, q)
  BY <1>2, <1>3, <1>6, <1>7 DEF Rearranged
<1> QED BY <1>8 DEF M

(* One round of the ordering puts the item of its row at the row's place, and *)
(* leaves those before it where they are.                                    *)
OwnNames(rows, N) == \A i, j \in 1..N : rows[i].name = rows[j].name => i = j
Sorted(B, t, i, N, m, l, rows) ==
  /\ MadeOf(B, N, t, 1..N, m, l, rows)
  /\ OwnNames(rows, N) => \A k \in 1..i : t[k] = k /\ B[k].look = rows[k].look

LEMMA PlacedIs ==
  ASSUME NEW m, NEW l \in Lists, NEW rows, NEW N, AreRows(rows, N),
         NEW h, NEW i \in 1..N, i - 1 = h, NEW A, NEW r, Sorted(A, r, h, N, m, l, rows)
  PROVE  \E t : Sorted(Placed(l, A, rows[i], i), t, i, N, m, l, rows)
<1> DEFINE S == Named(A, rows[i].name)
           j == Least(S)
           C == IF l = "flds" THEN [A EXCEPT ![j].look = rows[i].look] ELSE A
           B == Placed(l, A, rows[i], i)
<1>1. /\ N \in Nat /\ IsList(A, N) /\ DOMAIN A = 1..N /\ OneToOne(r, 1..N, 1..N)
      /\ \A k \in 1..N : /\ A[k] = Item(rows[r[k]].name, A[k].look, Datum(m, l, rows[r[k]]))
                         /\ l = "tmpls" => A[k].look = rows[r[k]].look
  BY DEF Sorted, MadeOf, IsList
<1>2. \A k \in 1..N : r[k] \in 1..N /\ A[k].name = rows[r[k]].name /\ IsItem(A[k])
                      /\ A[k].data = Datum(m, l, rows[r[k]])
  <2> TAKE k \in 1..N
  <2>1. A[k].name = rows[r[k]].name /\ A[k].data = Datum(m, l, rows[r[k]])
    BY <1>1, ItemParts
  <2> QED BY <1>1, <2>1 DEF OneToOne, IsItem
<1>3. j \in 1..N /\ A[j].name = rows[i].name
  <2>1. PICK a \in 1..N : r[a] = i
    BY <1>1 DEF OneToOne
  <2>2. a \in S /\ S \subseteq Nat
    BY <1>1, <1>2, <2>1 DEF Named
  <2>3. j \in S
    BY <2>2, LeastIs
  <2> HIDE DEF j
  <2> QED BY <1>1, <2>3 DEF Named
<1> HIDE DEF j, S
<1>4. /\ IsList(C, N) /\ \A k \in 1..N : k # j => C[k] = A[k]
      /\ C[j] = IF l = "flds" THEN [A[j] EXCEPT !.look = rows[i].look] ELSE A[j]
  BY <1>1, <1>3 DEF IsList
<1>5. B = Moved(C, j, i)
  BY DEF Placed, S, j
<1> HIDE DEF B, C
<1>6. C[j] = Item(rows[r[j]].name, C[j].look, Datum(m, l, rows[r[j]]))
      /\ (l = "tmpls" => C[j] = A[j]) /\ (l = "flds" => C[j].look = rows[i].look)
  <2>1. CASE l = "flds"
    <3>1. C[j] = Item(A[j].name, rows[i].look, A[j].data)
      BY <1>2, <1>3, <1>4, <2>1, ItemExcept
    <3>2. C[j].look = rows[i].look
      BY <3>1, ItemParts
    <3> QED BY <1>2, <1>3, <2>1, <3>1, <3>2
  <2>2. CASE l = "tmpls"
    <3>1. C[j] = A[j]
      BY <1>4, <2>2
    <3> QED BY <1>1, <1>3, <2>2, <3>1
  <2> QED BY <2>1, <2>2 DEF Lists
<1>7. \A k \in 1..N : /\ C[k] = Item(rows[r[k]].name, C[k].look, Datum(m, l, rows[r[k]]))
                      /\ l = "tmpls" => C[k].look = rows[r[k]].look
  <2> TAKE k \in 1..N
  <2>1. CASE k = j
    BY <1>1, <1>3, <1>6, <2>1
  <2>2. CASE k # j
    BY <1>1, <1>4, <2>2
  <2> QED BY <2>1, <2>2
<1>8. N \in Nat /\ IsList(C, N) /\ j \in 1..N /\ i \in 1..N
  BY <1>1, <1>3, <1>4
<1>9. PICK q : Rearranged(B, C, N, j, i, q)
  BY <1>5, <1>8, MovedIs
<1>10. /\ IsList(B, N) /\ OneToOne(q, 1..N, 1..N) /\ q[i] = j
       /\ \A k \in 1..N : B[k] = C[q[k]]
       /\ i <= j => \A k \in 1..N : k < i => q[k] = k
  BY <1>9 DEF Rearranged
<1> DEFINE t == [k \in 1..N |-> r[q[k]]]
<1>11. \A k \in 1..N : q[k] \in 1..N /\ t[k] = r[q[k]]
  BY <1>10 DEF OneToOne
<1>12. OneToOne(t, 1..N, 1..N)
  <2>1. t \in [1..N -> 1..N]
    BY <1>2, <1>11
  <2>2. ASSUME NEW a \in 1..N, NEW b \in 1..N, t[a] = t[b] PROVE a = b
    <3>1. q[a] \in 1..N /\ q[b] \in 1..N /\ r[q[a]] = r[q[b]]
      BY <1>11, <2>2
    <3>2. q[a] = q[b]
      BY <1>1, <3>1 DEF OneToOne
    <3> QED BY <1>10, <3>2 DEF OneToOne
  <2> HIDE DEF t
  <2>3. ASSUME NEW x \in 1..N PROVE \E a \in 1..N : t[a] = x
    <3>1. PICK b \in 1..N : r[b] = x
      BY <1>1 DEF OneToOne
    <3>2. PICK a \in 1..N : q[a] = b
      BY <1>10 DEF OneToOne
    <3> QED BY <1>11, <3>1, <3>2
  <2> QED BY <2>1, <2>2, <2>3 DEF OneToOne
<1> HIDE DEF t
<1>13. MadeOf(B, N, t, 1..N, m, l, rows)
  <2>1. \A k \in 1..N : /\ B[k] = Item(rows[t[k]].name, B[k].look, Datum(m, l, rows[t[k]]))
                        /\ l = "tmpls" => B[k].look = rows[t[k]].look
    BY <1>7, <1>10, <1>11
  <2> QED BY <1>10, <1>12, <2>1 DEF MadeOf
<1>14. ASSUME OwnNames(rows, N), NEW k \in 1..i PROVE t[k] = k /\ B[k].look = rows[k].look
  <2>1. r[j] = i
    BY <1>2, <1>3, <1>14 DEF OwnNames
  <2>2. \A x \in 1..h : r[x] = x /\ A[x].look = rows[x].look
    BY <1>14 DEF Sorted
  <2>3. i <= j
    <3> SUFFICES ASSUME ~(i <= j) PROVE FALSE
      OBVIOUS
    <3>1. j \in 1..h /\ j # i
      BY <1>1, <1>3
    <3> QED BY <2>1, <2>2, <3>1
  <2>4. CASE k = i
    <3>1. t[k] = i /\ B[k] = C[j]
      BY <1>10, <1>11, <2>1, <2>4
    <3>2. C[j].look = rows[i].look
      BY <1>1, <1>3, <1>6, <2>1 DEF Lists
    <3> QED BY <2>4, <3>1, <3>2
  <2>5. CASE k # i
    <3>1. k \in 1..h /\ k \in 1..N /\ k < i /\ k # j
      BY <1>1, <1>3, <2>3, <2>5
    <3>2. q[k] = k
      BY <1>10, <2>3, <3>1
    <3> QED BY <1>4, <1>10, <1>11, <2>2, <3>1, <3>2
  <2> QED BY <2>4, <2>5
<1>15. Sorted(B, t, i, N, m, l, rows)
  BY <1>13, <1>14 DEF Sorted
<1> QED BY <1>15 DEF B

(* So does every round, up to the last row.                                  *)
OrderCourse(f, l, A, rows, N) ==
  f[0] = A /\ \A k \in 1..N : f[k] = Placed(l, f[k - 1], rows[k], k)

LEMMA OrderCourseExists ==
  ASSUME NEW l, NEW A, NEW rows, NEW N \in Nat, Len(rows) = N
  PROVE  \E f : OrderCourse(f, l, A, rows, N) /\ Ordered(l, A, rows) = f[N]
<1> DEFINE Is(f, n) == f = [k \in 0..n |-> IF k = 0 THEN A ELSE Placed(l, f[k - 1], rows[k], k)]
           S == {n \in Nat : \E f : Is(f, n)}
<1>1. 0 \in S
  <2>1. Is([k \in 0..0 |-> A], 0)
    OBVIOUS
  <2> QED BY <2>1
<1>2. ASSUME NEW n \in Nat, n \in S PROVE n + 1 \in S
  <2>1. PICK f : Is(f, n)
    BY <1>2
  <2> DEFINE g == [k \in 0..(n + 1) |-> IF k <= n THEN f[k] ELSE Placed(l, f[n], rows[n + 1], n + 1)]
  <2>2. ASSUME NEW k \in 0..(n + 1)
        PROVE  g[k] = IF k = 0 THEN A ELSE Placed(l, g[k - 1], rows[k], k)
    <3>1. CASE k <= n
      <4>1. k \in 0..n /\ (k # 0 => k - 1 \in 0..(n + 1) /\ k - 1 <= n)
        BY <3>1
      <4>2. g[k] = f[k] /\ (k # 0 => g[k - 1] = f[k - 1])
        BY <4>1
      <4>3. f[k] = IF k = 0 THEN A ELSE Placed(l, f[k - 1], rows[k], k)
        BY <2>1, <4>1
      <4> QED BY <4>2, <4>3
    <3>2. CASE k = n + 1
      <4>1. k # 0 /\ ~(k <= n) /\ k - 1 = n /\ n \in 0..(n + 1) /\ n <= n
        BY <3>2
      <4>2. g[k] = Placed(l, f[n], rows[n + 1], n + 1) /\ g[k - 1] = f[n]
        BY <4>1
      <4> QED BY <3>2, <4>1, <4>2
    <3> QED BY <3>1, <3>2
  <2>3. g = [k \in 0..(n + 1) |-> g[k]]
    OBVIOUS
  <2> HIDE DEF g
  <2>4. Is(g, n + 1)
    BY <2>2, <2>3
  <2> HIDE DEF Is
  <2> QED BY <2>4
<1> HIDE DEF S
<1>3. N \in S
  BY <1>1, <1>2, Inductive
<1> DEFINE f == CHOOSE f : Is(f, N)
<1>4. Is(f, N)
  <2> HIDE DEF Is
  <2> QED BY <1>3 DEF S
<1>5. Ordered(l, A, rows) = f[N]
  BY DEF Ordered
<1> HIDE DEF f
<1>6. \A k \in 0..N : f[k] = IF k = 0 THEN A ELSE Placed(l, f[k - 1], rows[k], k)
  BY <1>4
<1>7. OrderCourse(f, l, A, rows, N)
  BY <1>6 DEF OrderCourse
<1> QED BY <1>5, <1>7

LEMMA OrderedIs ==
  ASSUME NEW m, NEW l \in Lists, NEW rows, NEW N, AreRows(rows, N),
         NEW A, NEW r, MadeOf(A, N, r, 1..N, m, l, rows)
  PROVE  \E t : Sorted(Ordered(l, A, rows), t, N, N, m, l, rows)
<1>1. N \in Nat /\ Len(rows) = N
  BY ListIs DEF AreRows, IsList
<1>2. PICK f : OrderCourse(f, l, A, rows, N) /\ Ordered(l, A, rows) = f[N]
  BY <1>1, OrderCourseExists
<1> DEFINE S == {k \in Nat : k <= N => \E t : Sorted(f[k], t, k, N, m, l, rows)}
<1>3. 0 \in S
  <2>1. Sorted(A, r, 0, N, m, l, rows)
    <3>1. \A k \in 1..0 : FALSE
      OBVIOUS
    <3> QED BY <3>1 DEF Sorted
  <2> QED BY <1>2, <2>1 DEF OrderCourse
<1>4. ASSUME NEW k \in Nat, k \in S PROVE k + 1 \in S
  <2> SUFFICES ASSUME k + 1 <= N PROVE \E t : Sorted(f[k + 1], t, k + 1, N, m, l, rows)
    OBVIOUS
  <2> DEFINE i == k + 1
  <2>1. i \in 1..N /\ i - 1 = k /\ k <= N
    BY <1>1
  <2>2. PICK t : Sorted(f[k], t, k, N, m, l, rows)
    BY <1>4, <2>1
  <2> HIDE DEF i
  <2>3. \E u : Sorted(Placed(l, f[k], rows[i], i), u, i, N, m, l, rows)
    BY <2>1, <2>2, PlacedIs
  <2>4. f[i] = Placed(l, f[k], rows[i], i)
    BY <1>2, <2>1 DEF OrderCourse
  <2>5. \E u : Sorted(f[i], u, i, N, m, l, rows)
    BY <2>3, <2>4
  <2> QED BY <2>5 DEF i
<1> HIDE DEF S
<1>5. N \in S
  BY <1>1, <1>3, <1>4, Inductive
<1>6. N <= N
  BY <1>1
<1> QED BY <1>2, <1>5, <1>6 DEF S

(* What a save leaves in the dictionary: a list made of the rows, or one that *)
(* is still proper.                                                          *)
LEMMA FilledRows ==
  ASSUME NEW rows, NEW n, AreRows(rows, n), NEW filled \in Filled(rows)
  PROVE  \E N : AreRows(filled, N)
<1>1. n \in Nat /\ DOMAIN rows = 1..n
  BY DEF AreRows, IsList
<1>2. PICK s \in Arranged(rows) :
        filled \in {[k \in DOMAIN s |-> IF s[k] = 0 THEN Row(0, Name(t[k]), look)
                              ELSE Row(rows[s[k]].orig, Name(t[k]), look)]
          : t \in [DOMAIN s -> Titles], look \in Looks}
  BY DEF Filled
<1>3. PICK t, look :
        filled = [k \in DOMAIN s |-> IF s[k] = 0 THEN Row(0, Name(t[k]), look)
                              ELSE Row(rows[s[k]].orig, Name(t[k]), look)]
  BY <1>2
<1>4. PICK N \in 0..MaxItems : /\ s \in [1..N -> DOMAIN rows \cup {0}]
                               /\ \A i, j \in 1..N : i # j => s[i] # s[j] \/ s[i] = 0
  BY DEF Arranged
<1>5. N \in Nat
  BY ItemsAssumption
<1>6. filled = [k \in 1..N |-> IF s[k] = 0 THEN Row(0, Name(t[k]), look)
                              ELSE Row(rows[s[k]].orig, Name(t[k]), look)]
  BY <1>3, <1>4
<1>7. \A k \in 1..N : filled[k].orig = IF s[k] = 0 THEN 0 ELSE rows[s[k]].orig
  BY <1>6 DEF Row
<1>8. IsList(filled, N)
  BY <1>5, <1>6 DEF IsList
<1>9. \A k \in 1..N : s[k] # 0 => s[k] \in 1..n
  BY <1>1, <1>4
<1>10. \A i \in 1..N : filled[i].orig \in Nat
  BY <1>7, <1>9 DEF AreRows
<1>11. ASSUME NEW i \in 1..N, NEW j \in 1..N, filled[i].orig # 0, filled[i].orig = filled[j].orig
       PROVE  i = j
  <2>1. /\ s[i] \in 1..n /\ s[j] \in 1..n /\ s[i] # 0
        /\ rows[s[i]].orig # 0 /\ rows[s[i]].orig = rows[s[j]].orig
    BY <1>7, <1>9, <1>11
  <2>2. s[i] = s[j]
    BY <2>1 DEF AreRows
  <2> QED BY <1>4, <2>1, <2>2
<1> QED BY <1>8, <1>10, <1>11 DEF AreRows

LEMMA SavedIs ==
  ASSUME NEW m, NEW l \in Lists, NEW list, NEW n, Stands(m, l, list, n), NEW rows, NEW N, AreRows(rows, N),
         Saved(m, l, list, rows).ok
  PROVE  /\ \E t : Sorted(Saved(m, l, list, rows).list, t, N, N, m, l, rows)
         /\ \A i \in 1..N : rows[i].orig # 0 => rows[i].orig \in DOMAIN models[m][l]
<1> DEFINE A == Renamed(m, l, list, rows).list
           E == Extended(A, rows)
<1>1. Renamed(m, l, list, rows).ok /\ Saved(m, l, list, rows).list = Ordered(l, E, rows)
  BY DEF Saved
<1>2. /\ \E k, r : MadeOf(A, k, r, {i \in 1..N : rows[i].orig # 0}, m, l, rows)
      /\ \A i \in 1..N : rows[i].orig # 0 => rows[i].orig \in DOMAIN models[m][l]
  BY <1>1, RenamedIs
<1> HIDE DEF A
<1>3. PICK k, r : MadeOf(A, k, r, {i \in 1..N : rows[i].orig # 0}, m, l, rows)
  BY <1>2
<1>4. PICK u : MadeOf(E, N, u, 1..N, m, l, rows)
  BY <1>3, ExtendedIs
<1> HIDE DEF E
<1>5. \E t : Sorted(Ordered(l, E, rows), t, N, N, m, l, rows)
  BY <1>4, OrderedIs
<1> QED BY <1>1, <1>2, <1>5

LEMMA SavedStops ==
  ASSUME NEW m, NEW l, NEW list, NEW n, Stands(m, l, list, n), NEW rows, ~Saved(m, l, list, rows).ok
  PROVE  Proper(Saved(m, l, list, rows).list) /\ Within(Saved(m, l, list, rows).list, models[m][l])
<1>1. \/ Saved(m, l, list, rows).list = list
      \/ Saved(m, l, list, rows).list = Renamed(m, l, list, rows).list
  BY DEF Saved
<1>2. Proper(list) /\ Within(list, models[m][l])
  BY DEF Stands
<1>3. Proper(Renamed(m, l, list, rows).list) /\ Within(Renamed(m, l, list, rows).list, models[m][l])
  BY RenamedKeeps
<1> QED BY <1>1, <1>2, <1>3

---------------------------------------------------------------------------
(* What is written: items that have data of their own, and new ones.         *)
Writable(list, n) ==
  /\ IsList(list, n)
  /\ \A i \in 1..n : IsItem(list[i]) /\ list[i].data \in Nat
  /\ \A i, j \in 1..n : list[i].data # 0 /\ list[i].data = list[j].data => i = j

LEMMA MadeIsWritable ==
  ASSUME NEW m, NEW l, Proper(models[m][l]), NEW rows, NEW N, AreRows(rows, N), NEW A, NEW t,
         MadeOf(A, N, t, 1..N, m, l, rows),
         \A i \in 1..N : rows[i].orig # 0 => rows[i].orig \in DOMAIN models[m][l]
  PROVE  Writable(A, N)
<1>1. /\ IsList(A, N) /\ OneToOne(t, 1..N, 1..N)
      /\ \A j \in 1..N : A[j] = Item(rows[t[j]].name, A[j].look, Datum(m, l, rows[t[j]]))
  BY DEF MadeOf
<1>2. \A j \in 1..N : t[j] \in 1..N /\ A[j].data = Datum(m, l, rows[t[j]]) /\ IsItem(A[j])
  <2> TAKE j \in 1..N
  <2>1. A[j].name = rows[t[j]].name /\ A[j].data = Datum(m, l, rows[t[j]])
    BY <1>1, ItemParts
  <2> QED BY <1>1, <2>1 DEF OneToOne, IsItem
<1>3. /\ \A x \in DOMAIN models[m][l] : models[m][l][x].data \in Nat \ {0}
      /\ \A x, y \in DOMAIN models[m][l] : models[m][l][x].data = models[m][l][y].data => x = y
  BY DEF Proper
<1>4. \A j \in 1..N : A[j].data \in Nat
  BY <1>2, <1>3 DEF Datum
<1>5. ASSUME NEW i \in 1..N, NEW j \in 1..N, A[i].data # 0, A[i].data = A[j].data PROVE i = j
  <2> DEFINE a == rows[t[i]].orig
             b == rows[t[j]].orig
  <2>1. a # 0 /\ b # 0 /\ A[i].data = models[m][l][a].data /\ A[j].data = models[m][l][b].data
    BY <1>2, <1>5 DEF Datum
  <2>2. a = b
    BY <1>2, <1>3, <1>5, <2>1
  <2>3. t[i] = t[j]
    BY <1>2, <2>1, <2>2 DEF AreRows
  <2> QED BY <1>1, <2>3 DEF OneToOne
<1> QED BY <1>1, <1>2, <1>4, <1>5 DEF Writable

LEMMA ProperIsWritable ==
  ASSUME NEW list, Proper(list)
  PROVE  Writable(list, Len(list))
<1>1. IsList(list, Len(list)) /\ DOMAIN list = 1..Len(list)
  BY SeqIsList DEF Proper
<1> QED BY <1>1 DEF Proper, Writable, IsItem

(* A list whose items are drawn from a list, each from its own.              *)
TakenFrom(B, k, list, n, g) ==
  /\ IsList(B, k) /\ g \in [1..k -> 1..n] /\ \A i, j \in 1..k : g[i] = g[j] => i = j
  /\ \A j \in 1..k : IsItem(B[j]) /\ B[j].data = list[g[j]].data

LEMMA TakenIsWritable ==
  ASSUME NEW list, NEW n, Writable(list, n), NEW B, NEW k, NEW g, TakenFrom(B, k, list, n, g)
  PROVE  Writable(B, k)
<1>1. \A j \in 1..k : g[j] \in 1..n /\ IsItem(B[j]) /\ B[j].data = list[g[j]].data
  BY DEF TakenFrom
<1>2. \A j \in 1..k : B[j].data \in Nat
  BY <1>1 DEF Writable
<1>3. \A i, j \in 1..k : B[i].data # 0 /\ B[i].data = B[j].data => i = j
  BY <1>1 DEF Writable, TakenFrom
<1> QED BY <1>1, <1>2, <1>3 DEF TakenFrom, Writable

(* Anki finds data that no item has: there are more numbers than items.      *)
Spare(list, before, i) ==
  {e \in 1..(i + Len(list)) : \A y \in ToSet(before) \cup ToSet(list) : y.data # e}

LEMMA SomeAreSpare ==
  ASSUME NEW list, NEW n, IsList(list, n), NEW before, NEW k, IsList(before, k), NEW i \in Nat, i = k + 1
  PROVE  Spare(list, before, i) # {}
<1>1. /\ n \in Nat /\ k \in Nat /\ Len(list) = n /\ DOMAIN list = 1..n /\ DOMAIN before = 1..k
  BY ListIs DEF IsList
<1> SUFFICES ASSUME Spare(list, before, i) = {} PROVE FALSE
  OBVIOUS
<1> DEFINE Has(z, e) == (z <= k /\ before[z].data = e) \/ (~(z <= k) /\ list[z - k].data = e)
           M == 1..(i + n)
           T == 1..(k + n)
           h == [e \in M |-> CHOOSE z \in T : Has(z, e)]
<1>2. ASSUME NEW e \in M PROVE \E z \in T : Has(z, e)
  <2>1. PICK y \in ToSet(before) \cup ToSet(list) : y.data = e
    BY <1>1 DEF Spare
  <2>2. CASE y \in ToSet(before)
    <3>1. PICK z \in 1..k : before[z] = y
      BY <1>1, <2>2 DEF ToSet
    <3>2. z \in T /\ z <= k
      BY <1>1
    <3> QED BY <2>1, <3>1, <3>2
  <2>3. CASE y \in ToSet(list)
    <3>1. PICK x \in 1..n : list[x] = y
      BY <1>1, <2>3 DEF ToSet
    <3>2. k + x \in T /\ ~(k + x <= k) /\ (k + x) - k = x
      BY <1>1
    <3> DEFINE z == k + x
    <3>3. z \in T /\ ~(z <= k) /\ z - k = x
      BY <3>2
    <3> HIDE DEF z
    <3> QED BY <2>1, <3>1, <3>3
  <2> QED BY <2>2, <2>3
<1>3. \A e \in M : h[e] \in T /\ Has(h[e], e)
  <2> HIDE DEF M, T, Has
  <2> QED BY <1>2
<1>4. h \in [M -> T]
  BY <1>3
<1> HIDE DEF h
<1>5. \A e, f \in M : h[e] = h[f] => e = f
  BY <1>3
<1>6. /\ IsFiniteSet(M) /\ IsFiniteSet(T) /\ Cardinality(T) < Cardinality(M)
  <2>1. i + n \in Nat /\ k + n \in Nat /\ k + n < i + n
    BY <1>1
  <2>2. Cardinality(M) = i + n /\ Cardinality(T) = k + n
    BY <2>1, FirstNumbers
  <2> QED BY <2>1, <2>2, FirstNumbers
<1> HIDE DEF M, T
<1> QED BY <1>4, <1>5, <1>6, FS_PigeonHole

(* What Anki has written when it has come to an item.                        *)
Begun(B, k, list, n) ==
  /\ IsList(B, k)
  /\ \A j \in 1..k :
       /\ IsItem(B[j]) /\ B[j].data \in Nat \ {0}
       /\ list[j].data # 0 => B[j].data = list[j].data
       /\ list[j].data = 0 => \A x \in 1..n : B[j].data # list[x].data
  /\ \A a, b \in 1..k : B[a].data = B[b].data => a = b

LEMMA NumberedIs ==
  ASSUME NEW list, NEW n, Writable(list, n), NEW B, NEW k, Begun(B, k, list, n), NEW i \in 1..n, i = k + 1
  PROVE  Begun(Append(B, Numbered(list, i, B)), i, list, n)
<1> DEFINE y == Numbered(list, i, B)
           C == Append(B, y)
           d == Least(Spare(list, B, i))
<1>1. /\ n \in Nat /\ k \in Nat /\ IsList(list, n) /\ IsList(B, k) /\ i \in Nat
      /\ DOMAIN list = 1..n /\ DOMAIN B = 1..k /\ Len(list) = n
  BY ListIs DEF Writable, Begun, IsList
<1>2. d \in Nat \ {0} /\ (\A x \in 1..n : list[x].data # d) /\ \A j \in 1..k : B[j].data # d
  <2>1. Spare(list, B, i) # {}
    BY <1>1, SomeAreSpare
  <2>2. Spare(list, B, i) \subseteq Nat
    BY <1>1 DEF Spare
  <2>3. d \in Spare(list, B, i)
    BY <2>1, <2>2, LeastIs
  <2> HIDE DEF d
  <2>4. d \in 1..(i + n) /\ \A z \in ToSet(B) \cup ToSet(list) : z.data # d
    BY <1>1, <2>3 DEF Spare
  <2>5. \A x \in 1..n : list[x] \in ToSet(list)
    BY <1>1 DEF ToSet
  <2>6. \A j \in 1..k : B[j] \in ToSet(B)
    BY <1>1 DEF ToSet
  <2> QED BY <2>4, <2>5, <2>6
<1>3. IsItem(y) /\ y.data = IF list[i].data = 0 THEN d ELSE list[i].data
  <2>1. PICK a, b : y = Item(a, b, IF list[i].data = 0 THEN d ELSE list[i].data)
    BY DEF Numbered, Spare
  <2> HIDE DEF y, d
  <2> QED BY <2>1, ItemParts DEF IsItem
<1> HIDE DEF y, d
<1>4. IsList(C, i) /\ C[i] = y /\ \A j \in 1..k : C[j] = B[j]
  <2>1. B \in Seq({B[x] : x \in DOMAIN B}) /\ Len(B) = k
    BY <1>1, ListIs
  <2> DEFINE S == {B[x] : x \in DOMAIN B} \cup {y}
  <2>2. B \in Seq(S) /\ y \in S
    BY <2>1
  <2> HIDE DEF S
  <2>3. C \in Seq(S) /\ Len(C) = i
    BY <1>1, <2>1, <2>2
  <2>4. C[i] = y /\ \A j \in 1..k : C[j] = B[j]
    BY <1>1, <2>1, <2>2
  <2> QED BY <2>3, <2>4, SeqIsList
<1> HIDE DEF C
<1>5. \A j \in 1..i : j = i \/ (j \in 1..k /\ j # i)
  BY <1>1
<1>6. list[i].data \in Nat /\ \A j \in 1..n : list[i].data # 0 /\ list[i].data = list[j].data => i = j
  BY DEF Writable
<1>7. ASSUME NEW j \in 1..i
      PROVE  /\ IsItem(C[j]) /\ C[j].data \in Nat \ {0}
             /\ list[j].data # 0 => C[j].data = list[j].data
             /\ list[j].data = 0 => \A x \in 1..n : C[j].data # list[x].data
  <2>1. CASE j = i
    BY <1>2, <1>3, <1>4, <1>6, <2>1
  <2>2. CASE j # i
    BY <1>4, <1>5, <2>2 DEF Begun
  <2> QED BY <2>1, <2>2
<1>8. ASSUME NEW j \in 1..k PROVE B[j].data # y.data
  <2>1. CASE list[i].data = 0
    BY <1>2, <1>3, <2>1
  <2>2. CASE list[i].data # 0
    <3>1. y.data = list[i].data /\ j \in 1..n /\ j # i
      BY <1>1, <1>3, <2>2
    <3>2. CASE list[j].data = 0
      BY <3>1, <3>2 DEF Begun
    <3>3. CASE list[j].data # 0
      BY <1>6, <2>2, <3>1, <3>3 DEF Begun
    <3> QED BY <3>2, <3>3
  <2> QED BY <2>1, <2>2
<1>9. \A a, b \in 1..i : C[a].data = C[b].data => a = b
  <2> SUFFICES ASSUME NEW a \in 1..i, NEW b \in 1..i, C[a].data = C[b].data PROVE a = b
    OBVIOUS
  <2>1. CASE a = i \/ b = i
    BY <1>4, <1>5, <1>8, <2>1
  <2>2. CASE a # i /\ b # i
    BY <1>4, <1>5, <2>2 DEF Begun
  <2> QED BY <2>1, <2>2
<1>10. Begun(C, i, list, n)
  BY <1>4, <1>7, <1>9 DEF Begun
<1> QED BY <1>10 DEF C, y

(* What Anki writes of a list that is writable is proper.                    *)
WriteCourse(f, list, N) ==
  f[0] = <<>> /\ \A k \in 1..N : f[k] = Append(f[k - 1], Numbered(list, k, f[k - 1]))

LEMMA WriteCourseExists ==
  ASSUME NEW list, NEW N \in Nat, Len(list) = N
  PROVE  \E f : WriteCourse(f, list, N) /\ Written(list) = f[N]
<1> DEFINE Is(f, n) == f = [k \in 0..n |-> IF k = 0 THEN <<>> ELSE Append(f[k - 1], Numbered(list, k, f[k - 1]))]
           S == {n \in Nat : \E f : Is(f, n)}
<1>1. 0 \in S
  <2>1. Is([k \in 0..0 |-> <<>>], 0)
    OBVIOUS
  <2> QED BY <2>1
<1>2. ASSUME NEW n \in Nat, n \in S PROVE n + 1 \in S
  <2>1. PICK f : Is(f, n)
    BY <1>2
  <2> DEFINE g == [k \in 0..(n + 1) |->
                     IF k <= n THEN f[k] ELSE Append(f[n], Numbered(list, n + 1, f[n]))]
  <2>2. ASSUME NEW k \in 0..(n + 1)
        PROVE  g[k] = IF k = 0 THEN <<>> ELSE Append(g[k - 1], Numbered(list, k, g[k - 1]))
    <3>1. CASE k <= n
      <4>1. k \in 0..n /\ (k # 0 => k - 1 \in 0..(n + 1) /\ k - 1 <= n)
        BY <3>1
      <4>2. g[k] = f[k] /\ (k # 0 => g[k - 1] = f[k - 1])
        BY <4>1
      <4>3. f[k] = IF k = 0 THEN <<>> ELSE Append(f[k - 1], Numbered(list, k, f[k - 1]))
        BY <2>1, <4>1
      <4> QED BY <4>2, <4>3
    <3>2. CASE k = n + 1
      <4>1. k # 0 /\ ~(k <= n) /\ k - 1 = n /\ n \in 0..(n + 1) /\ n <= n
        BY <3>2
      <4>2. g[k] = Append(f[n], Numbered(list, n + 1, f[n])) /\ g[k - 1] = f[n]
        BY <4>1
      <4> QED BY <3>2, <4>1, <4>2
    <3> QED BY <3>1, <3>2
  <2>3. g = [k \in 0..(n + 1) |-> g[k]]
    OBVIOUS
  <2> HIDE DEF g
  <2>4. Is(g, n + 1)
    BY <2>2, <2>3
  <2> HIDE DEF Is
  <2> QED BY <2>4
<1> HIDE DEF S
<1>3. N \in S
  BY <1>1, <1>2, Inductive
<1> DEFINE f == CHOOSE f : Is(f, N)
<1>4. Is(f, N)
  <2> HIDE DEF Is
  <2> QED BY <1>3 DEF S
<1>5. Written(list) = f[N]
  BY DEF Written
<1> HIDE DEF f
<1>6. \A k \in 0..N : f[k] = IF k = 0 THEN <<>> ELSE Append(f[k - 1], Numbered(list, k, f[k - 1]))
  BY <1>4
<1>7. WriteCourse(f, list, N)
  <2>1. 0 \in 0..N /\ \A k \in 1..N : k \in 0..N /\ k # 0
    OBVIOUS
  <2>2. f[0] = <<>>
    BY <1>6, <2>1
  <2>3. ASSUME NEW k \in 1..N PROVE f[k] = Append(f[k - 1], Numbered(list, k, f[k - 1]))
    BY <1>6, <2>1
  <2> QED BY <2>2, <2>3 DEF WriteCourse
<1> QED BY <1>5, <1>7

LEMMA WrittenIs ==
  ASSUME NEW list, NEW n, Writable(list, n)
  PROVE  Proper(Written(list))
<1>1. n \in Nat /\ Len(list) = n
  BY ListIs DEF Writable, IsList
<1>2. PICK f : WriteCourse(f, list, n) /\ Written(list) = f[n]
  BY <1>1, WriteCourseExists
<1> DEFINE S == {k \in Nat : k <= n => Begun(f[k], k, list, n)}
<1>3. 0 \in S
  <2>1. f[0] = <<>> /\ 0 \in Nat
    BY <1>2 DEF WriteCourse
  <2>2. \A j \in 1..0 : FALSE
    OBVIOUS
  <2>3. IsList(<<>>, 0)
    BY <2>2 DEF IsList
  <2>4. Begun(<<>>, 0, list, n)
    BY <2>2, <2>3 DEF Begun
  <2> QED BY <2>1, <2>4
<1>4. ASSUME NEW k \in Nat, k \in S PROVE k + 1 \in S
  <2> SUFFICES ASSUME k + 1 <= n PROVE Begun(f[k + 1], k + 1, list, n)
    OBVIOUS
  <2> DEFINE i == k + 1
  <2>1. i \in 1..n /\ i = k + 1 /\ i - 1 = k /\ k <= n
    BY <1>1
  <2>2. Begun(f[k], k, list, n)
    BY <1>4, <2>1
  <2> HIDE DEF i
  <2>3. Begun(Append(f[k], Numbered(list, i, f[k])), i, list, n)
    BY <2>1, <2>2, NumberedIs
  <2>4. f[i] = Append(f[k], Numbered(list, i, f[k]))
    BY <1>2, <2>1 DEF WriteCourse
  <2>5. Begun(f[i], i, list, n)
    BY <2>3, <2>4
  <2> QED BY <2>5 DEF i
<1> HIDE DEF S
<1>5. n \in S
  BY <1>1, <1>3, <1>4, Inductive
<1> DEFINE B == Written(list)
<1>6. Begun(B, n, list, n)
  <2>1. n <= n
    BY <1>1
  <2> QED BY <1>2, <1>5, <2>1 DEF S
<1> HIDE DEF B
<1>7. B \in Seq({B[i] : i \in DOMAIN B}) /\ DOMAIN B = 1..n
  BY <1>6, ListIs DEF Begun
<1>8. Proper(B)
  BY <1>6, <1>7 DEF Begun, IsItem, Proper
<1> QED BY <1>8 DEF B

(* ---- the actions on models ---- *)
LEMMA SameData ==
  ASSUME NEW list, NEW n, Writable(list, n), NEW B, IsList(B, n),
         \A j \in 1..n : IsItem(B[j]) /\ B[j].data = list[j].data
  PROVE  Writable(B, n)
BY DEF Writable

LEMMA ItemSet ==
  ASSUME NEW list, NEW n, Writable(list, n), NEW k \in 1..n, NEW a
  PROVE  /\ Writable([list EXCEPT ![k].look = a], n)
         /\ Writable([list EXCEPT ![k].name = a], n)
         /\ Writable([i \in DOMAIN list |-> [list[i] EXCEPT !.look = a]], n)
<1>1. n \in Nat /\ IsList(list, n) /\ DOMAIN list = 1..n /\ \A j \in 1..n : IsItem(list[j])
  BY DEF Writable, IsList
<1>2. ASSUME NEW B, IsList(B, n),
             \A j \in 1..n : \/ B[j] = list[j] \/ B[j] = [list[j] EXCEPT !.look = a]
                             \/ B[j] = [list[j] EXCEPT !.name = a]
      PROVE  Writable(B, n)
  <2>1. ASSUME NEW j \in 1..n PROVE IsItem(B[j]) /\ B[j].data = list[j].data
    <3>1. /\ [list[j] EXCEPT !.look = a] = Item(list[j].name, a, list[j].data)
          /\ [list[j] EXCEPT !.name = a] = Item(a, list[j].look, list[j].data)
      BY <1>1, ItemExcept
    <3>2. \/ B[j] = list[j] \/ B[j] = Item(list[j].name, a, list[j].data)
          \/ B[j] = Item(a, list[j].look, list[j].data)
      BY <1>2, <3>1
    <3> QED BY <1>1, <3>2, ItemParts DEF IsItem
  <2> QED BY <1>2, <2>1, SameData
<1>3. Writable([list EXCEPT ![k].look = a], n)
  <2> DEFINE B == [list EXCEPT ![k].look = a]
  <2>1. IsList(B, n) /\ \A j \in 1..n : B[j] = list[j] \/ B[j] = [list[j] EXCEPT !.look = a]
    BY <1>1 DEF IsList
  <2> HIDE DEF B
  <2>2. Writable(B, n)
    BY <1>2, <2>1
  <2> QED BY <2>2 DEF B
<1>4. Writable([list EXCEPT ![k].name = a], n)
  <2> DEFINE B == [list EXCEPT ![k].name = a]
  <2>1. IsList(B, n) /\ \A j \in 1..n : B[j] = list[j] \/ B[j] = [list[j] EXCEPT !.name = a]
    BY <1>1 DEF IsList
  <2> HIDE DEF B
  <2>2. Writable(B, n)
    BY <1>2, <2>1
  <2> QED BY <2>2 DEF B
<1>5. Writable([i \in DOMAIN list |-> [list[i] EXCEPT !.look = a]], n)
  <2> DEFINE B == [i \in DOMAIN list |-> [list[i] EXCEPT !.look = a]]
  <2>1. IsList(B, n) /\ \A j \in 1..n : B[j] = [list[j] EXCEPT !.look = a]
    BY <1>1 DEF IsList
  <2> HIDE DEF B
  <2>2. Writable(B, n)
    BY <1>2, <2>1
  <2> QED BY <2>2 DEF B
<1> QED BY <1>3, <1>4, <1>5

LEMMA ItemMoved ==
  ASSUME NEW list, NEW n, Writable(list, n), NEW k \in 1..n, NEW i \in 1..n
  PROVE  Writable(Moved(list, k, i), n)
<1> DEFINE B == Moved(list, k, i)
<1>1. n \in Nat /\ IsList(list, n)
  BY DEF Writable, IsList
<1>2. PICK q : Rearranged(B, list, n, k, i, q)
  BY <1>1, MovedIs
<1> HIDE DEF B
<1>3. /\ IsList(B, n) /\ q \in [1..n -> 1..n] /\ \A a, b \in 1..n : q[a] = q[b] => a = b
      /\ \A j \in 1..n : B[j] = list[q[j]]
  BY <1>2 DEF Rearranged, OneToOne
<1>4. \A j \in 1..n : IsItem(B[j]) /\ B[j].data = list[q[j]].data
  BY <1>3 DEF Writable
<1>5. TakenFrom(B, n, list, n, q)
  BY <1>3, <1>4 DEF TakenFrom
<1> QED BY <1>5, TakenIsWritable DEF B

LEMMA ItemRemoved ==
  ASSUME NEW list, NEW n, Writable(list, n), NEW k \in 1..n
  PROVE  Writable(RemoveAt(list, k), n - 1)
<1> DEFINE S == {list[j] : j \in DOMAIN list}
           B == RemoveAt(list, k)
           g == [j \in 1..(n - 1) |-> IF j < k THEN j ELSE j + 1]
<1>1. n \in Nat \ {0} /\ list \in Seq(S) /\ Len(list) = n /\ k \in 1..n
  <2>1. IsList(list, n)
    BY DEF Writable
  <2>2. list \in Seq(S) /\ Len(list) = n
    BY <2>1, ListIs
  <2>3. n \in Nat \ {0}
    BY <2>1 DEF IsList
  <2> QED BY <2>2, <2>3
<1> HIDE DEF S
<1> DEFINE P == SubSeq(list, 1, k - 1)
           Q == SubSeq(list, k + 1, n)
<1>2. /\ P \in Seq(S) /\ Len(P) = k - 1 /\ \A j \in 1..(k - 1) : P[j] = list[j]
  BY <1>1
<1>3. /\ Q \in Seq(S) /\ Len(Q) = n - k /\ \A j \in 1..(n - k) : Q[j] = list[k + j]
  BY <1>1
<1>4. B = P \o Q
  BY <1>1 DEF RemoveAt
<1> HIDE DEF P, Q, B
<1>5. B \in Seq(S) /\ Len(B) = n - 1
  <2>1. P \in Seq(S) /\ Q \in Seq(S)
    BY <1>2, <1>3
  <2>2. P \o Q \in Seq(S) /\ Len(P \o Q) = Len(P) + Len(Q)
    BY <2>1
  <2>3. Len(P) = k - 1 /\ Len(Q) = n - k
    BY <1>2, <1>3
  <2> QED BY <1>1, <1>4, <2>2, <2>3
<1>6. ASSUME NEW j \in 1..(n - 1) PROVE g[j] \in 1..n /\ B[j] = list[g[j]]
  <2>1. CASE j < k
    <3>1. j \in 1..Len(P) /\ j \in 1..(k - 1)
      BY <1>1, <1>2, <2>1
    <3>2. B[j] = P[j]
      BY <1>2, <1>3, <1>4, <3>1
    <3> QED BY <1>1, <1>2, <2>1, <3>1, <3>2
  <2>2. CASE ~(j < k)
    <3> DEFINE i == j - (k - 1)
    <3>1. i \in 1..(n - k) /\ j = (k - 1) + i /\ k + i = j + 1 /\ j + 1 \in 1..n
      BY <1>1, <2>2
    <3> HIDE DEF i
    <3>2. i \in 1..Len(Q) /\ j = Len(P) + i
      BY <1>2, <1>3, <3>1
    <3>3. B[j] = Q[i]
      <4>1. P \in Seq(S) /\ Q \in Seq(S)
        BY <1>2, <1>3
      <4> QED BY <1>4, <3>2, <4>1
    <3>4. Q[i] = list[k + i]
      BY <1>3, <3>1
    <3> QED BY <2>2, <3>1, <3>3, <3>4
  <2> QED BY <2>1, <2>2
<1>7. g \in [1..(n - 1) -> 1..n]
  BY <1>6
<1>8. \A a, b \in 1..(n - 1) : g[a] = g[b] => a = b
  BY <1>1
<1> HIDE DEF g
<1>9. IsList(B, n - 1)
  BY <1>5, SeqIsList
<1>10. \A j \in 1..(n - 1) : IsItem(B[j]) /\ B[j].data = list[g[j]].data
  BY <1>6 DEF Writable
<1>11. TakenFrom(B, n - 1, list, n, g)
  BY <1>7, <1>8, <1>9, <1>10 DEF TakenFrom
<1> QED BY <1>11, TakenIsWritable DEF B

LEMMA ItemAppended ==
  ASSUME NEW list, NEW n, Writable(list, n), NEW a, NEW b
  PROVE  Writable(Append(list, Item(a, b, 0)), n + 1)
<1> DEFINE x == Item(a, b, 0)
           B == Append(list, x)
           S == {list[j] : j \in DOMAIN list} \cup {x}
<1>1. n \in Nat /\ list \in Seq({list[j] : j \in DOMAIN list}) /\ Len(list) = n
  BY ListIs DEF Writable, IsList
<1>2. IsItem(x) /\ x.data = 0
  BY ItemParts DEF IsItem
<1>3. list \in Seq(S) /\ x \in S
  BY <1>1
<1> HIDE DEF S, x
<1>4. B \in Seq(S) /\ Len(B) = n + 1
  BY <1>1, <1>3
<1>5. B[n + 1] = x /\ \A j \in 1..n : B[j] = list[j]
  BY <1>1, <1>3
<1> HIDE DEF B
<1>6. IsList(B, n + 1)
  BY <1>4, SeqIsList
<1>7. \A j \in 1..(n + 1) : j = n + 1 \/ j \in 1..n
  BY <1>1
<1>8. \A j \in 1..(n + 1) : IsItem(B[j]) /\ B[j].data \in Nat
  BY <1>2, <1>5, <1>7 DEF Writable
<1>9. \A i, j \in 1..(n + 1) : B[i].data # 0 /\ B[i].data = B[j].data => i = j
  BY <1>2, <1>5, <1>7 DEF Writable
<1>10. Writable(B, n + 1)
  BY <1>6, <1>8, <1>9 DEF Writable
<1> QED BY <1>10 DEF B, x

LEMMA ChangesAreWritable ==
  ASSUME NEW list, NEW n, Writable(list, n), NEW l, NEW new \in Changes(l, list)
  PROVE  \E k : Writable(new, k)
<1> DEFINE names == {list[i].name : i \in DOMAIN list}
           at(a) == Least(Named(list, a))
<1>1. n \in Nat /\ DOMAIN list = 1..n
  BY DEF Writable, IsList
<1>2. ASSUME NEW a \in names PROVE at(a) \in 1..n
  <2>1. Named(list, a) # {} /\ Named(list, a) \subseteq 1..n /\ Named(list, a) \subseteq Nat
    BY <1>1 DEF Named
  <2> QED BY <2>1, LeastIs
<1> HIDE DEF at
<1>3. \/ \E a \in names, look \in Looks : new = [list EXCEPT ![at(a)].look = look]
      \/ \E look \in Looks : new = [i \in DOMAIN list |-> [list[i] EXCEPT !.look = look]]
      \/ \E a \in names, t \in Titles : new = [list EXCEPT ![at(a)].name = Name(t)]
      \/ \E a \in names, i \in DOMAIN list : new = Moved(list, at(a), i)
      \/ \E a \in names : new = RemoveAt(list, at(a))
      \/ \E a, b : new = Append(list, Item(a, b, 0))
  BY DEF Changes, at
<1>4. CASE \E a \in names, look \in Looks : new = [list EXCEPT ![at(a)].look = look]
  <2>1. PICK a \in names, look \in Looks : new = [list EXCEPT ![at(a)].look = look]
    BY <1>4
  <2>2. Writable([list EXCEPT ![at(a)].look = look], n)
    BY <1>2, ItemSet
  <2> QED BY <2>1, <2>2
<1>5. CASE \E look \in Looks : new = [i \in DOMAIN list |-> [list[i] EXCEPT !.look = look]]
  <2>1. CASE n = 0
    <3>1. \A j \in 1..n : FALSE
      BY <2>1
    <3>2. IsList(new, n)
      BY <1>1, <1>5 DEF IsList
    <3>3. Writable(new, n)
      BY <3>1, <3>2 DEF Writable
    <3> QED BY <3>3
  <2>2. CASE n # 0
    <3>1. 1 \in 1..n
      BY <1>1, <2>2
    <3>2. PICK look \in Looks : new = [i \in DOMAIN list |-> [list[i] EXCEPT !.look = look]]
      BY <1>5
    <3>3. Writable([i \in DOMAIN list |-> [list[i] EXCEPT !.look = look]], n)
      BY <3>1, ItemSet
    <3> QED BY <3>2, <3>3
  <2> QED BY <2>1, <2>2
<1>6. CASE \E a \in names, t \in Titles : new = [list EXCEPT ![at(a)].name = Name(t)]
  <2>1. PICK a \in names, t \in Titles : new = [list EXCEPT ![at(a)].name = Name(t)]
    BY <1>6
  <2>2. Writable([list EXCEPT ![at(a)].name = Name(t)], n)
    BY <1>2, ItemSet
  <2> QED BY <2>1, <2>2
<1>7. CASE \E a \in names, i \in DOMAIN list : new = Moved(list, at(a), i)
  BY <1>1, <1>2, <1>7, ItemMoved
<1>8. CASE \E a \in names : new = RemoveAt(list, at(a))
  BY <1>2, <1>8, ItemRemoved
<1>9. CASE \E a, b : new = Append(list, Item(a, b, 0))
  BY <1>9, ItemAppended
<1> QED BY <1>3, <1>4, <1>5, <1>6, <1>7, <1>8, <1>9

---------------------------------------------------------------------------
(* The data of the items.  Every type that is stored, now or before a job,   *)
(* has its own data in each item; what is cached of a type has data that is  *)
(* stored; and a form names each place once.                                 *)
ProperTypes(types) == \A m \in Models, l \in Lists : types[m] # None => Proper(types[m][l])
CachedStands ==
  \A m \in Models : cached[m] # None =>
    /\ models[m] # None
    /\ \A l \in Lists : Proper(cached[m][l]) /\ Within(cached[m][l], models[m][l])
FormsNamePlaces == \A p \in Sheets : sheet[p] # None => \E n : AreRows(sheet[p].rows, n)
DataInv ==
  /\ ProperTypes(models) /\ \A i \in DOMAIN earlier : ProperTypes(earlier[i])
  /\ CachedStands /\ FormsNamePlaces

LEMMA ListPut ==
  ASSUME NEW d, Dict(d), NEW l \in Lists, NEW x
  PROVE  \A k \in Lists : Swapped(d, l, x)[k] = IF k = l THEN x ELSE d[k]
<1> SUFFICES ASSUME NEW a, NEW b, NEW c, d = [flds |-> a, tmpls |-> b, head |-> c], NEW k \in Lists
             PROVE  Swapped(d, l, x)[k] = IF k = l THEN x ELSE d[k]
  BY DEF Dict
<1>1. CASE k = "flds"
  BY <1>1 DEF Lists, Swapped
<1>2. CASE k = "tmpls"
  BY <1>2 DEF Lists, Swapped
<1> QED BY <1>1, <1>2 DEF Lists

LEMMA HeadPut ==
  ASSUME NEW d, Dict(d), NEW x
  PROVE  \A k \in Lists : [d EXCEPT !.head = x][k] = d[k]
<1> SUFFICES ASSUME NEW a, NEW b, NEW c, d = [flds |-> a, tmpls |-> b, head |-> c]
             PROVE  \A k \in Lists : [d EXCEPT !.head = x][k] = d[k]
  BY DEF Dict
<1>1. [d EXCEPT !.head = x] = [flds |-> a, tmpls |-> b, head |-> x]
  OBVIOUS
<1> QED BY <1>1 DEF Lists

LEMMA GotStands ==
  ASSUME DataInv, NEW m \in There, NEW l \in Lists
  PROVE  \E n : Stands(m, l, Got(m)[l], n)
<1> DEFINE list == Got(m)[l]
<1>1. m \in Models /\ models[m] # None /\ Proper(models[m][l])
  BY DEF There, DataInv, ProperTypes
<1>2. Proper(list) /\ Within(list, models[m][l])
  <2>1. CASE cached[m] = None
    BY <1>1, <2>1 DEF Got, Within
  <2>2. CASE cached[m] # None
    BY <1>1, <2>2 DEF Got, DataInv, CachedStands
  <2> QED BY <2>1, <2>2
<1> HIDE DEF list
<1>3. IsList(list, Len(list))
  BY <1>2, SeqIsList DEF Proper
<1>4. Stands(m, l, list, Len(list))
  BY <1>1, <1>2, <1>3 DEF Stands
<1> QED BY <1>4 DEF list

LEMMA WrittenDict ==
  ASSUME NEW d, \A l \in Lists : \E k : Writable(d[l], k), NEW l \in Lists
  PROVE  Proper(AsWritten(d)[l])
<1>1. \A k \in Lists : Proper(Written(d[k]))
  <2> TAKE k \in Lists
  <2>1. PICK n : Writable(d[k], n)
    OBVIOUS
  <2> QED BY <2>1, WrittenIs
<1>2. CASE l = "flds"
  <2>1. AsWritten(d)[l] = Written(d["flds"])
    BY <1>2 DEF AsWritten
  <2> QED BY <1>1, <2>1 DEF Lists
<1>3. CASE l = "tmpls"
  <2>1. AsWritten(d)[l] = Written(d["tmpls"])
    BY <1>3 DEF AsWritten
  <2> QED BY <1>1, <2>1 DEF Lists
<1> QED BY <1>2, <1>3 DEF Lists

LEMMA EarlierProper ==
  ASSUME TypesInv, DataInv, earlier' = earlier \/ earlier' = Append(earlier, models)
  PROVE  \A i \in DOMAIN earlier' : ProperTypes(earlier'[i])
<1>1. PICK S : earlier \in Seq(S)
  BY DEF TypesInv, TypesAreWhole
<1>2. ProperTypes(models) /\ \A i \in DOMAIN earlier : ProperTypes(earlier[i])
  BY DEF DataInv
<1>3. CASE earlier' = earlier
  BY <1>2, <1>3
<1>4. CASE earlier' = Append(earlier, models)
  <2>1. \A i \in DOMAIN earlier' : earlier'[i] = models \/ \E j \in DOMAIN earlier : earlier'[i] = earlier[j]
    BY <1>1, <1>4, OneMore
  <2> QED BY <1>2, <2>1
<1> QED BY <1>3, <1>4

(* A type is put in the place of one whose dictionary is dropped.            *)
LEMMA PutData ==
  ASSUME TypesInv, DataInv, NEW m \in Models, NEW d, \A l \in Lists : \E k : Writable(d[l], k),
         models' = [models EXCEPT ![m] = AsWritten(d)], sheet' = sheet,
         earlier' = earlier \/ earlier' = Append(earlier, models), cached'[m] = None,
         \A n \in Models \ {m} : cached'[n] = cached[n] \/ (models[n] # None /\ cached'[n] = Got(n))
  PROVE  DataInv'
<1>1. Dict(AsWritten(d))
  BY DEF AsWritten, Dict
<1>2. /\ models'[m] = AsWritten(d) /\ \A n \in Models \ {m} : models'[n] = models[n]
  BY <1>1, PutType
<1>3. ProperTypes(models')
  <2> SUFFICES ASSUME NEW n \in Models, NEW l \in Lists, models'[n] # None PROVE Proper(models'[n][l])
    BY DEF ProperTypes
  <2>1. CASE n = m
    BY <1>2, <2>1, WrittenDict
  <2>2. CASE n # m
    BY <1>2, <2>2 DEF DataInv, ProperTypes
  <2> QED BY <2>1, <2>2
<1>4. CachedStands'
  <2> SUFFICES ASSUME NEW n \in Models, cached'[n] # None
               PROVE  /\ models'[n] # None
                      /\ \A l \in Lists : Proper(cached'[n][l]) /\ Within(cached'[n][l], models'[n][l])
    BY DEF CachedStands
  <2>1. n # m /\ models'[n] = models[n]
    BY <1>2
  <2>2. CASE cached'[n] = cached[n]
    BY <2>1, <2>2 DEF DataInv, CachedStands
  <2>3. CASE models[n] # None /\ cached'[n] = Got(n)
    <3>1. n \in There
      BY <2>3 DEF There
    <3>2. \A l \in Lists : Proper(Got(n)[l]) /\ Within(Got(n)[l], models[n][l])
      BY <3>1, GotStands DEF Stands
    <3> QED BY <2>1, <2>3, <3>2
  <2> QED BY <2>1, <2>2, <2>3
<1>5. FormsNamePlaces'
  BY DEF DataInv, FormsNamePlaces
<1> QED BY <1>3, <1>4, <1>5, EarlierProper DEF DataInv

LEMMA UpdateData ==
  ASSUME TypesInv, DataInv, NEW m \in Models, NEW d, \A l \in Lists : \E k : Writable(d[l], k),
         Update(m, d)
  PROVE  DataInv'
<1>1. sheet' = sheet /\ cached' = [cached EXCEPT ![m] = None]
      /\ (earlier' = earlier \/ earlier' = Append(earlier, models))
  BY DEF Update
<1>2. cached'[m] = None /\ \A n \in Models \ {m} : cached'[n] = cached[n]
  BY <1>1, CachedExcept, Parts
<1>3. models' = models \/ models' = [models EXCEPT ![m] = AsWritten(d)]
  BY DEF Update
<1>4. CASE models' = models
  <2>1. CachedStands'
    BY <1>2, <1>4 DEF DataInv, CachedStands
  <2>2. FormsNamePlaces'
    BY <1>1 DEF DataInv, FormsNamePlaces
  <2>3. ProperTypes(models')
    BY <1>4 DEF DataInv, ProperTypes
  <2> QED BY <1>1, <2>1, <2>2, <2>3, EarlierProper DEF DataInv
<1>5. CASE models' = [models EXCEPT ![m] = AsWritten(d)]
  BY <1>1, <1>2, <1>5, PutData
<1> QED BY <1>3, <1>4, <1>5

LEMMA CachingData ==
  ASSUME TypesInv, DataInv, NEW m \in There, NEW d, Dict(d), cached' = [cached EXCEPT ![m] = d],
         UNCHANGED <<models, earlier>>, FormsNamePlaces',
         \A l \in Lists : Proper(d[l]) /\ Within(d[l], models[m][l])
  PROVE  DataInv'
<1>1. m \in Models /\ models[m] # None
  BY DEF There
<1>2. cached'[m] = d /\ \A n \in Models \ {m} : cached'[n] = cached[n]
  BY <1>1, CachedExcept, Parts
<1>3. CachedStands'
  BY <1>1, <1>2 DEF DataInv, CachedStands
<1> QED BY <1>3 DEF DataInv, ProperTypes

LEMMA RenderData ==
  ASSUME TypesInv, DataInv, NEW p \in Sheets, NEW m \in Models, NEW l \in Lists, Render(p, m, l)
  PROVE  DataInv'
<1>1. UNCHANGED <<models, earlier>> /\ cached' = [cached EXCEPT ![m] = Got(m)] /\ m \in There
  BY DEF Render
<1>2. PICK f : f.rows = FormRows(m, l) /\ sheet' = [sheet EXCEPT ![p] = f]
  BY DEF Render
<1>3. PICK n : Stands(m, l, Got(m)[l], n)
  BY <1>1, GotStands
<1>4. AreRows(FormRows(m, l), n)
  <2> DEFINE rows == FormRows(m, l)
             list == Got(m)[l]
  <2>1. n \in Nat /\ DOMAIN list = 1..n
    BY <1>3 DEF Stands, IsList
  <2>2. IsList(rows, n) /\ \A i \in 1..n : rows[i].orig = Place(m, l, list[i])
    BY <2>1 DEF FormRows, Row, IsList
  <2> HIDE DEF rows, list
  <2>3. /\ \A i \in 1..n : Place(m, l, list[i]) \in Nat
        /\ \A i, j \in 1..n : Place(m, l, list[i]) = Place(m, l, list[j]) => i = j
    BY <1>3, PlacesAre DEF list
  <2> QED BY <2>2, <2>3 DEF AreRows, rows
<1>5. FormsNamePlaces'
  <2> SUFFICES ASSUME NEW q \in Sheets, sheet'[q] # None PROVE \E k : AreRows(sheet'[q].rows, k)
    BY DEF FormsNamePlaces
  <2>1. CASE sheet'[q] = f
    BY <1>2, <1>4, <2>1
  <2>2. CASE sheet'[q] = sheet[q]
    BY <2>2 DEF DataInv, FormsNamePlaces
  <2> QED BY <1>2, <2>1, <2>2
<1>6. Dict(Got(m)) /\ \A k \in Lists : Proper(Got(m)[k]) /\ Within(Got(m)[k], models[m][k])
  BY <1>1, GotStands, GotIsDict, Parts DEF Stands
<1> QED BY <1>1, <1>5, <1>6, CachingData

LEMMA SaveData ==
  ASSUME TypesInv, DataInv, NEW p \in Sheets, Save(p)
  PROVE  DataInv'
<1> DEFINE m == sheet[p].of
           l == sheet[p].list
           list == Got(m)[l]
<1>1. sheet[p] # None /\ m \in There /\ m \in Models /\ l \in Lists /\ Dict(Got(m))
  BY Parts, GotIsDict DEF Save, FormsNameLists
<1>2. PICK rows \in Filled(sheet[p].rows) :
        LET s == Saved(m, l, Got(m)[l], rows)
            d == [Got(m) EXCEPT ![l] = s.list]
        IN  IF s.ok THEN Update(m, IF l = "tmpls" THEN [d EXCEPT !.head = sheet[p].head] ELSE d)
            ELSE /\ Leave(m, d)
                 /\ strayed' = IF UpToDate(p) THEN strayed ELSE strayed \cup {m}
  BY DEF Save
<1> DEFINE s == Saved(m, l, list, rows)
           d == [Got(m) EXCEPT ![l] = s.list]
<1>3. PICK N : AreRows(rows, N)
  BY <1>1, FilledRows DEF DataInv, FormsNamePlaces
<1>4. PICK n : Stands(m, l, list, n)
  BY <1>1, GotStands
<1>5. \A k \in Lists : Proper(Got(m)[k]) /\ Within(Got(m)[k], models[m][k])
  BY <1>1, GotStands DEF Stands
<1>6. Dict(d) /\ Dict([d EXCEPT !.head = sheet[p].head])
      /\ \A k \in Lists : d[k] = (IF k = l THEN s.list ELSE Got(m)[k])
                          /\ [d EXCEPT !.head = sheet[p].head][k] = d[k]
  <2>1. Dict(d)
    BY <1>1, DictExcept
  <2>2. \A k \in Lists : d[k] = IF k = l THEN s.list ELSE Got(m)[k]
    <3>1. d = Swapped(Got(m), l, s.list)
      BY DEF Swapped
    <3> HIDE DEF d, s
    <3> QED BY <1>1, <3>1, ListPut
  <2> HIDE DEF d
  <2>3. Dict([d EXCEPT !.head = sheet[p].head])
    BY <1>1, <2>1, DictExcept
  <2>4. \A k \in Lists : [d EXCEPT !.head = sheet[p].head][k] = d[k]
    BY <2>1, HeadPut
  <2> QED BY <2>1, <2>2, <2>3, <2>4
<1>7. CASE s.ok
  <2>1. PICK t : Sorted(s.list, t, N, N, m, l, rows)
    BY <1>1, <1>3, <1>4, <1>7, SavedIs
  <2>2. \A i \in 1..N : rows[i].orig # 0 => rows[i].orig \in DOMAIN models[m][l]
    BY <1>1, <1>3, <1>4, <1>7, SavedIs
  <2>3. MadeOf(s.list, N, t, 1..N, m, l, rows) /\ Proper(models[m][l])
    BY <1>4, <2>1 DEF Sorted, Stands
  <2> DEFINE A == s.list
  <2>4. Writable(A, N)
    <3> HIDE DEF A
    <3>1. MadeOf(A, N, t, 1..N, m, l, rows)
      BY <2>3 DEF A
    <3> QED BY <1>3, <2>2, <2>3, <3>1, MadeIsWritable
  <2>5. \A k \in Lists : \E x : Writable(Got(m)[k], x)
    BY <1>5, ProperIsWritable
  <2>6. \A k \in Lists : \E x : Writable(d[k], x)
    BY <1>6, <2>4, <2>5
  <2>7. PICK e : Update(m, e) /\ \A k \in Lists : e[k] = d[k]
    BY <1>2, <1>6, <1>7
  <2>8. \A k \in Lists : \E x : Writable(e[k], x)
    BY <2>6, <2>7
  <2> QED BY <1>1, <2>7, <2>8, UpdateData
<1>8. CASE ~s.ok
  <2>1. UNCHANGED <<models, earlier, sheet>> /\ cached' = [cached EXCEPT ![m] = d]
    BY <1>2, <1>8 DEF Leave
  <2>2. Proper(s.list) /\ Within(s.list, models[m][l])
    BY <1>4, <1>8, SavedStops
  <2>3. \A k \in Lists : Proper(d[k]) /\ Within(d[k], models[m][k])
    BY <1>5, <1>6, <2>2
  <2>4. FormsNamePlaces'
    BY <2>1 DEF DataInv, FormsNamePlaces
  <2> QED BY <1>1, <1>6, <2>1, <2>3, <2>4, CachingData
<1> QED BY <1>7, <1>8

LEMMA ModelActionData ==
  ASSUME TypesInv, DataInv, NEW m \in Models, NEW l \in Lists, ModelAction(m, l)
  PROVE  DataInv'
<1>1. m \in There /\ Dict(Got(m))
  BY GotIsDict, Parts DEF ModelAction
<1>2. PICK list \in Changes(l, Got(m)[l]) : Update(m, [Got(m) EXCEPT ![l] = list])
  BY DEF ModelAction
<1> DEFINE d == [Got(m) EXCEPT ![l] = list]
<1>3. \A k \in Lists : \E x : Writable(Got(m)[k], x)
  BY <1>1, GotStands, ProperIsWritable DEF Stands
<1>4. \E x : Writable(list, x)
  BY <1>2, <1>3, ChangesAreWritable
<1>5. \A k \in Lists : d[k] = IF k = l THEN list ELSE Got(m)[k]
  <2>1. d = Swapped(Got(m), l, list)
    BY DEF Swapped
  <2> HIDE DEF d
  <2> QED BY <1>1, <2>1, ListPut
<1> HIDE DEF d
<1>6. \A k \in Lists : \E x : Writable(d[k], x)
  BY <1>3, <1>4, <1>5
<1> QED BY <1>2, <1>6, UpdateData DEF d

LEMMA RenameData ==
  ASSUME TypesInv, DataInv, NEW m \in Models, NEW head, Rename(m, head)
  PROVE  DataInv'
<1> DEFINE d == [Got(m) EXCEPT !.head = head]
<1>1. m \in There /\ Dict(Got(m)) /\ Update(m, d)
  BY GotIsDict, Parts DEF Rename
<1>2. \A k \in Lists : \E x : Writable(Got(m)[k], x)
  BY <1>1, GotStands, ProperIsWritable DEF Stands
<1>3. \A k \in Lists : d[k] = Got(m)[k]
  BY <1>1, HeadPut
<1> HIDE DEF d
<1>4. \A k \in Lists : \E x : Writable(d[k], x)
  BY <1>2, <1>3
<1> QED BY <1>1, <1>4, UpdateData

LEMMA CreatingData ==
  ASSUME TypesInv, DataInv, NEW n \in Models, NEW head,
         CreateModel(n, head) \/ \E base \in Models : Add(base, n, head)
  PROVE  DataInv'
<1>1. models[n] = None /\ cached[n] = None
  BY DEF CreateModel, Add, There, DataInv, CachedStands
<1>2. CASE CreateModel(n, head)
  <2> DEFINE one == <<Item(Name("a"), "plain", 0)>>
             d == [flds |-> one, tmpls |-> one, head |-> head]
  <2>1. Create(n, d) /\ cached' = cached
    BY <1>2 DEF CreateModel
  <2>2. Writable(one, 1)
    <3>1. Writable(<<>>, 0)
      <4>1. \A j \in 1..0 : FALSE
        OBVIOUS
      <4> QED BY <4>1 DEF Writable, IsList
    <3>2. Append(<<>>, Item(Name("a"), "plain", 0)) = one /\ 0 + 1 = 1
      OBVIOUS
    <3> QED BY <3>1, <3>2, ItemAppended
  <2>3. \A k \in Lists : \E x : Writable(d[k], x)
    <3>1. \A k \in Lists : d[k] = one
      BY DEF Lists
    <3> HIDE DEF d, one
    <3> QED BY <2>2, <3>1
  <2> HIDE DEF d
  <2> QED BY <1>1, <2>1, <2>3, PutData DEF Create
<1>3. CASE \E base \in Models : Add(base, n, head)
  <2>1. PICK base \in Models : Add(base, n, head)
    BY <1>3
  <2> DEFINE d == [Got(base) EXCEPT !.head = head]
  <2>2. base \in There /\ Create(n, d) /\ cached' = [cached EXCEPT ![base] = Got(base)]
    BY <2>1 DEF Add
  <2>3. Dict(Got(base)) /\ base # n /\ models[base] # None
    BY <1>1, <2>2, GotIsDict, Parts DEF There
  <2>4. cached'[base] = Got(base) /\ \A k \in Models \ {base} : cached'[k] = cached[k]
    BY <2>2, <2>3, CachedExcept, Parts
  <2>5. \A k \in Lists : \E x : Writable(Got(base)[k], x)
    BY <2>2, GotStands, ProperIsWritable DEF Stands
  <2>6. \A k \in Lists : d[k] = Got(base)[k]
    BY <2>3, HeadPut
  <2> HIDE DEF d
  <2>7. \A k \in Lists : \E x : Writable(d[k], x)
    BY <2>5, <2>6
  <2>8. /\ cached'[n] = None
        /\ \A k \in Models \ {n} : cached'[k] = cached[k] \/ (models[k] # None /\ cached'[k] = Got(k))
    BY <1>1, <2>3, <2>4
  <2> QED BY <2>2, <2>7, <2>8, PutData DEF Create
<1> QED BY <1>2, <1>3

LEMMA DeletingData ==
  ASSUME TypesInv, DataInv, NEW m \in Models, AskDelete(m) \/ Delete(m) \/ DeleteModel(m)
  PROVE  DataInv'
<1>1. CASE UNCHANGED <<models, cached, earlier, sheet>>
  BY <1>1 DEF DataInv, ProperTypes, CachedStands, FormsNamePlaces, Within
<1>2. CASE Gone(m)
  <2>1. /\ models' = [models EXCEPT ![m] = None] /\ cached' = [cached EXCEPT ![m] = None]
        /\ earlier' = Append(earlier, models) /\ sheet' = sheet
    BY <1>2 DEF Gone
  <2>2. /\ models'[m] = None /\ \A n \in Models \ {m} : models'[n] = models[n]
    BY <2>1, ModelsExcept, Parts
  <2>3. cached'[m] = None /\ \A n \in Models \ {m} : cached'[n] = cached[n]
    BY <2>1, CachedExcept, Parts
  <2>4. ProperTypes(models')
    BY <2>2 DEF DataInv, ProperTypes
  <2>5. CachedStands'
    BY <2>2, <2>3 DEF DataInv, CachedStands
  <2>6. FormsNamePlaces'
    BY <2>1 DEF DataInv, FormsNamePlaces
  <2> QED BY <2>1, <2>4, <2>5, <2>6, EarlierProper DEF DataInv
<1> QED BY <1>1, <1>2 DEF AskDelete, Delete, DeleteModel

LEMMA UndoData ==
  ASSUME TypesInv, DataInv, UndoType
  PROVE  DataInv'
<1>1. /\ earlier # <<>> /\ models' = earlier[Len(earlier)] /\ earlier' = Front(earlier)
      /\ cached' = [m \in Models |-> None] /\ sheet' = sheet
  BY DEF UndoType
<1>2. PICK S : earlier \in Seq(S)
  BY DEF TypesInv, TypesAreWhole
<1>3. /\ \A i \in DOMAIN earlier' : \E j \in DOMAIN earlier : earlier'[i] = earlier[j]
      /\ Len(earlier) \in DOMAIN earlier
  BY <1>1, <1>2, OneLess
<1>4. \A i \in DOMAIN earlier : ProperTypes(earlier[i])
  BY DEF DataInv
<1>5. ProperTypes(models') /\ \A i \in DOMAIN earlier' : ProperTypes(earlier'[i])
  BY <1>1, <1>3, <1>4
<1>6. CachedStands' /\ FormsNamePlaces'
  BY <1>1 DEF CachedStands, DataInv, FormsNamePlaces
<1> QED BY <1>5, <1>6 DEF DataInv

LEMMA DataStep ==
  ASSUME TypesInv, DataInv, [Next]_Vars
  PROVE  DataInv'
<1>1. NoteTypesNext \/ UNCHANGED typeVars
  BY DEF Next, Vars
<1>2. CASE UNCHANGED typeVars
  BY <1>2 DEF typeVars, DataInv, ProperTypes, CachedStands, FormsNamePlaces, Within
<1>3. CASE NoteTypesNext
  <2>1. CASE \E m \in Models, l \in Lists : ModelAction(m, l)
    BY <2>1, ModelActionData
  <2>2. CASE \E m \in Models, l \in Lists, p \in Sheets : Render(p, m, l)
    BY <2>2, RenderData
  <2>3. CASE \E p \in Sheets : Save(p)
    BY <2>3, SaveData
  <2>4. CASE \E m \in Models : AskDelete(m) \/ Delete(m) \/ DeleteModel(m)
    BY <2>4, DeletingData
  <2>5. CASE \E m \in Models, head \in {"h", "i"} : Rename(m, head)
    BY <2>5, RenameData
  <2>6. CASE \E n \in Models, head \in {"h", "i"} :
               CreateModel(n, head) \/ \E base \in Models : Add(base, n, head)
    BY <2>6, CreatingData
  <2>7. CASE UndoType
    BY <2>7, UndoData
  <2>8. \/ \E m \in Models, l \in Lists : ModelAction(m, l)
        \/ \E m \in Models, l \in Lists, p \in Sheets : Render(p, m, l)
        \/ \E p \in Sheets : Save(p)
        \/ \E m \in Models : AskDelete(m) \/ Delete(m) \/ DeleteModel(m)
        \/ \E m \in Models, head \in {"h", "i"} : Rename(m, head)
        \/ \E n \in Models, head \in {"h", "i"} :
             CreateModel(n, head) \/ \E base \in Models : Add(base, n, head)
        \/ UndoType
    BY <1>3 DEF NoteTypesNext
  <2> QED BY <2>1, <2>2, <2>3, <2>4, <2>5, <2>6, <2>7, <2>8
<1> QED BY <1>1, <1>2, <1>3

(* Whatever the forms, the jobs and AnkiConnect do, every item of a type has *)
(* data of its own, none is cached that is not stored, and no form names a   *)
(* place twice: a stale save never makes two items of one field.             *)
THEOREM DataIsKept == Spec => []DataInv
<1>1. Init => DataInv
  <2> SUFFICES ASSUME Init PROVE DataInv
    OBVIOUS
  <2>1. /\ models = Stored /\ cached = [m \in Models |-> None] /\ sheet = [p \in Sheets |-> None]
        /\ earlier = <<>>
    BY DEF Init, NoteTypesInit
  <2>2. ProperTypes(models) /\ DOMAIN earlier = {}
    BY <2>1, StoredAssumption DEF ProperTypes
  <2> QED BY <2>1, <2>2 DEF DataInv, CachedStands, FormsNamePlaces
<1>2. TypesInv /\ DataInv /\ [Next]_Vars => DataInv'
  BY DataStep
<1> QED BY <1>1, <1>2, TypesInvHolds, PTL DEF Spec

(* ---- the forms that are up to date ---- *)
(* The rows of such a form stand for items that are there.                   *)
LEMMA FreshRows ==
  ASSUME TypesInv, DataInv, NEW p \in Sheets, UpToDate(p), NEW rows \in Filled(sheet[p].rows), rows # <<>>
  PROVE  LET m == sheet[p].of
             l == sheet[p].list
         IN  \E N : AreRows(rows, N) /\ Saved(m, l, Got(m)[l], rows).ok
<1> DEFINE m == sheet[p].of
           l == sheet[p].list
           list == Got(m)[l]
<1>1. sheet[p] # None /\ m \in There /\ l \in Lists /\ sheet[p].rows = FormRows(m, l)
  BY DEF UpToDate, TypesInv, FormsNameLists
<1>2. PICK N : AreRows(rows, N)
  BY <1>1, FilledRows DEF DataInv, FormsNamePlaces
<1>3. PICK n : Stands(m, l, list, n)
  BY <1>1, GotStands
<1> HIDE DEF list
<1>4. N \in Nat \ {0} /\ DOMAIN rows = 1..N /\ IsList(list, n) /\ DOMAIN list = 1..n
  <2>1. N \in Nat /\ DOMAIN rows = 1..N /\ rows = [i \in 1..N |-> rows[i]]
    BY <1>2 DEF AreRows, IsList
  <2>2. N # 0
    <3> SUFFICES ASSUME N = 0 PROVE FALSE
      OBVIOUS
    <3>1. 1..N = {}
      BY <2>1
    <3>2. rows = <<>>
      BY <2>1, <3>1
    <3> QED BY <3>2
  <2> QED BY <1>3, <2>1, <2>2 DEF Stands, IsList
<1>5. \A i \in 1..N : rows[i].orig # 0 => Known(m, l, list, rows[i].orig)
  <2> SUFFICES ASSUME NEW i \in 1..N, rows[i].orig # 0 PROVE Known(m, l, list, rows[i].orig)
    OBVIOUS
  <2>1. PICK j \in DOMAIN FormRows(m, l) : rows[i].orig = FormRows(m, l)[j].orig
    BY <1>1, <1>4, RowsOfAForm
  <2>2. j \in DOMAIN list /\ FormRows(m, l)[j].orig = Place(m, l, list[j])
    BY DEF FormRows, Row, list
  <2> QED BY <2>1, <2>2 DEF Known
<1>6. AtLeastOne(m, l, list, rows)
  <2>1. CASE rows[1].orig = 0
    BY <1>4, <2>1 DEF AtLeastOne
  <2>2. CASE rows[1].orig # 0
    <3>1. PICK i \in 1..n : Place(m, l, list[i]) = rows[1].orig
      BY <1>4, <1>5, <2>2 DEF Known
    <3>2. i \in HaveRows(m, l, list, n, rows)
      BY <1>4, <3>1 DEF HaveRows
    <3>3. PICK k, g : k \in Nat /\ KeptFrom(m, l, list, n, rows, k, g)
      BY <1>4, KeptIs
    <3>4. \E j \in 1..k : TRUE
      BY <3>2, <3>3 DEF KeptFrom, OneToOne
    <3>5. Kept(m, l, list, rows) # <<>>
      <4> SUFFICES ASSUME Kept(m, l, list, rows) = <<>> PROVE FALSE
        OBVIOUS
      <4>1. DOMAIN Kept(m, l, list, rows) = 1..k
        BY <3>3 DEF KeptFrom, IsList
      <4>2. DOMAIN <<>> = {}
        OBVIOUS
      <4> QED BY <3>4, <4>1, <4>2
    <3> QED BY <3>5 DEF AtLeastOne
  <2> QED BY <2>1, <2>2
<1>7. Renamed(m, l, list, rows).ok
  BY <1>4, <1>5 DEF Renamed
<1>8. Saved(m, l, list, rows).ok
  BY <1>6, <1>7 DEF Saved
<1> QED BY <1>2, <1>8 DEF list

(* A form that is saved as it was rendered from the type makes the type what *)
(* the form shows: its items in its order with its names and looks, those    *)
(* kept with their data, the others new (fields.py:127-172,                  *)
(* card_layout.py:157-194).                                                  *)
THEOREM FreshFormsAreExact == Spec => []FreshSaveIsExact
<1>1. TypesInv /\ DataInv => FreshSaveIsExact
  <2> SUFFICES ASSUME TypesInv, DataInv, NEW p \in Sheets, UpToDate(p),
                      NEW rows \in Filled(sheet[p].rows),
                      rows # <<>>, IsInjective([i \in DOMAIN rows |-> rows[i].name])
               PROVE  LET m == sheet[p].of
                          l == sheet[p].list
                          s == Saved(m, l, Got(m)[l], rows)
                      IN  /\ s.ok /\ Len(s.list) = Len(rows)
                          /\ \A i \in DOMAIN rows :
                               s.list[i] = Item(rows[i].name, rows[i].look,
                                                IF rows[i].orig = 0 THEN 0
                                                ELSE models[m][l][rows[i].orig].data)
    BY DEF FreshSaveIsExact
  <2> DEFINE m == sheet[p].of
             l == sheet[p].list
             s == Saved(m, l, Got(m)[l], rows)
             B == s.list
  <2>1. PICK N : AreRows(rows, N) /\ s.ok
    BY FreshRows
  <2>2. m \in There /\ l \in Lists
    BY DEF UpToDate, TypesInv, FormsNameLists
  <2>3. PICK n : Stands(m, l, Got(m)[l], n)
    BY <2>2, GotStands
  <2>4. PICK t : Sorted(s.list, t, N, N, m, l, rows)
    BY <2>1, <2>2, <2>3, SavedIs
  <2>5. N \in Nat /\ DOMAIN rows = 1..N /\ Len(rows) = N
    BY <2>1, ListIs DEF AreRows, IsList
  <2>6. OwnNames(rows, N)
    BY <2>5 DEF OwnNames, IsInjective
  <2> HIDE DEF B, m, l
  <2>7. IsList(B, N) /\ \A i \in 1..N : /\ B[i] = Item(rows[t[i]].name, B[i].look, Datum(m, l, rows[t[i]]))
                                       /\ t[i] = i /\ B[i].look = rows[i].look
    BY <2>4, <2>6 DEF Sorted, MadeOf, B
  <2>8. \A i \in 1..N : B[i] = Item(rows[i].name, rows[i].look,
                                    IF rows[i].orig = 0 THEN 0 ELSE models[m][l][rows[i].orig].data)
    BY <2>7 DEF Datum
  <2>9. Len(B) = Len(rows)
    BY <2>5, <2>7, ListIs
  <2> QED BY <2>1, <2>5, <2>8, <2>9 DEF B, m, l
<1> QED BY <1>1, TypesInvHolds, DataIsKept, PTL
=============================================================================
