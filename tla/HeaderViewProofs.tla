--------------------------- MODULE HeaderViewProofs ---------------------------
(***************************************************************************)
(* Proofs about the headers of the table, for any plugins and any number   *)
(* of shops and components.                                                *)
(***************************************************************************)
EXTENDS HeaderView, ConfModelProofs

\* What a widget that belongs to a column shows of it.
ShowsShops(ws, sh) ==
    \A c \in DOMAIN sh : /\ ws[c + 1].active = sh[c].active
                         /\ sh[c].name # Blank => ws[c + 1].name = sh[c].name
ShowsComps(ws, co) == \A r \in DOMAIN co : ws[r + 1].active = co[r]
Free(ws, sh) ==
    \A c \in DOMAIN sh : ws[c + 1].offered \cap OtherNames(sh, c) \subseteq {NoName}

ShopsInv == /\ shopWidgets \in Seq(Widget) /\ WidgetsFit(shopWidgets, Len(shops))
            /\ ShowsShops(shopWidgets, shops) /\ Free(shopWidgets, shops)
CompsInv == /\ compWidgets \in Seq(Widget) /\ WidgetsFit(compWidgets, Len(comps))
            /\ ShowsComps(compWidgets, comps)
HeaderInv == NamesInv /\ ShopsInv /\ CompsInv

\* The widgets a section may have, and what the user may choose, stay in their types.
LEMMA NewWidgetIsWidget ==
    ASSUME NEW p \in Nat
    PROVE  LET w == [NewWidget EXCEPT !.place = p]
           IN  w \in Widget /\ w.place = p /\ w.hidden = FALSE
  BY DEF NewWidget, Widget, ShopName

SameData(w, v) ==
    w.active = v.active /\ w.name = v.name /\ w.offered = v.offered
Sectioned(ws2, ws) ==
    \A i \in 1..Len(ws) :
        /\ ws2[i].section = i - 1 /\ (ws2[i].hidden <=> ws[i].hidden \/ i = 1)
        /\ ws2[i].place = ws[i].place /\ SameData(ws2[i], ws[i])
LEMMA SectionsSet ==
    ASSUME NEW ws \in Seq(Widget)
    PROVE  /\ SetSectionsValues(ws) \in Seq(Widget)
           /\ Len(SetSectionsValues(ws)) = Len(ws)
           /\ Sectioned(SetSectionsValues(ws), ws)
<1> DEFINE ws2 == SetSectionsValues(ws)
<1>1. DOMAIN ws = 1..Len(ws) /\ Len(ws) \in Nat /\ (\A i \in 1..Len(ws) : ws[i] \in Widget)
  BY LenProperties, ElementOfSeq
<1>2. ws2 = [i \in 1..Len(ws) |->
               [ws[i] EXCEPT !.section = i - 1, !.hidden = ws[i].hidden \/ i = 1]]
  BY <1>1 DEF SetSectionsValues, Widget
<1> HIDE DEF ws2
<1>3. ASSUME NEW i \in 1..Len(ws)
      PROVE  /\ ws2[i] \in Widget
             /\ ws2[i].section = i - 1 /\ ws2[i].hidden = (ws[i].hidden \/ i = 1)
             /\ ws2[i].place = ws[i].place /\ SameData(ws2[i], ws[i])
  <2>1. ws[i] \in Widget /\ i - 1 \in Nat
    BY <1>1
  <2>2. ws2[i] = [ws[i] EXCEPT !.section = i - 1, !.hidden = ws[i].hidden \/ i = 1]
    BY <1>2
  <2>3. (ws[i].hidden \/ i = 1) \in BOOLEAN
    OBVIOUS
  <2> QED
    BY <2>1, <2>2, <2>3 DEF Widget, SameData
<1>4. ws2 \in [1..Len(ws) -> Widget]
  BY <1>2, <1>3
<1>5. ws2 \in Seq(Widget) /\ Len(ws2) = Len(ws)
  BY <1>1, <1>4, FunctionIsSeq
<1> QED
  BY <1>3, <1>5 DEF ws2, Sectioned

\* createSectionWidget puts a widget behind those there are.
LEMMA Added ==
    ASSUME NEW ws \in Seq(Widget), NEW n \in Nat, WidgetsFit(ws, n)
    PROVE  LET ws2 == WidgetAdded(ws)
           IN  /\ ws2 \in Seq(Widget) /\ WidgetsFit(ws2, n + 1)
               /\ \A i \in 1..n + 1 : SameData(ws2[i], ws[i])
<1> DEFINE p   == IF ws = << >> THEN 0 ELSE ws[Len(ws)].place + 1
           new == [NewWidget EXCEPT !.place = p]
           ws1 == Append(ws, new)
           ws2 == WidgetAdded(ws)
<1>1. /\ Len(ws) = n + 1 /\ DOMAIN ws = 1..n + 1 /\ ws # << >>
      /\ \A i \in 1..n + 1 : /\ ws[i] \in Widget /\ ws[i].place = i - 1
                             /\ ws[i].hidden <=> i = 1
  BY LenProperties, ElementOfSeq, EmptySeq DEF WidgetsFit
<1>2. p = n + 1
  BY <1>1
<1>4. ws2 = SetSectionsValues(ws1)
  BY DEF WidgetAdded
<1> HIDE DEF p
<1>3. new \in Widget /\ new.place = n + 1 /\ new.hidden = FALSE
  <2>1. p \in Nat
    BY <1>2
  <2> QED
    BY <1>2, <2>1, NewWidgetIsWidget
<1> HIDE DEF new
<1>5. /\ ws1 \in Seq(Widget) /\ Len(ws1) = n + 2 /\ ws1[n + 2] = new
      /\ \A i \in 1..n + 1 : ws1[i] = ws[i]
  BY <1>1, <1>3, AppendProperties
<1> HIDE DEF ws1, ws2
<1>6. ws2 \in Seq(Widget) /\ Len(ws2) = n + 2 /\ Sectioned(ws2, ws1)
  BY <1>4, <1>5, SectionsSet
<1>7. DOMAIN ws2 = 1..n + 2
  BY <1>6, LenProperties
<1>8. ASSUME NEW i \in 1..n + 2
      PROVE  /\ ws2[i].section = i - 1 /\ ws2[i].place = i - 1
             /\ ws2[i].hidden <=> i = 1
             /\ i # n + 2 => SameData(ws2[i], ws[i])
  <2>1. /\ ws2[i].section = i - 1 /\ (ws2[i].hidden <=> ws1[i].hidden \/ i = 1)
        /\ ws2[i].place = ws1[i].place /\ SameData(ws2[i], ws1[i])
    BY <1>5, <1>6 DEF Sectioned
  <2>2. CASE i = n + 2
    BY <1>3, <1>5, <2>1, <2>2
  <2>3. CASE i # n + 2
    <3>1. i \in 1..n + 1
      BY <2>3
    <3> QED
      BY <1>1, <1>5, <2>1, <3>1
  <2> QED
    BY <2>2, <2>3
<1>9. WidgetsFit(ws2, n + 1)
  BY <1>6, <1>7, <1>8 DEF WidgetsFit
<1> QED
  BY <1>6, <1>8, <1>9 DEF ws2
-----------------------------------------------------------------------------
\* updateData of one widget.
LEMMA ShopUpdated ==
    ASSUME NEW w \in Widget, NEW sh \in Seq(Shop), w.section \in 0..Len(sh)
    PROVE  LET w2 == UpdatedShop(w, sh)
           IN  /\ w2 \in Widget /\ w2.section = w.section /\ w2.place = w.place
               /\ w2.hidden = w.hidden
               /\ w.section # 0 =>
                    /\ w2.active = sh[w.section].active
                    /\ w2.offered = sh[w.section].available
                    /\ sh[w.section].name \in sh[w.section].available =>
                            w2.name = sh[w.section].name
<1>1. \A b : b \in BOOLEAN => [w EXCEPT !.active = b, !.offered = {}, !.name = NoName] \in Widget
  BY DEF Widget, ShopName
<1>2. CASE w.section = 0
  <2>1. (\A i \in DOMAIN sh : sh[i].active) \in BOOLEAN
    OBVIOUS
  <2>2. UpdatedShop(w, sh) = [w EXCEPT !.active = \A i \in DOMAIN sh : sh[i].active,
                                       !.offered = {}, !.name = NoName]
    BY <1>2 DEF UpdatedShop
  <2> QED
    BY <1>1, <1>2, <2>1, <2>2 DEF Widget
<1>3. CASE w.section # 0
  <2> DEFINE s == sh[w.section]
             name == IF s.name \in s.available THEN s.name ELSE NoName
  <2>1. s \in Shop
    BY <1>3, ElementOfSeq DEF Widget
  <2>2. s.active \in BOOLEAN /\ s.available \in SUBSET (Plugins \cup {NoName}) /\ name \in ShopName
    BY <2>1 DEF Shop, ShopName
  <2>3. UpdatedShop(w, sh) = [w EXCEPT !.active = s.active, !.offered = s.available,
                                       !.name = name]
    BY <1>3 DEF UpdatedShop
  <2> HIDE DEF s, name
  <2>4. /\ UpdatedShop(w, sh) \in Widget
        /\ UpdatedShop(w, sh).section = w.section /\ UpdatedShop(w, sh).place = w.place
        /\ UpdatedShop(w, sh).hidden = w.hidden /\ UpdatedShop(w, sh).active = s.active
        /\ UpdatedShop(w, sh).offered = s.available /\ UpdatedShop(w, sh).name = name
    BY <2>2, <2>3 DEF Widget
  <2>5. s.name \in s.available => name = s.name
    BY DEF name
  <2> QED
    BY <2>4, <2>5 DEF s
<1> QED
  BY <1>2, <1>3

LEMMA CompUpdated ==
    ASSUME NEW w \in Widget, NEW co \in Seq(BOOLEAN), w.section \in 0..Len(co)
    PROVE  LET w2 == UpdatedComp(w, co)
           IN  /\ w2 \in Widget /\ w2.section = w.section /\ w2.place = w.place
               /\ w2.hidden = w.hidden
               /\ w.section # 0 => w2.active = co[w.section]
<1> DEFINE b == IF w.section = 0 THEN \A i \in DOMAIN co : co[i] ELSE co[w.section]
<1>1. b \in BOOLEAN
  <2>1. w.section # 0 => co[w.section] \in BOOLEAN
    BY ElementOfSeq DEF Widget
  <2> QED
    BY <2>1
<1>2. UpdatedComp(w, co) = [w EXCEPT !.active = b]
  BY DEF UpdatedComp
<1>3. w.section # 0 => b = co[w.section]
  OBVIOUS
<1> HIDE DEF b
<1> QED
  BY <1>1, <1>2, <1>3 DEF Widget

\* A column's own name is in its combo box.
LEMMA OwnNameOffered ==
    ASSUME NEW sh \in Seq(Shop), Distinct(sh), Offered(sh), NEW c \in DOMAIN sh,
           sh[c].name # Blank
    PROVE  sh[c].name \in sh[c].available
<1>1. sh[c].name \in Plugins \cup {NoName}
  <2>1. sh[c] \in Shop
    BY LenProperties, ElementOfSeq
  <2> QED
    BY <2>1 DEF Shop, ShopName
<1> QED
  BY <1>1 DEF Distinct, Offered, OtherNames

\* headerDataChanged for all sections.
LEMMA ShopsShown ==
    ASSUME NEW sh \in Seq(Shop), Distinct(sh), Offered(sh),
           NEW ws \in Seq(Widget), WidgetsFit(ws, Len(sh))
    PROVE  LET ws2 == ShopHeaderChanged(ws, sh)
           IN  /\ ws2 \in Seq(Widget) /\ WidgetsFit(ws2, Len(sh))
               /\ ShowsShops(ws2, sh) /\ Free(ws2, sh)
<1> DEFINE ws2 == ShopHeaderChanged(ws, sh)
           n   == Len(sh)
<1>1. /\ n \in Nat /\ DOMAIN sh = 1..n /\ Len(ws) = n + 1 /\ DOMAIN ws = 1..n + 1
      /\ \A i \in 1..n + 1 : /\ ws[i] \in Widget /\ ws[i].section = i - 1
                             /\ ws[i].place = i - 1 /\ (ws[i].hidden <=> i = 1)
  BY LenProperties, ElementOfSeq DEF WidgetsFit
<1>2. ws2 = [i \in 1..n + 1 |-> UpdatedShop(ws[i], sh)]
  BY <1>1 DEF ShopHeaderChanged
<1> HIDE DEF ws2, n
<1>3. ASSUME NEW i \in 1..n + 1
      PROVE  /\ ws2[i] \in Widget /\ ws2[i].section = i - 1 /\ ws2[i].place = i - 1
             /\ ws2[i].hidden <=> i = 1
             /\ i # 1 => /\ ws2[i].active = sh[i - 1].active
                         /\ ws2[i].offered = sh[i - 1].available
                         /\ sh[i - 1].name \in sh[i - 1].available => ws2[i].name = sh[i - 1].name
  <2> DEFINE w == ws[i]
  <2>1. /\ w \in Widget /\ w.section = i - 1 /\ w.place = i - 1
        /\ w.section \in 0..Len(sh) /\ (w.hidden <=> i = 1)
    BY <1>1 DEF n
  <2>2. ws2[i] = UpdatedShop(w, sh)
    BY <1>2
  <2> HIDE DEF w
  <2> QED
    BY <2>1, <2>2, ShopUpdated
<1>4. ws2 \in [1..n + 1 -> Widget]
  BY <1>2, <1>3
<1>5. ws2 \in Seq(Widget) /\ Len(ws2) = n + 1 /\ DOMAIN ws2 = 1..n + 1
  BY <1>1, <1>4, FunctionIsSeq
<1>6. WidgetsFit(ws2, n)
  BY <1>3, <1>5 DEF WidgetsFit
<1>7. ASSUME NEW c \in DOMAIN sh
      PROVE  /\ ws2[c + 1].active = sh[c].active
             /\ sh[c].name # Blank => ws2[c + 1].name = sh[c].name
             /\ ws2[c + 1].offered = sh[c].available
  <2>1. c + 1 \in 1..n + 1 /\ c + 1 # 1 /\ (c + 1) - 1 = c
    BY <1>1
  <2>2. sh[c].name # Blank => sh[c].name \in sh[c].available
    BY OwnNameOffered
  <2> QED
    BY <1>3, <2>1, <2>2
<1>8. Free(ws2, sh)
  BY <1>7 DEF Free, Offered
<1> QED
  BY <1>5, <1>6, <1>7, <1>8 DEF ws2, n, ShowsShops

LEMMA CompsShown ==
    ASSUME NEW co \in Seq(BOOLEAN), NEW ws \in Seq(Widget), WidgetsFit(ws, Len(co))
    PROVE  LET ws2 == CompHeaderChanged(ws, co)
           IN  ws2 \in Seq(Widget) /\ WidgetsFit(ws2, Len(co)) /\ ShowsComps(ws2, co)
<1> DEFINE ws2 == CompHeaderChanged(ws, co)
           n   == Len(co)
<1>1. /\ n \in Nat /\ DOMAIN co = 1..n /\ Len(ws) = n + 1 /\ DOMAIN ws = 1..n + 1
      /\ \A i \in 1..n + 1 : /\ ws[i] \in Widget /\ ws[i].section = i - 1
                             /\ ws[i].place = i - 1 /\ (ws[i].hidden <=> i = 1)
  BY LenProperties, ElementOfSeq DEF WidgetsFit
<1>2. ws2 = [i \in 1..n + 1 |-> UpdatedComp(ws[i], co)]
  BY <1>1 DEF CompHeaderChanged
<1> HIDE DEF ws2, n
<1>3. ASSUME NEW i \in 1..n + 1
      PROVE  /\ ws2[i] \in Widget /\ ws2[i].section = i - 1 /\ ws2[i].place = i - 1
             /\ ws2[i].hidden <=> i = 1
             /\ i # 1 => ws2[i].active = co[i - 1]
  <2> DEFINE w == ws[i]
  <2>1. /\ w \in Widget /\ w.section = i - 1 /\ w.place = i - 1
        /\ w.section \in 0..Len(co) /\ (w.hidden <=> i = 1)
    BY <1>1 DEF n
  <2>2. ws2[i] = UpdatedComp(w, co)
    BY <1>2
  <2> HIDE DEF w
  <2> QED
    BY <2>1, <2>2, CompUpdated
<1>4. ws2 \in [1..n + 1 -> Widget]
  BY <1>2, <1>3
<1>5. ws2 \in Seq(Widget) /\ Len(ws2) = n + 1 /\ DOMAIN ws2 = 1..n + 1
  BY <1>1, <1>4, FunctionIsSeq
<1>6. WidgetsFit(ws2, n)
  BY <1>3, <1>5 DEF WidgetsFit
<1>7. ASSUME NEW r \in DOMAIN co PROVE ws2[r + 1].active = co[r]
  <2>1. r + 1 \in 1..n + 1 /\ r + 1 # 1 /\ (r + 1) - 1 = r
    BY <1>1
  <2> QED
    BY <1>3, <2>1
<1> QED
  BY <1>5, <1>6, <1>7 DEF ws2, n, ShowsComps
-----------------------------------------------------------------------------
\* onSectionResized(0) counts the places from the first widget's.
LEMMA PlacesSet ==
    ASSUME NEW ws \in Seq(Widget)
    PROVE  /\ Placed(ws) \in Seq(Widget) /\ Len(Placed(ws)) = Len(ws)
           /\ \A i \in 1..Len(ws) :
                /\ Placed(ws)[i].place = ws[1].place + i - 1
                /\ Placed(ws)[i].hidden = ws[i].hidden /\ SameData(Placed(ws)[i], ws[i])
<1> DEFINE ws2 == Placed(ws)
<1>1. DOMAIN ws = 1..Len(ws) /\ Len(ws) \in Nat /\ (\A i \in 1..Len(ws) : ws[i] \in Widget)
  BY LenProperties, ElementOfSeq
<1>2. ws2 = [i \in 1..Len(ws) |-> [ws[i] EXCEPT !.place = ws[1].place + i - 1]]
  BY <1>1 DEF Placed
<1> HIDE DEF ws2
<1>3. ASSUME NEW i \in 1..Len(ws)
      PROVE  /\ ws2[i] \in Widget /\ ws2[i].place = ws[1].place + i - 1
             /\ ws2[i].hidden = ws[i].hidden /\ SameData(ws2[i], ws[i])
  <2> DEFINE w == ws[i]
             p == ws[1].place + i - 1
  <2>1. w \in Widget
    BY <1>1
  <2>2. p \in Nat
    <3>1. ws[1] \in Widget
      BY <1>1
    <3>2. ws[1].place \in Nat
      BY <3>1 DEF Widget
    <3> QED
      BY <3>2
  <2>3. ws2[i] = [w EXCEPT !.place = p]
    BY <1>2
  <2> HIDE DEF w, p
  <2>4. /\ ws2[i] \in Widget /\ ws2[i].place = p
        /\ ws2[i].hidden = w.hidden /\ SameData(ws2[i], w)
    BY <2>1, <2>2, <2>3 DEF Widget, SameData
  <2> QED
    BY <2>4 DEF w, p
<1>4. ws2 \in [1..Len(ws) -> Widget]
  BY <1>2, <1>3
<1>5. ws2 \in Seq(Widget) /\ Len(ws2) = Len(ws)
  BY <1>1, <1>4, FunctionIsSeq
<1> QED
  BY <1>3, <1>5 DEF ws2

\* What sectionsAboutToBeRemoved makes of the widgets it leaves.
LEMMA WidgetsLeft ==
    ASSUME NEW ws \in Seq(Widget), NEW n \in Nat, Len(ws) = n + 1,
           \A i \in 2..n + 1 : ~ws[i].hidden,
           ws[1].place = 0 \/ n = 0
    PROVE  LET r   == SetSectionsValues(Placed(ws))
               ws2 == IF Len(r) = 1 THEN [r EXCEPT ![1].place = 0] ELSE r
           IN  /\ ws2 \in Seq(Widget) /\ WidgetsFit(ws2, n)
               /\ \A i \in 1..n + 1 : SameData(ws2[i], ws[i])
<1> DEFINE p == Placed(ws)
           r == SetSectionsValues(p)
<1>1. /\ p \in Seq(Widget) /\ Len(p) = n + 1
      /\ \A i \in 1..n + 1 : /\ p[i].place = ws[1].place + i - 1
                             /\ p[i].hidden = ws[i].hidden /\ SameData(p[i], ws[i])
  BY PlacesSet
<1> HIDE DEF p
<1>2. r \in Seq(Widget) /\ Len(r) = n + 1 /\ Sectioned(r, p)
  BY <1>1, SectionsSet
<1> HIDE DEF r
<1>3. DOMAIN r = 1..n + 1
  BY <1>2, LenProperties
<1>4. ASSUME NEW i \in 1..n + 1
      PROVE  /\ r[i] \in Widget /\ r[i].section = i - 1 /\ r[i].place = ws[1].place + i - 1
             /\ r[i].hidden <=> i = 1
             /\ SameData(r[i], ws[i])
  <2>1. /\ r[i].section = i - 1 /\ (r[i].hidden <=> p[i].hidden \/ i = 1)
        /\ r[i].place = p[i].place /\ SameData(r[i], p[i])
    BY <1>1, <1>2 DEF Sectioned
  <2>2. r[i] \in Widget
    BY <1>2, ElementOfSeq
  <2>3. p[i].hidden => i = 1
    <3>1. i # 1 => i \in 2..n + 1
      OBVIOUS
    <3> QED
      BY <1>1, <3>1
  <2>4. SameData(r[i], ws[i])
    BY <1>1, <2>1 DEF SameData
  <2> QED
    BY <1>1, <2>1, <2>2, <2>3, <2>4
<1>5. CASE n = 0
  <2> DEFINE w   == [r[1] EXCEPT !.place = 0]
             ws2 == [r EXCEPT ![1] = w]
  <2>1. /\ r[1] \in Widget /\ r[1].section = 0 /\ r[1].hidden /\ SameData(r[1], ws[1])
    BY <1>4
  <2>2. /\ w \in Widget /\ w.section = 0 /\ w.place = 0 /\ w.hidden = r[1].hidden
        /\ SameData(w, r[1])
    BY <2>1 DEF Widget, SameData
  <2> HIDE DEF w
  <2>3. ws2 \in Seq(Widget) /\ Len(ws2) = 1 /\ ws2[1] = w /\ DOMAIN ws2 = 1..1
    <3>1. 1 \in 1..Len(r) /\ Len(r) = 1
      BY <1>2, <1>5
    <3>2. /\ ws2 \in Seq(Widget) /\ Len(ws2) = Len(r)
          /\ \A j \in 1..Len(r) : ws2[j] = IF j = 1 THEN w ELSE r[j]
      BY <1>2, <2>2, <3>1, ExceptSeq
    <3>3. DOMAIN ws2 = 1..Len(ws2)
      BY <3>2, LenProperties
    <3> QED
      BY <3>1, <3>2, <3>3
  <2> HIDE DEF ws2
  <2>4. WidgetsFit(ws2, n)
    <3>1. ws2[1].section = 0 /\ ws2[1].place = 0
      BY <2>2, <2>3
    <3>2. ws2[1].hidden
      BY <2>1, <2>2, <2>3
    <3> QED
      BY <1>5, <2>3, <3>1, <3>2 DEF WidgetsFit
  <2>5. \A i \in 1..n + 1 : SameData(ws2[i], ws[i])
    BY <1>5, <2>1, <2>2, <2>3 DEF SameData
  <2>6. Len(r) = 1
    BY <1>2, <1>5
  <2>7. ws2 = [r EXCEPT ![1].place = 0]
    BY DEF ws2, w
  <2> QED
    BY <2>3, <2>4, <2>5, <2>6, <2>7 DEF r, p
<1>6. CASE n # 0
  <2>1. Len(r) # 1
    BY <1>2, <1>6
  <2>2. \A i \in 1..n + 1 : r[i].place = i - 1
    BY <1>4, <1>6
  <2>3. WidgetsFit(r, n)
    BY <1>2, <1>3, <1>4, <2>2 DEF WidgetsFit
  <2> QED
    BY <1>2, <1>4, <2>1, <2>3 DEF r, p
<1> QED
  BY <1>5, <1>6

\* One section is removed, and its widget with it.
LEMMA OneRemoved ==
    ASSUME NEW n \in Nat, NEW ws \in Seq(Widget), WidgetsFit(ws, n), NEW k \in 1..n
    PROVE  LET ws2 == SectionsAboutToBeRemoved(ws, k, k)
           IN  /\ ws2 \in Seq(Widget) /\ WidgetsFit(ws2, n - 1)
               /\ \A j \in 1..n : SameData(ws2[j], ws[IF j <= k THEN j ELSE j + 1])
<1> DEFINE ws0 == SubSeq(ws, 1, k) \o SubSeq(ws, k + 2, Len(ws))
           m   == n - 1
<1>1. /\ Len(ws) = n + 1 /\ DOMAIN ws = 1..n + 1
      /\ \A i \in 1..n + 1 : /\ ws[i].place = i - 1
                             /\ ws[i].hidden <=> i = 1
  BY LenProperties DEF WidgetsFit
<1>2. ws0 = RemoveAt(ws, k + 1)
  <2>1. (k + 1) - 1 = k /\ (k + 1) + 1 = k + 2
    OBVIOUS
  <2> QED
    BY <2>1 DEF RemoveAt
<1> HIDE DEF ws0
<1>3. /\ ws0 \in Seq(Widget) /\ Len(ws0) = n
      /\ \A j \in 1..n : ws0[j] = IF j < k + 1 THEN ws[j] ELSE ws[j + 1]
  <2>1. k + 1 \in 1..Len(ws) /\ Len(ws) - 1 = n
    BY <1>1
  <2> QED
    BY <1>2, <2>1, RemoveAtProperties
<1>4. m \in Nat /\ Len(ws0) = m + 1 /\ m + 1 = n
  BY <1>3
<1>5. \A j \in 1..n : ws0[j] = ws[IF j <= k THEN j ELSE j + 1]
  BY <1>3
<1>6. (\A i \in 2..m + 1 : ~ws0[i].hidden) /\ ws0[1].place = 0
  <2>1. ASSUME NEW i \in 2..m + 1 PROVE ~ws0[i].hidden
    <3> DEFINE j == IF i <= k THEN i ELSE i + 1
    <3>1. j \in 1..n + 1 /\ j # 1 /\ ws0[i] = ws[j]
      BY <1>4, <1>5
    <3> HIDE DEF j
    <3> QED
      BY <1>1, <3>1
  <2>2. ws0[1] = ws[1]
    BY <1>5
  <2> QED
    BY <1>1, <2>1, <2>2
<1>7. SectionsAboutToBeRemoved(ws, k, k) =
        LET r == SetSectionsValues(Placed(ws0))
        IN  IF Len(r) = 1 THEN [r EXCEPT ![1].place = 0] ELSE r
  BY DEF SectionsAboutToBeRemoved, ws0
<1> DEFINE ws2 == SectionsAboutToBeRemoved(ws, k, k)
<1> HIDE DEF m
<1>8. /\ ws2 \in Seq(Widget) /\ WidgetsFit(ws2, m)
      /\ \A i \in 1..m + 1 : SameData(ws2[i], ws0[i])
  BY <1>3, <1>4, <1>6, <1>7, WidgetsLeft
<1> HIDE DEF ws2
<1> QED
  BY <1>4, <1>5, <1>8 DEF ws2, m

\* reset leaves one widget, the corner's.
LEMMA AllAreRemoved ==
    ASSUME NEW n \in Nat, NEW ws \in Seq(Widget), WidgetsFit(ws, n)
    PROVE  AllRemoved(ws) \in Seq(Widget) /\ WidgetsFit(AllRemoved(ws), 0)
<1>1. Len(ws) = n + 1
  BY DEF WidgetsFit
<1>2. CASE n = 0
  BY <1>1, <1>2 DEF AllRemoved
<1>3. CASE n # 0
  <2> DEFINE ws0 == SubSeq(ws, 1, 0) \o SubSeq(ws, (Len(ws) - 2) + 2, Len(ws))
             a   == SubSeq(ws, 1, 0)
             b   == SubSeq(ws, n + 1, n + 1)
  <2>1. a \in Seq(Widget) /\ Len(a) = 0
    BY SubSeqProperties
  <2>2. b \in Seq(Widget) /\ Len(b) = 1
    <3>1. \A i \in (n + 1)..(n + 1) : ws[i] \in Widget
      BY <1>1, ElementOfSeq
    <3> QED
      BY <3>1, SubSeqProperties
  <2>3. ws0 = a \o b
    <3>1. (Len(ws) - 2) + 2 = n + 1
      BY <1>1
    <3> QED
      BY <1>1, <3>1
  <2> HIDE DEF ws0, a, b
  <2>4. ws0 \in Seq(Widget) /\ Len(ws0) = 0 + 1
    BY <2>1, <2>2, <2>3, ConcatProperties
  <2> DEFINE r   == SetSectionsValues(Placed(ws0))
             ws2 == IF Len(r) = 1 THEN [r EXCEPT ![1].place = 0] ELSE r
  <2>5. AllRemoved(ws) = ws2
    BY <1>1, <1>3 DEF AllRemoved, SectionsAboutToBeRemoved, ws0
  <2>6. \A i \in 2..0 + 1 : ~ws0[i].hidden
    OBVIOUS
  <2>7. ws2 \in Seq(Widget) /\ WidgetsFit(ws2, 0)
    BY <2>4, <2>6, WidgetsLeft
  <2> QED
    BY <2>5, <2>7
<1> QED
  BY <1>2, <1>3
-----------------------------------------------------------------------------
LEMMA HeaderFacts ==
    ASSUME HeaderInv
    PROVE  /\ TableInv /\ Distinct(shops) /\ Offered(shops)
           /\ shops \in Seq(Shop) /\ Len(shops) \in Nat /\ DOMAIN shops = 1..Len(shops)
           /\ comps \in Seq(BOOLEAN) /\ Len(comps) \in Nat /\ DOMAIN comps = 1..Len(comps)
           /\ shopWidgets \in Seq(Widget) /\ WidgetsFit(shopWidgets, Len(shops))
           /\ ShowsShops(shopWidgets, shops) /\ Free(shopWidgets, shops)
           /\ compWidgets \in Seq(Widget) /\ WidgetsFit(compWidgets, Len(comps))
           /\ ShowsComps(compWidgets, comps)
           /\ DOMAIN shopWidgets = 1..Len(shops) + 1 /\ DOMAIN compWidgets = 1..Len(comps) + 1
  BY TableFacts, LenProperties DEF HeaderInv, NamesInv, ShopsInv, CompsInv, WidgetsFit

\* A click reaches the section the widget is for, so it does to the table what
\* the table's own operations do.
LEMMA HeaderStepIsTableStep ==
    HeaderInv /\ [HeaderNext]_<<tableVars, headerVars>> => [Next]_tableVars
<1> SUFFICES ASSUME HeaderInv, [HeaderNext]_<<tableVars, headerVars>> PROVE [Next]_tableVars
  OBVIOUS
<1>0. /\ Len(shops) \in Nat /\ DOMAIN shops = 1..Len(shops)
      /\ Len(comps) \in Nat /\ DOMAIN comps = 1..Len(comps)
  BY HeaderFacts
<1>1. ASSUME NEW i \in DOMAIN shopWidgets
      PROVE  /\ i \in Nat /\ shopWidgets[i].section = i - 1
             /\ (~shopWidgets[i].hidden) => shopWidgets[i].section \in DOMAIN shops
             /\ shopWidgets[i].section # 0 => shopWidgets[i].section \in DOMAIN shops
             /\ (~shopWidgets[i].active) \in BOOLEAN
  <2>1. i \in Nat /\ shopWidgets[i].section = i - 1 /\ (shopWidgets[i].hidden <=> i = 1) /\ i <= Len(shops) + 1
    BY <1>0, HeaderFacts DEF WidgetsFit
  <2>2. i # 1 => shopWidgets[i].section \in DOMAIN shops
    BY <1>0, <2>1, HeaderFacts
  <2>3. shopWidgets[i].section = 0 => i = 1
    BY <2>1
  <2> QED
    BY <2>1, <2>2, <2>3
<1>2. ASSUME NEW i \in DOMAIN compWidgets
      PROVE  /\ i \in Nat /\ compWidgets[i].section = i - 1
             /\ (~compWidgets[i].hidden) => compWidgets[i].section \in DOMAIN comps
             /\ compWidgets[i].section # 0 => compWidgets[i].section \in DOMAIN comps
             /\ (~compWidgets[i].active) \in BOOLEAN
  <2>1. i \in Nat /\ compWidgets[i].section = i - 1 /\ (compWidgets[i].hidden <=> i = 1) /\ i <= Len(comps) + 1
    BY <1>0, HeaderFacts DEF WidgetsFit
  <2>2. i # 1 => compWidgets[i].section \in DOMAIN comps
    BY <1>0, <2>1, HeaderFacts
  <2>3. compWidgets[i].section = 0 => i = 1
    BY <2>1
  <2> QED
    BY <2>1, <2>2, <2>3
<1>3. CASE ShowAddShop
  BY <1>3 DEF ShowAddShop, Next
<1>4. CASE ShowAddComp
  BY <1>4 DEF ShowAddComp, Next
<1>5. CASE ShowReset
  BY <1>5 DEF ShowReset, Next
<1>6. CASE ChangeCells
  BY <1>6 DEF ChangeCells, Next
<1>7. ASSUME NEW i \in DOMAIN shopWidgets, ClickRemoveShop(i) PROVE Next
  <2>1. shopWidgets[i].section \in DOMAIN shops /\ RemShop(shopWidgets[i].section)
    BY <1>1, <1>7 DEF ClickRemoveShop
  <2> QED
    BY <2>1 DEF Next
<1>8. ASSUME NEW i \in DOMAIN compWidgets, ClickRemoveComp(i) PROVE Next
  <2>1. compWidgets[i].section \in DOMAIN comps /\ RemComp(compWidgets[i].section)
    BY <1>2, <1>8 DEF ClickRemoveComp
  <2> QED
    BY <2>1 DEF Next
<1>9. ASSUME NEW i \in DOMAIN shopWidgets, ClickShopActive(i) PROVE Next
  <2> DEFINE section == shopWidgets[i].section
             S == IF section = 0 THEN DOMAIN shops ELSE {section}
             b == ~shopWidgets[i].active
  <2>1. ActivateShops(S, b)
    BY <1>9 DEF ClickShopActive
  <2>2. S \in Sections(shops) /\ b \in BOOLEAN
    BY <1>1 DEF Sections
  <2> HIDE DEF S, b
  <2> QED
    BY <2>1, <2>2 DEF Next
<1>10. ASSUME NEW i \in DOMAIN compWidgets, ClickCompActive(i) PROVE Next
  <2> DEFINE section == compWidgets[i].section
             S == IF section = 0 THEN DOMAIN comps ELSE {section}
             b == ~compWidgets[i].active
  <2>1. ActivateComps(S, b)
    BY <1>10 DEF ClickCompActive
  <2>2. S \in Sections(comps) /\ b \in BOOLEAN
    BY <1>2 DEF Sections
  <2> HIDE DEF S, b
  <2> QED
    BY <2>1, <2>2 DEF Next
<1>11. ASSUME NEW i \in DOMAIN shopWidgets, NEW name \in Plugins \cup {NoName},
              ChooseShop(i, name)
       PROVE  Next
  <2>1. shopWidgets[i].section \in DOMAIN shops /\ RenameShop(shopWidgets[i].section, name)
    BY <1>1, <1>11 DEF ChooseShop
  <2> QED
    BY <2>1 DEF Next
<1>12. ASSUME NEW b \in BOOLEAN,
              \/ \E name \in Plugins \cup {Blank} : ShowReadShop(name, b)
              \/ ShowReadComponent(b)
       PROVE  Next
  BY <1>12 DEF ShowReadShop, ShowReadComponent, Next
<1>13. CASE UNCHANGED <<tableVars, headerVars>>
  BY <1>13 DEF tableVars
<1> QED
  BY <1>3, <1>4, <1>5, <1>6, <1>7, <1>8, <1>9, <1>10, <1>11, <1>12, <1>13 DEF HeaderNext

\* The list of shops with a column more or less.
LEMMA ColumnMore ==
    ASSUME NEW sh \in Seq(Shop), NEW b \in BOOLEAN
    PROVE  LET sh2 == ColumnInserted(sh, b)
               n   == Len(sh) + 1
           IN  /\ sh2 \in Seq(Shop) /\ Len(sh2) = n /\ DOMAIN sh2 = 1..n
               /\ sh2[n].name = NoName
               /\ \A i \in 1..Len(sh) : sh2[i].name = sh[i].name /\ sh2[i].active = sh[i].active
<1> DEFINE s1  == Append(sh, NewShop(b))
           sh2 == ColumnInserted(sh, b)
<1>1. NewShop(b) \in Shop /\ NewShop(b).name = NoName
  BY DEF NewShop, Shop, ShopName
<1>2. /\ s1 \in Seq(Shop) /\ Len(s1) = Len(sh) + 1 /\ s1[Len(sh) + 1] = NewShop(b)
      /\ \A i \in 1..Len(sh) : s1[i] = sh[i]
  BY <1>1, AppendProperties
<1>3. DOMAIN s1 = 1..Len(sh) + 1 /\ Len(sh) \in Nat
  BY <1>2, LenProperties
<1>4. sh2 = ShopsListUpdated(s1)
  BY DEF ColumnInserted
<1> HIDE DEF s1, sh2
<1>5. ASSUME NEW i \in DOMAIN s1
      PROVE  sh2[i].name = s1[i].name /\ sh2[i].active = s1[i].active
  <2>1. s1[i] \in Shop
    BY <1>2, LenProperties, ElementOfSeq
  <2>2. sh2[i] = [s1[i] EXCEPT !.available = ({NoName} \cup Plugins) \ OtherNames(s1, i)]
    BY <1>4 DEF ShopsListUpdated
  <2> QED
    BY <2>1, <2>2 DEF Shop
<1>6. sh2 \in Seq(Shop) /\ Len(sh2) = Len(sh) + 1 /\ DOMAIN sh2 = 1..Len(sh) + 1
  BY <1>2, <1>3, <1>4, ShopsListKeeps
<1> QED
  BY <1>1, <1>2, <1>3, <1>5, <1>6 DEF sh2

LEMMA ColumnLess ==
    ASSUME NEW sh \in Seq(Shop), NEW k \in 1..Len(sh)
    PROVE  LET sh2 == ShopsListUpdated(RemoveAt(sh, k))
           IN  /\ sh2 \in Seq(Shop) /\ Len(sh2) = Len(sh) - 1 /\ DOMAIN sh2 = 1..Len(sh) - 1
               /\ \A j \in 1..Len(sh) - 1 :
                    /\ sh2[j].name = sh[IF j < k THEN j ELSE j + 1].name
                    /\ sh2[j].active = sh[IF j < k THEN j ELSE j + 1].active
<1> DEFINE s1  == RemoveAt(sh, k)
           sh2 == ShopsListUpdated(s1)
<1>1. /\ s1 \in Seq(Shop) /\ Len(s1) = Len(sh) - 1
      /\ \A j \in 1..Len(sh) - 1 : s1[j] = IF j < k THEN sh[j] ELSE sh[j + 1]
  BY RemoveAtProperties
<1> HIDE DEF s1
<1>2. DOMAIN s1 = 1..Len(sh) - 1 /\ Len(sh) \in Nat
  BY <1>1, LenProperties
<1>3. sh2 \in Seq(Shop) /\ Len(sh2) = Len(sh) - 1 /\ DOMAIN sh2 = 1..Len(sh) - 1
  BY <1>1, <1>2, ShopsListKeeps
<1>4. ASSUME NEW j \in DOMAIN s1
      PROVE  sh2[j].name = s1[j].name /\ sh2[j].active = s1[j].active
  <2>1. s1[j] \in Shop
    BY <1>1, LenProperties, ElementOfSeq
  <2>2. sh2[j] = [s1[j] EXCEPT !.available = ({NoName} \cup Plugins) \ OtherNames(s1, j)]
    BY DEF ShopsListUpdated
  <2> HIDE DEF sh2
  <2> QED
    BY <2>1, <2>2 DEF Shop
<1>5. \A j \in DOMAIN s1 : s1[j] = sh[IF j < k THEN j ELSE j + 1]
  BY <1>1, <1>2
<1> HIDE DEF sh2
<1>6. \A j \in DOMAIN s1 : /\ sh2[j].name = sh[IF j < k THEN j ELSE j + 1].name
                           /\ sh2[j].active = sh[IF j < k THEN j ELSE j + 1].active
  BY <1>4, <1>5
<1> QED
  BY <1>2, <1>3, <1>6 DEF sh2, s1

\* The length of a sequence is fixed by its domain.
LEMMA SameLength ==
    ASSUME NEW S, NEW s \in Seq(S), NEW T, NEW t \in Seq(T), DOMAIN s = DOMAIN t
    PROVE  Len(s) = Len(t)
<1>1. /\ DOMAIN s = 1..Len(s) /\ Len(s) \in Nat
      /\ DOMAIN t = 1..Len(t) /\ Len(t) \in Nat
  BY LenProperties
<1> DEFINE m == Len(s)
           n == Len(t)
<1> HIDE DEF m, n
<1>2. m \in Nat /\ n \in Nat /\ 1..m = 1..n
  BY <1>1 DEF m, n
<1>3. ~(m < n)
  <2> SUFFICES ASSUME m < n PROVE FALSE
    OBVIOUS
  <2>1. n \in 1..n /\ n \notin 1..m
    BY <1>2
  <2> QED
    BY <1>2, <2>1
<1>4. ~(n < m)
  <2> SUFFICES ASSUME n < m PROVE FALSE
    OBVIOUS
  <2>1. m \in 1..m /\ m \notin 1..n
    BY <1>2
  <2> QED
    BY <1>2, <2>1
<1>5. m = n
  BY <1>2, <1>3, <1>4
<1> QED
  BY <1>5 DEF m, n
-----------------------------------------------------------------------------
\* sectionCountChanged: the new widget shows the new column, and the others are
\* still right.
LEMMA AddShopShown ==
    ASSUME HeaderInv, NamesInv', ShowAddShop
    PROVE  ShopsInv'
<1> DEFINE n   == Len(shops) + 1
           ws1 == WidgetAdded(shopWidgets)
           new == UpdatedShop(ws1[n + 1], shops')
           ws2 == [ws1 EXCEPT ![n + 1] = new]
<1>1. PICK b \in BOOLEAN : shops' = ColumnInserted(shops, b)
  BY DEF ShowAddShop, AddShop
<1>2. /\ shops' \in Seq(Shop) /\ Len(shops') = n /\ DOMAIN shops' = 1..n
      /\ shops'[n].name = NoName
      /\ \A i \in 1..Len(shops) : /\ shops'[i].name = shops[i].name
                                  /\ shops'[i].active = shops[i].active
  BY <1>1, HeaderFacts, ColumnMore
<1>3. /\ ws1 \in Seq(Widget) /\ WidgetsFit(ws1, n)
      /\ \A i \in 1..n : SameData(ws1[i], shopWidgets[i])
  BY HeaderFacts, Added
<1>4. /\ n \in Nat /\ n # 0 /\ Len(shops) \in Nat /\ DOMAIN shops = 1..Len(shops)
      /\ Distinct(shops') /\ Offered(shops')
  BY HeaderFacts DEF NamesInv
<1>5. Len(ws1) = n + 1 /\ DOMAIN ws1 = 1..n + 1
  BY <1>3, LenProperties DEF WidgetsFit
<1>6. shopWidgets' = ws2
  BY <1>5 DEF ShowAddShop, ShopSectionAdded
<1> HIDE DEF ws1
<1>7. /\ new \in Widget /\ new.section = ws1[n + 1].section /\ new.place = ws1[n + 1].place
      /\ new.hidden = ws1[n + 1].hidden /\ new.active = shops'[n].active
      /\ new.offered = shops'[n].available
      /\ shops'[n].name \in shops'[n].available => new.name = shops'[n].name
  <2> DEFINE w == ws1[n + 1]
  <2>1. w \in Widget /\ w.section = n
    BY <1>3, <1>4, <1>5, ElementOfSeq DEF WidgetsFit
  <2>2. w.section \in 0..Len(shops') /\ w.section # 0
    BY <1>2, <1>4, <2>1
  <2> HIDE DEF w
  <2>3. new = UpdatedShop(w, shops')
    BY DEF w
  <2> HIDE DEF new
  <2>4. /\ new \in Widget /\ new.section = w.section /\ new.place = w.place
        /\ new.hidden = w.hidden /\ new.active = shops'[w.section].active
        /\ new.offered = shops'[w.section].available
        /\ shops'[w.section].name \in shops'[w.section].available =>
                new.name = shops'[w.section].name
    BY <1>2, <2>1, <2>2, <2>3, ShopUpdated
  <2> QED
    BY <2>1, <2>4 DEF w
<1> HIDE DEF new
<1>8. /\ ws2 \in Seq(Widget) /\ Len(ws2) = n + 1
      /\ \A i \in 1..n + 1 : ws2[i] = IF i = n + 1 THEN new ELSE ws1[i]
  <2>1. n + 1 \in 1..Len(ws1)
    BY <1>4, <1>5
  <2> QED
    BY <1>3, <1>5, <1>7, <2>1, ExceptSeq
<1> HIDE DEF ws2
<1>9. DOMAIN ws2 = 1..n + 1
  BY <1>8, LenProperties
<1>10. ASSUME NEW i \in 1..n + 1
       PROVE  ws2[i].section = i - 1 /\ ws2[i].place = i - 1 /\ (ws2[i].hidden <=> i = 1)
  <2>1. ws1[i].section = i - 1 /\ ws1[i].place = i - 1 /\ (ws1[i].hidden <=> i = 1)
    BY <1>3, <1>5 DEF WidgetsFit
  <2>2. CASE i = n + 1
    BY <1>7, <1>8, <2>1, <2>2
  <2>3. CASE i # n + 1
    BY <1>8, <2>1, <2>3
  <2> QED
    BY <2>2, <2>3
<1>11. WidgetsFit(ws2, n)
  BY <1>8, <1>9, <1>10 DEF WidgetsFit
<1>12. ASSUME NEW c \in 1..n
       PROVE  /\ ws2[c + 1].active = shops'[c].active
              /\ shops'[c].name # Blank => ws2[c + 1].name = shops'[c].name
              /\ ws2[c + 1].offered \cap OtherNames(shops', c) \subseteq {NoName}
  <2>1. CASE c = n
    <3>1. ws2[c + 1] = new
      BY <1>4, <1>8, <2>1
    <3>2. shops'[c].name # Blank => shops'[c].name \in shops'[c].available
      BY <1>2, <1>4, OwnNameOffered
    <3>3. shops'[c].available \cap OtherNames(shops', c) = {}
      BY <1>2, <1>4 DEF Offered
    <3> QED
      BY <1>7, <2>1, <3>1, <3>2, <3>3
  <2>2. CASE c # n
    <3>1. c \in DOMAIN shops /\ c + 1 \in 1..n /\ c + 1 # n + 1
      BY <1>4, <2>2
    <3>2. SameData(ws2[c + 1], shopWidgets[c + 1])
      BY <1>3, <1>8, <3>1
    <3>3. /\ shopWidgets[c + 1].active = shops[c].active
          /\ shops[c].name # Blank => shopWidgets[c + 1].name = shops[c].name
          /\ shopWidgets[c + 1].offered \cap OtherNames(shops, c) \subseteq {NoName}
      BY <3>1, HeaderFacts DEF ShowsShops, Free
    <3>4. OtherNames(shops', c) \subseteq OtherNames(shops, c)
      <4>1. \A j \in 1..n : j = n \/ j \in 1..Len(shops)
        BY <1>4
      <4> QED
        BY <1>2, <1>4, <4>1 DEF OtherNames
    <3>5. shops'[c].name = shops[c].name /\ shops'[c].active = shops[c].active
      BY <1>2, <1>4, <3>1
    <3> QED
      BY <3>2, <3>3, <3>4, <3>5 DEF SameData
  <2> QED
    BY <2>1, <2>2
<1>13. ShowsShops(ws2, shops') /\ Free(ws2, shops')
  BY <1>2, <1>12 DEF ShowsShops, Free
<1> QED
  BY <1>2, <1>6, <1>8, <1>11, <1>13 DEF ShopsInv

LEMMA AddCompShown ==
    ASSUME HeaderInv, ShowAddComp
    PROVE  CompsInv'
<1> DEFINE n   == Len(comps) + 1
           ws1 == WidgetAdded(compWidgets)
           new == UpdatedComp(ws1[n + 1], comps')
           ws2 == [ws1 EXCEPT ![n + 1] = new]
<1>1. PICK b \in BOOLEAN : comps' = Append(comps, b)
  BY DEF ShowAddComp, AddComp
<1>2. /\ comps' \in Seq(BOOLEAN) /\ Len(comps') = n /\ DOMAIN comps' = 1..n
      /\ \A i \in 1..Len(comps) : comps'[i] = comps[i]
  BY <1>1, HeaderFacts, AppendProperties, LenProperties
<1>3. /\ ws1 \in Seq(Widget) /\ WidgetsFit(ws1, n)
      /\ \A i \in 1..n : SameData(ws1[i], compWidgets[i])
  BY HeaderFacts, Added
<1>4. n \in Nat /\ n # 0 /\ Len(comps) \in Nat /\ DOMAIN comps = 1..Len(comps)
  BY HeaderFacts
<1>5. Len(ws1) = n + 1 /\ DOMAIN ws1 = 1..n + 1
  BY <1>3, LenProperties DEF WidgetsFit
<1>6. compWidgets' = ws2
  BY <1>5 DEF ShowAddComp, CompSectionAdded
<1> HIDE DEF ws1
<1>7. /\ new \in Widget /\ new.section = ws1[n + 1].section /\ new.place = ws1[n + 1].place
      /\ new.hidden = ws1[n + 1].hidden /\ new.active = comps'[n]
  <2> DEFINE w == ws1[n + 1]
  <2>1. w \in Widget /\ w.section = n
    BY <1>3, <1>4, <1>5, ElementOfSeq DEF WidgetsFit
  <2>2. w.section \in 0..Len(comps') /\ w.section # 0
    BY <1>2, <1>4, <2>1
  <2> HIDE DEF w
  <2>3. new = UpdatedComp(w, comps')
    BY DEF w
  <2> HIDE DEF new
  <2> QED
    BY <1>2, <2>1, <2>2, <2>3, CompUpdated DEF w
<1> HIDE DEF new
<1>8. /\ ws2 \in Seq(Widget) /\ Len(ws2) = n + 1
      /\ \A i \in 1..n + 1 : ws2[i] = IF i = n + 1 THEN new ELSE ws1[i]
  <2>1. n + 1 \in 1..Len(ws1)
    BY <1>4, <1>5
  <2> QED
    BY <1>3, <1>5, <1>7, <2>1, ExceptSeq
<1> HIDE DEF ws2
<1>9. DOMAIN ws2 = 1..n + 1
  BY <1>8, LenProperties
<1>10. ASSUME NEW i \in 1..n + 1
       PROVE  ws2[i].section = i - 1 /\ ws2[i].place = i - 1 /\ (ws2[i].hidden <=> i = 1)
  <2>1. ws1[i].section = i - 1 /\ ws1[i].place = i - 1 /\ (ws1[i].hidden <=> i = 1)
    BY <1>3, <1>5 DEF WidgetsFit
  <2>2. CASE i = n + 1
    BY <1>7, <1>8, <2>1, <2>2
  <2>3. CASE i # n + 1
    BY <1>8, <2>1, <2>3
  <2> QED
    BY <2>2, <2>3
<1>11. WidgetsFit(ws2, n)
  BY <1>8, <1>9, <1>10 DEF WidgetsFit
<1>12. ASSUME NEW c \in 1..n PROVE ws2[c + 1].active = comps'[c]
  <2>1. CASE c = n
    BY <1>4, <1>7, <1>8, <2>1
  <2>2. CASE c # n
    <3>1. c \in DOMAIN comps /\ c + 1 \in 1..n /\ c + 1 # n + 1
      BY <1>4, <2>2
    <3>2. SameData(ws2[c + 1], compWidgets[c + 1])
      BY <1>3, <1>8, <3>1
    <3> QED
      BY <1>2, <1>4, <3>1, <3>2, HeaderFacts DEF SameData, ShowsComps
  <2> QED
    BY <2>1, <2>2
<1>13. ShowsComps(ws2, comps')
  BY <1>2, <1>12 DEF ShowsComps
<1> QED
  BY <1>2, <1>6, <1>8, <1>11, <1>13 DEF CompsInv

\* A removal takes the widget of the section it takes; what the others offer may
\* be old, but the names they lacked have not come back.
LEMMA RemoveShopShown ==
    ASSUME HeaderInv, NEW i \in DOMAIN shopWidgets, ClickRemoveShop(i)
    PROVE  ShopsInv'
<1> DEFINE n   == Len(shops)
           k   == shopWidgets[i].section
           ws2 == SectionsAboutToBeRemoved(shopWidgets, k, k)
           from(j) == IF j < k THEN j ELSE j + 1
<1>1. n \in Nat /\ DOMAIN shops = 1..n /\ k \in 1..n /\ k < n
  <2>1. k = i - 1 /\ i # 1 /\ i \in 1..n + 1
    BY HeaderFacts DEF ClickRemoveShop, WidgetsFit
  <2>2. k < n
    BY DEF ClickRemoveShop, RemShop
  <2> QED
    BY <2>1, <2>2, HeaderFacts
<1>2. shopWidgets' = ws2 /\ shops' = ShopsListUpdated(RemoveAt(shops, k))
  BY DEF ClickRemoveShop, RemShop
<1> HIDE DEF k
<1>3. /\ shops' \in Seq(Shop) /\ Len(shops') = n - 1 /\ DOMAIN shops' = 1..n - 1
      /\ \A j \in 1..n - 1 : /\ shops'[j].name = shops[from(j)].name
                             /\ shops'[j].active = shops[from(j)].active
  BY <1>1, <1>2, HeaderFacts, ColumnLess
<1>4. /\ ws2 \in Seq(Widget) /\ WidgetsFit(ws2, n - 1)
      /\ \A j \in 1..n : SameData(ws2[j], shopWidgets[IF j <= k THEN j ELSE j + 1])
  BY <1>1, HeaderFacts, OneRemoved
<1> HIDE DEF ws2
<1>5. ASSUME NEW c \in 1..n - 1
      PROVE  /\ from(c) \in DOMAIN shops /\ SameData(ws2[c + 1], shopWidgets[from(c) + 1])
  <2>1. c + 1 \in 1..n /\ (c + 1 <= k <=> c < k)
    BY <1>1
  <2>2. (IF c + 1 <= k THEN c + 1 ELSE (c + 1) + 1) = from(c) + 1
    BY <1>1, <2>1
  <2> QED
    BY <1>1, <1>4, <2>1, <2>2
<1>6. ASSUME NEW c \in 1..n - 1
      PROVE  OtherNames(shops', c) \subseteq OtherNames(shops, from(c))
  <2>1. \A j \in (1..n - 1) \ {c} : from(j) \in (DOMAIN shops) \ {from(c)}
    BY <1>1
  <2> HIDE DEF from
  <2> QED
    BY <1>3, <2>1 DEF OtherNames
<1> HIDE DEF from
<1>7. ASSUME NEW c \in 1..n - 1
      PROVE  /\ ws2[c + 1].active = shops'[c].active
             /\ shops'[c].name # Blank => ws2[c + 1].name = shops'[c].name
             /\ ws2[c + 1].offered \cap OtherNames(shops', c) \subseteq {NoName}
  <2> DEFINE d == from(c)
  <2>1. d \in DOMAIN shops /\ SameData(ws2[c + 1], shopWidgets[d + 1])
    BY <1>5
  <2>2. /\ shopWidgets[d + 1].active = shops[d].active
        /\ shops[d].name # Blank => shopWidgets[d + 1].name = shops[d].name
        /\ shopWidgets[d + 1].offered \cap OtherNames(shops, d) \subseteq {NoName}
    BY <2>1, HeaderFacts DEF ShowsShops, Free
  <2> QED
    BY <1>3, <1>6, <2>1, <2>2 DEF SameData
<1>8. ShowsShops(ws2, shops') /\ Free(ws2, shops')
  BY <1>3, <1>7 DEF ShowsShops, Free
<1> QED
  BY <1>2, <1>3, <1>4, <1>8 DEF ShopsInv

LEMMA RemoveCompShown ==
    ASSUME HeaderInv, NEW i \in DOMAIN compWidgets, ClickRemoveComp(i)
    PROVE  CompsInv'
<1> DEFINE n   == Len(comps)
           k   == compWidgets[i].section
           ws2 == SectionsAboutToBeRemoved(compWidgets, k, k)
<1>1. n \in Nat /\ DOMAIN comps = 1..n /\ k \in 1..n /\ k < n
  <2>1. k = i - 1 /\ i # 1 /\ i \in 1..n + 1
    BY HeaderFacts DEF ClickRemoveComp, WidgetsFit
  <2>2. k < n
    BY DEF ClickRemoveComp, RemComp
  <2> QED
    BY <2>1, <2>2, HeaderFacts
<1>2. compWidgets' = ws2 /\ comps' = RemoveAt(comps, k)
  BY DEF ClickRemoveComp, RemComp
<1> HIDE DEF k
<1>3. /\ comps' \in Seq(BOOLEAN) /\ Len(comps') = n - 1
      /\ \A j \in 1..n - 1 : comps'[j] = IF j < k THEN comps[j] ELSE comps[j + 1]
  BY <1>1, <1>2, HeaderFacts, RemoveAtProperties
<1>3a. DOMAIN comps' = 1..n - 1
  BY <1>3, LenProperties
<1>4. /\ ws2 \in Seq(Widget) /\ WidgetsFit(ws2, n - 1)
      /\ \A j \in 1..n : SameData(ws2[j], compWidgets[IF j <= k THEN j ELSE j + 1])
  BY <1>1, HeaderFacts, OneRemoved
<1> HIDE DEF ws2
<1>5. ASSUME NEW c \in 1..n - 1 PROVE ws2[c + 1].active = comps'[c]
  <2> DEFINE d == IF c < k THEN c ELSE c + 1
  <2>1. c + 1 \in 1..n /\ d \in DOMAIN comps /\ comps'[c] = comps[d]
    BY <1>1, <1>3
  <2>2. (IF c + 1 <= k THEN c + 1 ELSE (c + 1) + 1) = d + 1
    BY <1>1
  <2> HIDE DEF d
  <2>3. SameData(ws2[c + 1], compWidgets[d + 1])
    BY <1>4, <2>1, <2>2
  <2> QED
    BY <2>1, <2>3, HeaderFacts DEF SameData, ShowsComps
<1>6. ShowsComps(ws2, comps')
  BY <1>3a, <1>5 DEF ShowsComps
<1> QED
  BY <1>2, <1>3, <1>4, <1>6 DEF CompsInv
-----------------------------------------------------------------------------
\* The other steps of the shops' header.
LEMMA ShopsHeaderStep ==
    ASSUME HeaderInv, NamesInv', HeaderNext
    PROVE  ShopsInv'
<1>0. /\ NamesInv /\ Distinct(shops') /\ Offered(shops') /\ shops' \in Seq(Shop)
      /\ shopWidgets \in Seq(Widget) /\ WidgetsFit(shopWidgets, Len(shops))
      /\ Len(shops) \in Nat
  BY HeaderFacts DEF NamesInv, HeaderInv, TableInv, ConfTypeOK
<1>1. ASSUME shops' = shops, shopWidgets' = shopWidgets PROVE ShopsInv'
  BY <1>1 DEF HeaderInv, ShopsInv
<1>2. ASSUME NEW ws \in Seq(Widget), WidgetsFit(ws, Len(shops')),
             shopWidgets' = ShopHeaderChanged(ws, shops')
      PROVE  ShopsInv'
  BY <1>0, <1>2, ShopsShown DEF ShopsInv
<1>3. CASE ShowReset
  <2>1. shops' = << >> /\ shopWidgets' = AllRemoved(shopWidgets)
    BY <1>3 DEF ShowReset, NewConf, OpenConf, Reset
  <2>2. shopWidgets' \in Seq(Widget) /\ WidgetsFit(shopWidgets', 0)
    BY <1>0, <2>1, AllAreRemoved
  <2>3. Len(shops') = 0 /\ DOMAIN shops' = {}
    BY <2>1
  <2> QED
    BY <2>2, <2>3 DEF ShopsInv, ShowsShops, Free
<1>4. ASSUME NEW i \in DOMAIN shopWidgets, ClickShopActive(i) PROVE ShopsInv'
  <2>1. /\ shopWidgets' = ShopHeaderChanged(shopWidgets, shops')
        /\ \E S \in Sections(shops) : ActivateShops(S, ~shopWidgets[i].active)
    <3> DEFINE S == IF shopWidgets[i].section = 0 THEN DOMAIN shops
                                                  ELSE {shopWidgets[i].section}
    <3>1. shopWidgets[i].section # 0 => shopWidgets[i].section \in DOMAIN shops
      BY HeaderFacts DEF WidgetsFit
    <3>2. S \in Sections(shops) /\ ActivateShops(S, ~shopWidgets[i].active)
      BY <1>4, <3>1 DEF Sections, ClickShopActive
    <3> HIDE DEF S
    <3> QED
      BY <1>4, <3>2 DEF ClickShopActive
  <2>2. DOMAIN shops' = DOMAIN shops
    BY <2>1 DEF ActivateShops, ProcessHeaders
  <2>3. Len(shops') = Len(shops)
    BY <1>0, <2>2, HeaderFacts, LenProperties, SameLength
  <2> QED
    BY <1>0, <1>2, <2>1, <2>3
<1>5. ASSUME NEW i \in DOMAIN shopWidgets, NEW name \in Plugins \cup {NoName},
             ChooseShop(i, name)
      PROVE  ShopsInv'
  <2> DEFINE c == shopWidgets[i].section
  <2>1. c \in DOMAIN shops
    BY <1>5, HeaderFacts DEF WidgetsFit, ChooseShop
  <2>2. shops' = ShopsListUpdated([shops EXCEPT ![c].name = name])
    BY <1>5 DEF ChooseShop, RenameShop, ProcessHeaders
  <2>3. shopWidgets' = ShopHeaderChanged(shopWidgets, shops')
    BY <1>5 DEF ChooseShop
  <2> HIDE DEF c
  <2>4. Len(shops') = Len(shops)
    BY <2>1, <2>2, HeaderFacts, Named DEF ShopName
  <2> QED
    BY <1>0, <1>2, <2>3, <2>4
<1>6. ASSUME NEW b \in BOOLEAN, NEW name \in Plugins \cup {Blank}, ShowReadShop(name, b)
      PROVE  ShopsInv'
  <2> DEFINE n  == Len(shops) + 1
             si == ColumnInserted(shops, b)
             ws == WidgetAdded(shopWidgets)
  <2>1. si \in Seq(Shop) /\ Len(si) = n /\ n \in 1..n
    BY <1>0, HeaderFacts, ColumnInsertedKeeps
  <2>2. shops' = ShopsListUpdated([si EXCEPT ![n].name = name])
    BY <1>6 DEF ShowReadShop, ReadShop, ProcessHeaders
  <2> HIDE DEF si
  <2>3. Len(shops') = n
    BY <2>1, <2>2, Named DEF ShopName
  <2>4. ws \in Seq(Widget) /\ WidgetsFit(ws, n)
    BY <1>0, Added
  <2>5. shopWidgets' = ShopHeaderChanged(ws, shops')
    BY <1>6 DEF ShowReadShop
  <2> HIDE DEF ws
  <2> QED
    BY <1>2, <2>3, <2>4, <2>5
<1>7. ASSUME \/ ShowAddComp \/ ChangeCells
             \/ \E i \in DOMAIN compWidgets : ClickRemoveComp(i) \/ ClickCompActive(i)
             \/ \E b \in BOOLEAN : ShowReadComponent(b)
      PROVE  ShopsInv'
  <2>1. shops' = shops /\ shopWidgets' = shopWidgets
    BY <1>7 DEF ShowAddComp, ChangeCells, ClickRemoveComp, ClickCompActive, ShowReadComponent,
       headerVars, AddComp, RemComp, ActivateComps, ReadComponent, ReadEnd, SetPrice,
       SetRefreshing, ResetWorseBestFlags, ProcessHeaders
  <2> QED
    BY <1>1, <2>1
<1> QED
  BY <1>0, <1>3, <1>4, <1>5, <1>6, <1>7, AddShopShown, RemoveShopShown DEF HeaderNext

LEMMA CompsHeaderStep ==
    ASSUME HeaderInv, TableInv', HeaderNext
    PROVE  CompsInv'
<1>0. /\ comps' \in Seq(BOOLEAN) /\ compWidgets \in Seq(Widget)
      /\ WidgetsFit(compWidgets, Len(comps)) /\ Len(comps) \in Nat
      /\ comps \in Seq(BOOLEAN)
  BY HeaderFacts DEF TableInv, ConfTypeOK
<1>1. ASSUME comps' = comps, compWidgets' = compWidgets PROVE CompsInv'
  BY <1>1 DEF HeaderInv, CompsInv
<1>2. ASSUME NEW ws \in Seq(Widget), WidgetsFit(ws, Len(comps')),
             compWidgets' = CompHeaderChanged(ws, comps')
      PROVE  CompsInv'
  BY <1>0, <1>2, CompsShown DEF CompsInv
<1>3. CASE ShowReset
  <2>1. comps' = << >> /\ compWidgets' = AllRemoved(compWidgets)
    BY <1>3 DEF ShowReset, NewConf, OpenConf, Reset
  <2>2. compWidgets' \in Seq(Widget) /\ WidgetsFit(compWidgets', 0)
    BY <1>0, <2>1, AllAreRemoved
  <2>3. Len(comps') = 0 /\ DOMAIN comps' = {}
    BY <2>1
  <2> QED
    BY <2>2, <2>3 DEF CompsInv, ShowsComps
<1>4. ASSUME NEW i \in DOMAIN compWidgets, ClickCompActive(i) PROVE CompsInv'
  <2>1. /\ compWidgets' = CompHeaderChanged(compWidgets, comps')
        /\ DOMAIN comps' = DOMAIN comps
    BY <1>4 DEF ClickCompActive, ActivateComps, ProcessHeaders
  <2>2. Len(comps') = Len(comps)
    BY <1>0, <2>1, SameLength
  <2> QED
    BY <1>0, <1>2, <2>1, <2>2
<1>5. ASSUME NEW b \in BOOLEAN, ShowReadComponent(b) PROVE CompsInv'
  <2> DEFINE n  == Len(comps) + 1
             ws == WidgetAdded(compWidgets)
  <2>1. comps' = Append(comps, b)
    BY <1>5 DEF ShowReadComponent, ReadComponent, ProcessHeaders
  <2>2. Len(comps') = n
    BY <1>0, <2>1, AppendProperties
  <2>3. ws \in Seq(Widget) /\ WidgetsFit(ws, n)
    BY <1>0, Added
  <2>4. compWidgets' = CompHeaderChanged(ws, comps')
    BY <1>5 DEF ShowReadComponent
  <2> HIDE DEF ws
  <2> QED
    BY <1>2, <2>2, <2>3, <2>4
<1>6. ASSUME \/ ShowAddShop \/ ChangeCells
             \/ \E i \in DOMAIN shopWidgets : ClickRemoveShop(i) \/ ClickShopActive(i)
             \/ \E i \in DOMAIN shopWidgets, name \in Plugins \cup {NoName} : ChooseShop(i, name)
             \/ \E b \in BOOLEAN, name \in Plugins \cup {Blank} : ShowReadShop(name, b)
      PROVE  CompsInv'
  <2>1. comps' = comps /\ compWidgets' = compWidgets
    BY <1>6 DEF ShowAddShop, ChangeCells, ClickRemoveShop, ClickShopActive, ChooseShop,
       ShowReadShop, headerVars, AddShop, RemShop, ActivateShops, RenameShop, ReadShop,
       ReadEnd, SetPrice, SetRefreshing, ResetWorseBestFlags, ProcessHeaders
  <2> QED
    BY <1>1, <2>1
<1> QED
  BY <1>0, <1>3, <1>4, <1>5, <1>6, AddCompShown, RemoveCompShown DEF HeaderNext

LEMMA HeaderStep ==
    HeaderInv /\ [HeaderNext]_<<tableVars, headerVars>> => HeaderInv'
<1> SUFFICES ASSUME HeaderInv, [HeaderNext]_<<tableVars, headerVars>> PROVE HeaderInv'
  OBVIOUS
<1>1. NamesInv'
  BY HeaderStepIsTableStep, NamesStep DEF HeaderInv
<1>2. CASE HeaderNext
  <2>1. TableInv'
    BY <1>1 DEF NamesInv
  <2> QED
    BY <1>1, <1>2, <2>1, ShopsHeaderStep, CompsHeaderStep DEF HeaderInv
<1>3. CASE UNCHANGED <<tableVars, headerVars>>
  <2>1. ShopsInv' /\ CompsInv'
    BY <1>3 DEF tableVars, headerVars, HeaderInv, ShopsInv, CompsInv
  <2> QED
    BY <1>1, <2>1 DEF HeaderInv
<1> QED
  BY <1>2, <1>3

\* setModel gives the corner its widgets.
LEMMA HeaderInitially == HeaderInit => HeaderInv
<1> SUFFICES ASSUME HeaderInit PROVE HeaderInv
  OBVIOUS
<1>1. Init /\ TableInv /\ shops = << >> /\ comps = << >>
  BY TableInit DEF HeaderInit, Init
<1>2. NamesInv
  BY <1>1 DEF NamesInv, Distinct, Offered
<1> DEFINE new == [NewWidget EXCEPT !.place = 0]
           ws1 == Append(<< >>, new)
           ws2 == WidgetAdded(<< >>)
           w0  == ws2[1]
<1>3. ws2 = SetSectionsValues(ws1)
  BY DEF WidgetAdded
<1>4. w0 \in Widget /\ w0.section = 0 /\ w0.place = 0 /\ w0.hidden
  <2>1. new \in Widget /\ new.place = 0
    BY NewWidgetIsWidget
  <2> HIDE DEF new
  <2>2. ws1 \in Seq(Widget) /\ Len(ws1) = 1 /\ ws1[1] = new
    BY <2>1, EmptySeq, AppendProperties
  <2> HIDE DEF ws1, ws2
  <2>3. ws2 \in Seq(Widget) /\ Len(ws2) = 1 /\ Sectioned(ws2, ws1)
    BY <1>3, <2>2, SectionsSet
  <2>4. /\ ws2[1].section = 1 - 1 /\ (ws2[1].hidden <=> ws1[1].hidden \/ 1 = 1)
        /\ ws2[1].place = ws1[1].place
    BY <2>2, <2>3 DEF Sectioned
  <2>5. ws2[1] \in Widget
    BY <2>3, ElementOfSeq
  <2>6. ws2[1].section = 0 /\ ws2[1].place = 0
    BY <2>1, <2>2, <2>4
  <2>7. ws2[1].hidden
    BY <2>4
  <2> QED
    BY <2>5, <2>6, <2>7
<1> HIDE DEF ws2
<1>5. << >> \in Seq(Shop) /\ Len(<< >>) = 0 /\ << >> \in Seq(BOOLEAN)
  BY EmptySeq
<1> DEFINE u == UpdatedShop(w0, << >>)
           v == UpdatedComp(w0, << >>)
<1>8. shopWidgets = <<u>> /\ compWidgets = <<v>>
  BY DEF HeaderInit, ws2
<1>4a. w0.section \in 0..Len(<< >>)
  BY <1>4, <1>5
<1> HIDE DEF w0
<1>6. u \in Widget /\ u.section = 0 /\ u.place = 0 /\ u.hidden
  <2> DEFINE s0 == << >>
  <2>1. s0 \in Seq(Shop) /\ w0.section \in 0..Len(s0)
    BY <1>4a, <1>5
  <2> HIDE DEF s0
  <2>2. LET w == UpdatedShop(w0, s0)
        IN  /\ w \in Widget /\ w.section = w0.section /\ w.place = w0.place
            /\ w.hidden = w0.hidden
    BY <1>4, <2>1, ShopUpdated
  <2> QED
    BY <1>4, <2>2 DEF s0
<1>7. v \in Widget /\ v.section = 0 /\ v.place = 0 /\ v.hidden
  <2> DEFINE s0 == << >>
  <2>1. s0 \in Seq(BOOLEAN) /\ w0.section \in 0..Len(s0)
    BY <1>4a, <1>5
  <2> HIDE DEF s0
  <2>2. LET w == UpdatedComp(w0, s0)
        IN  /\ w \in Widget /\ w.section = w0.section /\ w.place = w0.place
            /\ w.hidden = w0.hidden
    BY <1>4, <2>1, CompUpdated
  <2> QED
    BY <1>4, <2>2 DEF s0
<1> HIDE DEF u, v
<1>9. ASSUME NEW w \in Widget, w.section = 0, w.place = 0, w.hidden
      PROVE  <<w>> \in Seq(Widget) /\ WidgetsFit(<<w>>, 0)
  BY <1>9 DEF WidgetsFit
<1>10. ShopsInv
  BY <1>1, <1>5, <1>6, <1>8, <1>9 DEF ShopsInv, ShowsShops, Free
<1>11. CompsInv
  BY <1>1, <1>5, <1>7, <1>8, <1>9 DEF CompsInv, ShowsComps
<1> QED
  BY <1>2, <1>10, <1>11 DEF HeaderInv

LEMMA HeaderInductive == HeaderSpec => []HeaderInv
  BY HeaderInitially, HeaderStep, PTL DEF HeaderSpec

\* The user can do to the table through the headers only what TableSpec allows:
\* everything proved of the table holds with its headers.
THEOREM HeaderImplementsTable == HeaderSpec => TableSpec
<1>1. HeaderInit => Init
  BY DEF HeaderInit
<1> QED
  BY <1>1, HeaderInductive, HeaderStepIsTableStep, PTL DEF HeaderSpec, TableSpec

\* HeaderTypeOK, the types of the table and of the widgets, always holds.
THEOREM HeaderTypeCorrect == HeaderSpec => []HeaderTypeOK
<1>1. HeaderInv => HeaderTypeOK
  BY DEF HeaderInv, NamesInv, TableInv, ShopsInv, CompsInv, HeaderTypeOK
<1> QED
  BY <1>1, HeaderInductive, PTL

\* WidgetsShowHeaders always holds: whatever was added, removed, reset or read, every
\* section has its own widget, which shows its header and acts on it.
THEOREM WidgetsShowHeadersHolds == HeaderSpec => []WidgetsShowHeaders
<1>1. HeaderInv => WidgetsShowHeaders
  BY DEF HeaderInv, ShopsInv, CompsInv, ShowsShops, ShowsComps, WidgetsShowHeaders
<1> QED
  BY <1>1, HeaderInductive, PTL

\* OffersAreFree always holds: no combo box offers the name of another column, though
\* the headers are not told when a removal makes a name free.
THEOREM OffersAreFreeHolds == HeaderSpec => []OffersAreFree
<1>1. HeaderInv => OffersAreFree
  BY DEF HeaderInv, ShopsInv, Free, OffersAreFree
<1> QED
  BY <1>1, HeaderInductive, PTL
=============================================================================
