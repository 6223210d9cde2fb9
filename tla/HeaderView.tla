------------------------------ MODULE HeaderView ------------------------------
(***************************************************************************)
(* The headers of the table (Sources/Main/GUI: CustomHeaderView and the    *)
(* entries of its two children), composed with the table of ConfModel.  A  *)
(* header keeps a widget for each of its sections: for a shop a check box, *)
(* a button that removes the column and a combo box of shops.  The widgets *)
(* follow the model's signals, which come at different moments of a step:  *)
(* before a removal, after an insertion, and after a change of headers.    *)
(* The user acts on the table through the widgets and sees it by them.     *)
(*                                                                         *)
(* Left out: sizes (a widget's place is that of the widget before plus     *)
(* one), and the names of components, as in ConfModel.                     *)
(***************************************************************************)
EXTENDS ConfModel

VARIABLES
    shopWidgets,  \* m_vSectionsWidget of the horizontal header
    compWidgets   \* that of the vertical one

headerVars == <<shopWidgets, compWidgets>>

\* name and offered are the combo box, active the check box; hidden says that
\* the button and the combo box are, which is never taken back
Widget == [section : Nat, place : Nat, hidden : BOOLEAN, active : BOOLEAN,
           name : ShopName, offered : SUBSET (Plugins \cup {NoName})]

NewWidget == [section |-> 0, place |-> 0, hidden |-> FALSE, active |-> FALSE,
              name |-> NoName, offered |-> {}]

-----------------------------------------------------------------------------
\* setSectionsValues and setSectionIndex: section 0 hides its controls
SetSectionsValues(widgets) ==
    [i \in DOMAIN widgets |->
        [widgets[i] EXCEPT !.section = i - 1, !.hidden = @ \/ i = 1]]

\* updateData: the box of section 0 says whether all sections are active; a
\* name that is not offered leaves the combo box without a selection
UpdatedShop(w, sh) ==
    IF w.section = 0
    THEN [w EXCEPT !.active = \A i \in DOMAIN sh : sh[i].active,
                   !.offered = {}, !.name = NoName]
    ELSE [w EXCEPT !.active = sh[w.section].active,
                   !.offered = sh[w.section].available,
                   !.name = IF sh[w.section].name \in sh[w.section].available
                            THEN sh[w.section].name ELSE NoName]
UpdatedComp(w, co) ==
    [w EXCEPT !.active = IF w.section = 0 THEN \A i \in DOMAIN co : co[i]
                                          ELSE co[w.section]]

\* createSectionWidget, but for updateData
WidgetAdded(widgets) ==
    SetSectionsValues(Append(widgets,
        [NewWidget EXCEPT !.place = IF widgets = << >> THEN 0
                                    ELSE widgets[Len(widgets)].place + 1]))

\* altered: only the widget of the changed section is updated
ShopHeaderOneChanged(widgets, sh) ==
    [i \in DOMAIN widgets |->
        IF i > 1 /\ (i > Len(shops) + 1 \/ sh[i - 1].name # shops[i - 1].name
                     \/ sh[i - 1].active # shops[i - 1].active)
        THEN UpdatedShop(widgets[i], sh) ELSE widgets[i]]
\* headerDataChanged, which the model emits for all sections
ShopHeaderChanged(widgets, sh) ==
    [i \in DOMAIN widgets |-> UpdatedShop(widgets[i], sh)]
CompHeaderChanged(widgets, co) ==
    [i \in DOMAIN widgets |-> UpdatedComp(widgets[i], co)]

\* onSectionCountChanged after an insertion: only the new widget is updated
ShopSectionAdded(widgets, sh) ==
    LET ws == WidgetAdded(widgets)
    IN  [ws EXCEPT ![Len(ws)] = UpdatedShop(@, sh)]
CompSectionAdded(widgets, co) ==
    LET ws == WidgetAdded(widgets)
    IN  [ws EXCEPT ![Len(ws)] = UpdatedComp(@, co)]

\* onSectionResized(0): the places are counted from the first widget's
Placed(widgets) ==
    [i \in DOMAIN widgets |-> [widgets[i] EXCEPT !.place = widgets[1].place + i - 1]]

\* altered: the sections of the widgets that are left are not set again
SectionsRemovedOnly(widgets, first, last) ==
    LET ws == Placed(SubSeq(widgets, 1, first) \o
                     SubSeq(widgets, last + 2, Len(widgets)))
    IN  IF Len(ws) = 1 THEN [ws EXCEPT ![1].place = 0] ELSE ws
\* sectionsAboutToBeRemoved, before the model is changed; a widget left alone
\* is moved to the corner
SectionsAboutToBeRemoved(widgets, first, last) ==
    LET ws == SetSectionsValues(Placed(SubSeq(widgets, 1, first) \o
                                       SubSeq(widgets, last + 2, Len(widgets))))
    IN  IF Len(ws) = 1 THEN [ws EXCEPT ![1].place = 0] ELSE ws

-----------------------------------------------------------------------------
\* setModel: the table has its corner only
HeaderInit ==
    /\ Init
    /\ shopWidgets = <<UpdatedShop(WidgetAdded(<< >>)[1], << >>)>>
    /\ compWidgets = <<UpdatedComp(WidgetAdded(<< >>)[1], << >>)>>

ShowAddShop ==
    /\ AddShop
    /\ shopWidgets' = ShopSectionAdded(shopWidgets, shops')
    /\ UNCHANGED compWidgets
ShowAddComp ==
    /\ AddComp
    /\ compWidgets' = CompSectionAdded(compWidgets, comps')
    /\ UNCHANGED shopWidgets

\* onRemoveClicked of the i-th widget
ClickRemoveShop(i) ==
    /\ ~shopWidgets[i].hidden
    /\ RemShop(shopWidgets[i].section)
    /\ shopWidgets' = SectionsAboutToBeRemoved(shopWidgets, shopWidgets[i].section,
                                               shopWidgets[i].section)
    /\ UNCHANGED compWidgets
ClickRemoveComp(i) ==
    /\ ~compWidgets[i].hidden
    /\ RemComp(compWidgets[i].section)
    /\ compWidgets' = SectionsAboutToBeRemoved(compWidgets, compWidgets[i].section,
                                               compWidgets[i].section)
    /\ UNCHANGED shopWidgets

\* reset removes the sections from 0 on, one less than there are: the widget of
\* the last shop becomes the corner's
AllRemoved(widgets) ==
    IF Len(widgets) = 1 THEN widgets
    ELSE SectionsAboutToBeRemoved(widgets, 0, Len(widgets) - 2)
ShowReset ==
    /\ NewConf \/ OpenConf
    /\ shopWidgets' = AllRemoved(shopWidgets)
    /\ compWidgets' = AllRemoved(compWidgets)

\* onActiveClicked, of one section or, in the corner, of all; the click has
\* turned the box over
ClickShopActive(i) ==
    LET section == shopWidgets[i].section
    IN  /\ ActivateShops(IF section = 0 THEN DOMAIN shops ELSE {section},
                         ~shopWidgets[i].active)
        /\ shopWidgets' = ShopHeaderChanged(shopWidgets, shops')
        /\ UNCHANGED compWidgets
ClickCompActive(i) ==
    LET section == compWidgets[i].section
    IN  /\ ActivateComps(IF section = 0 THEN DOMAIN comps ELSE {section},
                         ~compWidgets[i].active)
        /\ compWidgets' = CompHeaderChanged(compWidgets, comps')
        /\ UNCHANGED shopWidgets

\* onShopChanged, with an entry of the combo box
ChooseShop(i, name) ==
    /\ ~shopWidgets[i].hidden /\ name \in shopWidgets[i].offered
    /\ RenameShop(shopWidgets[i].section, name)
    /\ shopWidgets' = ShopHeaderChanged(shopWidgets, shops')
    /\ UNCHANGED compWidgets

\* the reader inserts a section and sets its header
ShowReadShop(name, b) ==
    /\ ReadShop(name, b)
    /\ shopWidgets' = ShopHeaderChanged(WidgetAdded(shopWidgets), shops')
    /\ UNCHANGED compWidgets
ShowReadComponent(b) ==
    /\ ReadComponent(b)
    /\ compWidgets' = CompHeaderChanged(WidgetAdded(compWidgets), comps')
    /\ UNCHANGED shopWidgets

\* changes of cells, which the headers are not told of
ChangeCells ==
    /\ \/ ReadEnd
       \/ \E r \in DOMAIN comps, c \in DOMAIN shops :
            \/ \E price \in Prices : SetPrice(r, c, price)
            \/ \E b \in BOOLEAN : SetRefreshing(r, c, b)
       \/ ResetWorseBestFlags
    /\ UNCHANGED headerVars

HeaderNext ==
    \/ ShowAddShop \/ ShowAddComp \/ ShowReset \/ ChangeCells
    \/ \E i \in DOMAIN shopWidgets : ClickRemoveShop(i) \/ ClickShopActive(i)
    \/ \E i \in DOMAIN compWidgets : ClickRemoveComp(i) \/ ClickCompActive(i)
    \/ \E i \in DOMAIN shopWidgets, name \in Plugins \cup {NoName} : ChooseShop(i, name)
    \/ \E b \in BOOLEAN :
        \/ \E name \in Plugins \cup {Blank} : ShowReadShop(name, b)
        \/ ShowReadComponent(b)

HeaderSpec == HeaderInit /\ [][HeaderNext]_<<tableVars, headerVars>>

-----------------------------------------------------------------------------
HeaderTypeOK ==
    /\ ConfTypeOK
    /\ shopWidgets \in Seq(Widget) /\ compWidgets \in Seq(Widget)

\* Through every removal, New, Open and read file there is a widget for each
\* section, in its place, which acts on its own section and shows its header;
\* only the corner's controls are hidden.  So no widget that headerDataChanged
\* looks for is missing, and no click reaches another column.
WidgetsFit(widgets, n) ==
    /\ Len(widgets) = n + 1
    /\ \A i \in DOMAIN widgets :
        /\ widgets[i].section = i - 1 /\ widgets[i].place = i - 1
        /\ widgets[i].hidden <=> i = 1
WidgetsShowHeaders ==
    /\ WidgetsFit(shopWidgets, Len(shops)) /\ WidgetsFit(compWidgets, Len(comps))
    /\ \A c \in DOMAIN shops :
        /\ shopWidgets[c + 1].active = shops[c].active
        /\ shops[c].name # Blank => shopWidgets[c + 1].name = shops[c].name
    /\ \A r \in DOMAIN comps : compWidgets[r + 1].active = comps[r]

\* What a combo box offers may be older than what the model offers the column,
\* as the headers are not told of a removal, but it never has the name of
\* another column: no choice of the user gives two columns one shop.
OffersAreFree ==
    \A c \in DOMAIN shops :
        shopWidgets[c + 1].offered \cap OtherNames(shops, c) \subseteq {NoName}
==============================================================================
