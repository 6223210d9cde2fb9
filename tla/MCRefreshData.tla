--------------------------- MODULE MCRefreshData ---------------------------
(* Tables for RefreshData: two shops or three, named once or twice. *)
EXTENDS RefreshData

\* column i is shop i
ShopPerCol  == [c \in 1..NCols |-> c]
\* row i is component i
NamePerRow  == [r \in 1..NRows |-> r]
Everything  == {<<1..NRows, 1..NCols>>}
AnyChoice   == (SUBSET (1..NRows)) \X (SUBSET (1..NCols))
AllOutcomes == {"crash", "end", "later"}
OneCell     == {<<1, 1>>}
\* two columns name the first plugin, the last one has no plugin
ShopsTwice  == <<1, 2, 1, NoShop>>
=============================================================================
