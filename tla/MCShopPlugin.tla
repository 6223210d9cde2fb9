----------------------------- MODULE MCShopPlugin -----------------------------
(* Shops for ShopPlugin: the kinds of pages a shop sends, and the words of   *)
(* the names: k1's second link is k1 itself and the first, before it in the  *)
(* order of URLs, shares half of its words; k2's links share one in four.    *)
EXTENDS ShopPlugin

CONSTANTS k1, k2

AllKinds   == {"bad", "refresh", "notFound", "product", "search", "unknown"}
KnownKinds == AllKinds \ {"unknown"}

NameOf(k) == {"disk", "fast", "big", k}
LinkName(l) ==
    CASE l = <<k1, 1>> -> {"disk", "fast"}
      [] l = <<k1, 2>> -> NameOf(k1)
      [] OTHER         -> {"disk"}
McWords   == [x \in Components \cup Link |-> IF x \in Components THEN NameOf(x) ELSE LinkName(x)]
McUrlRank == [l \in Link |-> l[2] + (IF l[1] = k1 THEN 0 ELSE 2)]
=============================================================================
