----------------------------- MODULE MCConfFiles -----------------------------
(***************************************************************************)
(* A few tables of up to two shops and two components.  cpu, arest, proline *)
(* and url are plain texts, accented is written as another text, ampersand  *)
(* is not well-formed.                                                      *)
(***************************************************************************)
EXTENDS ConfFiles

CONSTANTS arest, proline, cpu, url, accented, ampersand, conf, other, third

McTexts     == {arest, proline, cpu, url, accented, ampersand}
McFileNames == {conf, other, third}
McToAscii   == [t \in McTexts |-> IF t = accented THEN cpu ELSE t]

H(name, active) == [name |-> name, active |-> active]
C(price, text)  == [price |-> price, url |-> text]

\* every cell of McCells next to a plain one, under every header of McNames
McShops == {<<H(arest, TRUE)>>, <<H(Null, TRUE), H(proline, FALSE)>>,
            <<H(arest, FALSE), H(proline, TRUE)>>, <<H(Empty, TRUE), H(arest, TRUE)>>}
McNames == {Null, Empty, cpu, accented, ampersand}
McComps == {<<H(n, FALSE), H(cpu, TRUE)>> : n \in McNames}
McCells == {C(0, Null), C(0, url), C(100, Blank), C(99900, url), C(99950, url),
            C(12345, Null), C(100, ampersand)}
McRows(n, cell, last) ==
    <<[c \in 1..n |-> IF c = 1 THEN cell ELSE C(200, Null)],
      [c \in 1..n |-> IF c = n THEN last ELSE C(300, url)]>>
McTables ==
    {[shops |-> s, comps |-> p, cells |-> McRows(Len(s), d, e)] :
        s \in McShops, p \in McComps, d \in McCells, e \in {C(0, Null), C(400, url)}}

\* tables of plain texts whose only trouble may be a price of 1000 or more
McPriceTables ==
    {[shops |-> <<H(arest, TRUE)>>, comps |-> <<H(cpu, TRUE)>>,
      cells |-> << <<C(p, url)>> >>] : p \in {0, 48900, 123400}}
==============================================================================
