------------------------ MODULE MCGlobalAccelerator ------------------------
(***************************************************************************)
(* Small instances of GlobalAccelerator: two protocols, four ports, one or *)
(* two endpoints, up to two listeners.                                     *)
(***************************************************************************)
EXTENDS GlobalAccelerator

CONSTANTS E1, E2, R1, R2

Eps(a, b) == [e \in Endpoints |-> IF e = E1 THEN a ELSE b]
G(ov, eps) == [dial |-> 100, ov |-> ov, eps |-> eps]
At(r, g) == [x \in Regions |-> IF x = r THEN g ELSE None]
L(p, ports, groups) == [proto |-> p, ports |-> ports, aff |-> "NONE", groups |-> groups]
S(name, ls) == [name |-> name, ls |-> ls]

\* Two listeners; ports and protocol move, an override's endpoint port becomes
\* a listener port, another moves to the other listener, weights change.
MoveSpecs == <<
    S(1, <<L("TCP", {1, 2}, At(R1, G({<<1, 9>>}, Eps(128, None)))), L("UDP", {3}, At(R1, G({<<3, 8>>}, Eps(None, 10))))>>),
    S(2, <<L("TCP", {2}, At(R1, G({<<2, 8>>}, Eps(None, 128)))), L("UDP", {9}, At(R2, G({}, Eps(10, None))))>>) >>
\* Listeners trade ports; an endpoint with two weights, then another one; one
\* endpoint replaces another.
TradeSpecs == <<
    S(1, <<L("TCP", {1}, At(R1, G({}, Eps(128, None)))), L("TCP", {2, 3}, At(R1, G({}, Eps(10, None))))>>),
    S(1, <<L("TCP", {1, 2}, At(R1, G({}, Eps(64, None)))), L("TCP", {3}, At(R1, G({}, Eps(None, 128))))>>) >>
\* One listener whose protocol and ports are to be discovered, then fixed ones.
AutoSpecs == <<
    S(1, <<L(None, None, At(R1, G({}, Eps(128, None))))>>),
    S(1, <<L("TCP", {1}, NoGroups), L("TCP", {2}, NoGroups)>>) >>

Up == <<Eps({<<"TCP", 1>>}, {<<"TCP", 2>>})>>
ComesUp == <<Eps(None, {}), Eps({<<"TCP", 1>>, <<"UDP", 3>>}, {})>>

Move == [specs |-> MoveSpecs, lbs |-> Up, limit |-> 1]
Trade == [specs |-> TradeSpecs, lbs |-> Up, limit |-> 2]
Auto == [specs |-> AutoSpecs, lbs |-> ComesUp, limit |-> 2]
All == {Move, Trade, Auto}
OnlyTrade == {Trade}
============================================================================
