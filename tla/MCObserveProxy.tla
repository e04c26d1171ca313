--------------------------- MODULE MCObserveProxy ---------------------------
(* Small instances of ObserveProxy for TLC.                                *)
EXTENDS ObserveProxyClaims, TLC

\* Names as characters: "ab" and "c" are registered; "a", a prefix of "ab",
\* may be asked for as well.
MCNames == {<<97, 98>>, <<99>>}
MCAsks  == {<<97>>, <<97, 98>>, <<99>>}

\* One entry for everybody.
OneName == {<<97>>}

\* The token counter wraps after the first request: "65535", then "0".
MCTokens == {65535}
\* A first token as rand() gives it: ten digits, then 16 bits.
MCLongTokens == {1804289383}
\* Ids whose key is short: 255 (one byte), then 256 (no byte at all).
MCIds == {255}
\* The byte of id 48 spells "0", the token of the second request.
MCSpellingIds == {48}
\* "6", a prefix of the first token; and no token.
MCStray == {<<54>>, <<>>}

WsSymmetry == Permutations(Ws)
=============================================================================
