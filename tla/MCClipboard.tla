---------------------------- MODULE MCClipboard ----------------------------
(***************************************************************************)
(* Texts: an e with acute accent after a carriage return, the euro sign,   *)
(* which Latin-1 does not have, and nothing but a carriage return.         *)
(***************************************************************************)
EXTENDS Clipboard, TLC

MCText == {<<13, 233>>, <<8364>>, <<13>>}
ClientSymmetry == Permutations(Client)
MCTruncated == {<<195>>}

(***************************************************************************)
(* The conversions against the definitions of UTF-8 and Latin-1, for the   *)
(* code points at the bounds of the lengths of their encoding.             *)
(***************************************************************************)
Boundary == {97, 127, 128, 191, 192, 255, 256, 2047, 2048, 65535, 65536}
Sample == UNION {[1..n -> Boundary] : n \in 0..2}

ASSUME ConversionsAgree ==
    \A t \in Sample :
        /\ \A past \in SUBSET (1..3) : lorieCheckUTF8(UTF8(t), past)
        /\ lorieUtf8ToLatin1(UTF8(t)) = Latin1(t)
        /\ IsLatin1(t) => lorieLatin1ToUTF8(Latin1(t)) = UTF8(t)
=============================================================================
