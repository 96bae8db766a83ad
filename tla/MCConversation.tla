--------------------------- MODULE MCConversation ---------------------------
(* Instances of Conversation for TLC. *)
EXTENDS Conversation, TLC

CONSTANTS c1, c2

OneConn  == {c1}
TwoConns == {c1, c2}

TwoTexts   == <<"a", "b">>
ThreeTexts == <<"a", "b", "c">>
=============================================================================
