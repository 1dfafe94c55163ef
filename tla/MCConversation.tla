--------------------------- MODULE MCConversation ----------------------------
(* Four responses, two tenants, turns that add one item or two.             *)
EXTENDS Conversation

CONSTANTS i1, i2, i3, i4, a, b

TwoItems == {"x", "y"}
ShortAdditions == {<<"x">>, <<"x", "y">>}
=============================================================================
