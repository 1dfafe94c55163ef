---------------------------- MODULE MCChatStream -----------------------------
(* A small instance of ChatStream.                                           *)
EXTENDS ChatStream

SomeLetters == {"a", "b", "x", "y"}

Fragment(index, id, name, arguments) ==
  [index |-> index, id |-> id, name |-> name, arguments |-> arguments]

\* Text in fragments, one of them empty.
AFewContents == {<<>>, <<"a">>, <<"b">>}

\* Two calls, whose ids, names and arguments come together or apart; the
\* first also without an index; and an id and a name that disagree.
AFewCalls ==
  {Fragment(1, 1, "f", <<>>), Fragment(1, None, None, <<"x">>),
   Fragment(1, None, "g", <<"y">>), Fragment(0, 2, None, <<"x">>),
   Fragment(0, None, "f", <<"y">>), Fragment(None, None, "f", <<>>),
   Fragment(None, 1, None, <<"y">>)}

\* A count that is complete, and a later one that gives only some of it.
AFewUsages ==
  {[prompt_tokens |-> 3, completion_tokens |-> 1, total_tokens |-> 4],
   [prompt_tokens |-> None, completion_tokens |-> 2, total_tokens |-> None]}

EveryReason == {"stop", "tool_calls", "length", "content_filter", "other"}
=============================================================================
