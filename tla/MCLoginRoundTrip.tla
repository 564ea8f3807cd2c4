--------------------------- MODULE MCLoginRoundTrip ----------------------------
(***************************************************************************)
(* Small instances of LoginRoundTrip: what users ask for and post.  The    *)
(* string functions are tried beside it.                                   *)
(***************************************************************************)
EXTENDS LoginRoundTrip, Strings

CONSTANTS v1, v2, t1, a1, a2, b1, b2, b

Texts == {t1}
Values == {v1}
Aliases == {a1, a2}

\* A pattern is the set of values it matches; one with the wrong syntax matches
\* none.
Patterns == {{v1}, {v1, v2, Empty}, {}}
Numbers == {0, 60}

\* A name given twice, a flag, a name like an extension's, an old extension.
MCAsks ==
  {<<>>,
   <<Item(<<"q">>, v1), Item(<<"flag">>, None), Item(<<"q">>, v2)>>,
   <<Item(<<"k">>, Empty)>>,
   <<Item(<<"a", "b", "c">>, v1), Item(<<"openid", "sreg", "email">>, v2)>>}

\* A form with a parameter of the query, given twice and at last empty, and one of
\* its own.
MCForms == {<<Item(<<"q">>, v1), Item(<<"field">>, v2), Item(<<"q">>, Empty)>>}
NoForms == {}

\* The beginnings of different values differ as long as a user posts them.
MCData == {v1, v2, b1, b2, b, Empty, None}
MCBeginning(v) == CASE v = v1 -> b1 [] v = v2 -> b2 [] OTHER -> b

Characters == {"&", "\"", "quot;", "/", "?", "=", ";", " ", "n", "x"}

\* The strings are tried in the initial states.
MCInit == Init /\ AnyText
Tried == text' = <<>>

MCNext ==
  \/ ReadDirective /\ Tried
  \/ Serve /\ Tried
  \/ AskForPage /\ Tried
  \/ Reload /\ Tried
  \/ FillIn /\ Tried
  \/ LoginPageReturns /\ Tried
  \/ ProviderResponds /\ Tried
  \/ ProviderCancels /\ Tried
  \/ HasValidSession /\ Tried
  \/ HandleRequest /\ Tried
  \/ NoContentType /\ Tried

MCSpec == MCInit /\ [][MCNext]_<<vars, text>>

================================================================================
