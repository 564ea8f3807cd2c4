---------------------------- MODULE MCMethodHandler ----------------------------
(***************************************************************************)
(* Small instances of MethodHandler: the places of one host and what is    *)
(* configured there.                                                       *)
(***************************************************************************)
EXTENDS MethodHandler

CONSTANTS w1, w2, b1, b2, s1, s2, n1, n2, op1, op2, host

MCWorkers == {w1, w2}
OneWorker == {w1}
MCBrowsers == {b1, b2}
OneBrowser == {b1}
MCSessionIds == {s1, s2}
MCNonces == {n1, n2}
MCServers == {op1, op2}
OneNonce == {n1}
OneServer == {op1}
NoBrowser == {}
OtherBrowser == {b2}

MCSymmetry == Permutations(MCWorkers) \cup Permutations(MCNonces) \cup Permutations(MCSessionIds)

At(path) == [hostname |-> host, path |-> path]

\* No directive but AuthType OpenID and Require valid-user.
Default ==
  [use_cookie |-> TRUE, cookie_path |-> None, use_single_idp |-> FALSE,
   trusted |-> None, distrusted |-> {}, use_ax |-> FALSE, use_ax_username |-> FALSE,
   username_required |-> FALSE, use_auth_program |-> FALSE,
   requires |-> <<Line("valid-user", <<>>, {"GET", "POST"})>>]

\* Cookie sessions at /a/; at /b/ a single provider, attributes, a program and
\* no cookie.
Mixed == At(<<"/", "a/">>) :> [Default EXCEPT !.distrusted = {op2}]
      @@ At(<<"/", "b/">>) :>
           [Default EXCEPT !.use_cookie = FALSE, !.use_single_idp = TRUE,
              !.trusted = {op1}, !.use_ax = TRUE, !.use_ax_username = TRUE,
              !.username_required = TRUE, !.use_auth_program = TRUE]

\* A username attribute everywhere; a login at /a/b/ goes through the program and
\* counts there only, one at /a/ counts at both places.
Named == [Default EXCEPT !.use_ax = TRUE, !.use_ax_username = TRUE, !.username_required = TRUE]

Nested == At(<<"/", "a/">>) :> [Named EXCEPT !.distrusted = {op2}]
       @@ At(<<"/", "a/", "b/">>) :>
            [Named EXCEPT !.use_single_idp = TRUE, !.trusted = {op1}, !.use_auth_program = TRUE,
               !.requires = <<Line("group", <<Empty>>, {"POST"}),
                              Line("user", <<Identity(b2), Username(b1)>>, {"GET"})>>]

\* A cookie for the whole host.
Rooted == At(<<"/", "a/">>) :>
            [Default EXCEPT !.cookie_path = <<"/">>, !.trusted = {op1},
               !.use_auth_program = TRUE,
               !.requires = <<Line("user", <<Identity(b2), Identity(b1)>>, {"GET"})>>]

\* AuthOpenIDAXUsername without AuthOpenIDAXRequire.
Unrequired == At(<<"/">>) :>
                [Default EXCEPT !.use_cookie = FALSE, !.use_ax_username = TRUE]

MixedPlaces == DOMAIN Mixed
NestedPlaces == DOMAIN Nested
RootedPlaces == DOMAIN Rooted
UnrequiredPlaces == DOMAIN Unrequired

================================================================================
