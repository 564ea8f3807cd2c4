------------------------------ MODULE Authorization -----------------------------
(***************************************************************************)
(* The authorization hooks of mod_auth_openid.cpp: what the Require lines  *)
(* of a place say of REMOTE_USER once the method handler has set it.  With *)
(* Apache 2.4 each line asks a provider and one granted line is enough;    *)
(* with Apache 2.2 the module goes through the lines itself.               *)
(***************************************************************************)
EXTENDS SequencesExt

CONSTANTS
  Empty,       \* the empty string
  None

\* A Require line: what is required ("valid-user", "user" or something of another
\* module), the words after it and the methods it is for.
Line(what, names, methods) == [what |-> what, names |-> names, methods |-> methods]

\* user_check_authorization: the words up to an empty one.
UserCheckAuthorization(user, names) ==
  LET end == SelectInSeq(names, LAMBDA w : w = Empty)
      words == IF end = 0 THEN names ELSE SubSeq(names, 1, end - 1)
  IN CASE user = None -> "AUTHZ_DENIED_NO_USER"
       [] user # None /\ user \in Range(words) -> "AUTHZ_GRANTED"
       [] OTHER -> "AUTHZ_DENIED"

ValidUserCheckAuthorization(user) ==
  IF user = None THEN "AUTHZ_DENIED_NO_USER" ELSE "AUTHZ_GRANTED"

\* (wrong: a user line is taken for valid-user)
GrantsAnyUser(line, user) ==
  line.what \in {"valid-user", "user"} /\ ValidUserCheckAuthorization(user) = "AUTHZ_GRANTED"

\* The provider registered for the line, if it is one of the module's.
Grants(line, user) ==
  \/ line.what = "user" /\ UserCheckAuthorization(user, line.names) = "AUTHZ_GRANTED"
  \/ line.what = "valid-user" /\ ValidUserCheckAuthorization(user) = "AUTHZ_GRANTED"

\* Apache 2.4 on the lines of a place.
Authorized(lines, method, user) ==
  \E line \in Range(lines) : method \in line.methods /\ Grants(line, user)

\* (wrong: a line that the user does not meet ends the search)
CheckUserAccessFirst(lines, method, user) ==
  LET mine == SelectSeq(lines, LAMBDA l : method \in l.methods /\ l.what \in {"valid-user", "user"})
  IN CASE mine = <<>> -> "DECLINED"
       [] mine # <<>> /\ (mine[1].what = "valid-user" \/ user \in Range(mine[1].names)) -> "OK"
       [] OTHER -> "HTTP_UNAUTHORIZED"

\* mod_authopenid_check_user_access.
CheckUserAccess(lines, method, user) ==
  LET mine == {l \in Range(lines) : method \in l.methods}
      required_user == \E l \in mine : l.what = "user"
  IN CASE \E l \in mine : l.what = "valid-user" \/ (l.what = "user" /\ user \in Range(l.names)) -> "OK"
       [] OTHER -> IF required_user THEN "HTTP_UNAUTHORIZED" ELSE "DECLINED"

================================================================================
