----------------------------- MODULE Configuration -----------------------------
(***************************************************************************)
(* The directives of mod_auth_openid.cpp (43-225, 735-743): Apache reads   *)
(* the sections of its configuration, creating a record for a section at   *)
(* the first directive of this module in it and calling the directive's    *)
(* handler on it.  The module has no merge function: for a request in      *)
(* nested sections the innermost record counts, whole.  None is NULL.      *)
(***************************************************************************)
EXTENDS RequestParams

CONSTANTS
  Text,        \* arguments: paths, names, URLs
  Alias,       \* attribute names, distinct even when case is ignored
  Pattern,     \* regular expressions
  Number       \* what atoi makes of the argument of AuthOpenIDCookieLifespan

VARIABLE section   \* the record of each section, None before its first directive

Sections == {"outer", "inner"}

\* create_modauthopenid_config.  A table maps nothing at first.
NewConfig ==
  [db_location |-> "/tmp/mod_auth_openid.db", trust_root |-> None,
   cookie_name |-> "open_id_session_id", login_page |-> None, use_cookie |-> TRUE,
   trusted |-> <<>>, distrusted |-> <<>>, cookie_lifespan |-> 0,
   secure_cookie |-> FALSE, server_name |-> None, auth_program |-> None,
   cookie_path |-> None, use_auth_program |-> FALSE, use_ax |-> FALSE,
   ax_attrs |-> <<>>, ax_attr_uris |-> <<>>, ax_attr_patterns |-> <<>>,
   use_ax_username |-> FALSE, ax_username_attr |-> None,
   use_single_idp |-> FALSE, single_idp_url |-> None]

--------------------------------------------------------------------------------
(* The handlers: the record c after a directive.                           *)

\* set_modauthopenid_db_location ... server_name: one argument, one field.
Stored(c, field, arg) == [c EXCEPT ![field] = arg]

StoredFields ==
  {"db_location", "cookie_path", "trust_root", "login_page", "cookie_name", "server_name"}
Flags == {"use_cookie", "secure_cookie"}
Lists == {"trusted", "distrusted"}

\* add_modauthopenid_trusted, add_modauthopenid_distrusted.
Pushed(c, list, arg) == [c EXCEPT ![list] = Append(@, arg)]

\* (wrong: the switch is set, the argument forgotten)
SetAuthProgramFlag(c, arg) == [c EXCEPT !.use_auth_program = TRUE]

SetAuthProgram(c, arg) == [c EXCEPT !.auth_program = arg, !.use_auth_program = TRUE]

\* An alias given twice stays in the list twice; the tables keep the later entry.
SetAxRequire(c, alias, uri, pattern) ==
  [c EXCEPT !.use_ax = TRUE, !.ax_attrs = Append(@, alias),
            !.ax_attr_uris = With(@, alias, uri),
            !.ax_attr_patterns = With(@, alias, pattern)]

SetAxUsername(c, alias) == [c EXCEPT !.use_ax_username = TRUE, !.ax_username_attr = alias]
SetSingleIdp(c, url) == [c EXCEPT !.use_single_idp = TRUE, !.single_idp_url = url]

--------------------------------------------------------------------------------

Record(s) == IF section[s] = None THEN NewConfig ELSE section[s]

Put(s, c) == section' = [section EXCEPT ![s] = c]

\* Apache calls the handler of a directive in section s.
Directive(s) ==
  LET c == Record(s) IN
  \/ \E field \in StoredFields, t \in Text : Put(s, Stored(c, field, t))
  \/ \E field \in Flags, flag \in BOOLEAN : Put(s, Stored(c, field, flag))
  \/ \E n \in Number : Put(s, Stored(c, "cookie_lifespan", n))
  \/ \E list \in Lists, p \in Pattern : Put(s, Pushed(c, list, p))
  \/ \E t \in Text : Put(s, SetAuthProgram(c, t)) \/ Put(s, SetSingleIdp(c, t))
  \/ \E a \in Alias : Put(s, SetAxUsername(c, a))
  \/ \E a \in Alias, t \in Text, p \in Pattern : Put(s, SetAxRequire(c, a, t, p))

\* ap_get_module_config for a request under the inner section.
Effective ==
  CASE section["inner"] # None -> section["inner"]
    [] section["inner"] = None /\ section["outer"] # None -> section["outer"]
    [] OTHER -> NewConfig

NoSections == [s \in Sections |-> None]

\* The handlers take what a switch stands for without asking whether it is
\* there (std::string(s_cfg->auth_program), single_idp_url, the URI and the
\* pattern of every attribute in ax_attrs): none of it may be NULL, in whatever
\* order the directives come.
NothingMissing ==
  \A s \in Sections :
    LET c == Record(s) IN
    /\ c.use_auth_program => c.auth_program # None
    /\ c.use_single_idp => c.single_idp_url # None
    /\ c.use_ax_username => c.ax_username_attr # None
    /\ c.use_ax <=> c.ax_attrs # <<>>
    /\ Range(c.ax_attrs) = DOMAIN c.ax_attr_uris
    /\ DOMAIN c.ax_attr_uris = DOMAIN c.ax_attr_patterns

================================================================================
