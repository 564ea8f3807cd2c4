----------------------------- MODULE LoginRoundTrip ----------------------------
(***************************************************************************)
(* One tab of a browser on its way from a protected page through the form  *)
(* or the login page and the provider back to the page, seen at its        *)
(* parameters: what each handler of mod_auth_openid.cpp reads from the     *)
(* request and puts into its answer.  MethodHandler models the same        *)
(* handlers with several browsers and processes, but without parameters.   *)
(*                                                                         *)
(* Definitions marked "(wrong: ...)" here and in the modules this one uses *)
(* are not used by the specification: they are slips that the properties   *)
(* catch.                                                                  *)
(***************************************************************************)
EXTENDS Configuration

CONSTANTS
  Asks,              \* queries a user asks the page with
  Forms,             \* bodies a user posts to the page
  Data,              \* values of a user's parameters, none and empty ones included
  Id,                \* an identifier
  Value,             \* values of attributes and extensions, not empty
  ByPost,            \* may the provider answer with a form POST?
  Long,              \* may a redirect be longer than 2000 characters?
  MaxDirectives,
  MaxLogins

ASSUME BoundAssumption == MaxDirectives \in Nat /\ MaxLogins \in Nat

\* What users ask with are strings; they name no parameter of the protocol itself.
Given == UNION {Range(q) : q \in Asks \cup Forms}
UserItems == {Item(i.name, v) : i \in Given, v \in Data}
ASSUME UserAssumption ==
  /\ \A q \in Asks \cup Forms : q \in Seq(Range(q))
  /\ \A i \in Given : i.name \notin {Mode, AssocHandle, Nonce, AxNs("ax")} /\ i.value \in Data

\* What is left of a value that is cut short could have been given as well.
ASSUME DataAssumption == {None, Empty} \subseteq Data /\ \A v \in Data : Beginning(v) \in Data

\* The values that the protocol itself gives its parameters.
ProtocolValues ==
  {"checkid_setup", "id_res", "cancel", "handle", "AX_NAMESPACE", "fetch_request"}

\* error_to_string; None stands for the form without a message.
Errors ==
  {"no_idp_found", "invalid_id", "idp_not_trusted", "invalid_nonce", "canceled",
   "unauthorized", "ax_bad_response", "unspecified"}

\* No "=" and the empty string are none of the other values; a URL is never empty.
ASSUME SentinelAssumption ==
  /\ Empty # None
  /\ \A v \in {None, Empty} :
       /\ v \notin Value \cup Text \cup Alias /\ v \notin Nat /\ v \notin ProtocolValues \cup Errors
       /\ v \notin Seq(Alias)
       /\ v \notin Seq(UserItems \cup {Item(Nonce, n) : n \in 1 .. MaxLogins})

VARIABLES
  directives,   \* directives read; MaxDirectives + 1 once requests are served
  conf,         \* the fields of the effective record that the handlers read here
  msg,          \* the request on its way, or what the browser shows
  cookie,       \* does the browser have a cookie that names a session?
  attempt,      \* the last nonce given out
  alive,        \* the nonces in authentication_sessions
  wanted,       \* history: what the user first asked the page with
  responded     \* history: extension parameters of the last response

tripVars == <<cookie, attempt, alive, wanted, responded>>
vars == <<section, directives, conf, msg, tripVars>>

\* "at" is the site, the provider or the login page that a request goes to, or
\* what the browser shows: nothing, the form (its hidden fields are in args) or
\* the page (its URL is in args).
Get(at, from, args) ==
  [at |-> at, from |-> from, method |-> "GET", type |-> None, args |-> args, body |-> <<>>]
Post(at, from, args, body) ==
  [Get(at, from, args) EXCEPT !.method = "POST", !.type = "form", !.body = body]

HandlerFields ==
  {"login_page", "use_cookie", "use_auth_program", "use_ax", "ax_attrs", "ax_attr_uris",
   "ax_attr_patterns", "use_ax_username", "ax_username_attr", "use_single_idp"}

Init ==
  /\ section = NoSections
  /\ directives = 0
  /\ conf = Restrict(NewConfig, HandlerFields)
  /\ msg = Get("nothing", "user", <<>>)
  /\ cookie = FALSE
  /\ attempt = 0
  /\ alive = {}
  /\ wanted = [args |-> <<>>, body |-> <<>>]
  /\ responded = NoParams

--------------------------------------------------------------------------------
(* Apache reads its configuration.                                         *)

ReadDirective ==
  /\ directives < MaxDirectives
  /\ directives' = directives + 1
  /\ \E s \in Sections : Directive(s)
  /\ UNCHANGED <<conf, msg, tripVars>>

Serve ==
  /\ directives <= MaxDirectives
  /\ directives' = MaxDirectives + 1
  /\ conf' = Restrict(Effective, HandlerFields)
  /\ section' = NoSections
  /\ UNCHANGED <<msg, tripVars>>

--------------------------------------------------------------------------------
(* The user, the login page and the provider.                              *)

AskForPage ==
  /\ directives > MaxDirectives
  /\ msg.at = "nothing"
  /\ \E q \in Asks :
       \/ /\ msg' = Get("site", "user", q)
          /\ wanted' = [args |-> q, body |-> <<>>]
       \/ \E form \in Forms, type \in {"form", "other", None} :
            /\ msg' = [Post("site", "user", q, form) EXCEPT !.type = type]
            /\ wanted' = [args |-> q, body |-> form]
  /\ UNCHANGED <<section, directives, conf, cookie, attempt, alive, responded>>

\* get_post_data compares the Content-Type without looking whether there is one:
\* the process dies and the browser has nothing.
NoContentType ==
  /\ msg.at = "site" /\ msg.method = "POST" /\ msg.type = None
  /\ ~(cookie /\ conf.use_cookie)
  /\ msg' = Get("nothing", "user", <<>>)
  /\ UNCHANGED <<section, directives, conf, tripVars>>

\* The page is asked for again by its URL; the session may have expired.
Reload ==
  /\ msg.at = "page"
  /\ msg' = Get("site", "user", msg.args)
  /\ cookie' \in {cookie, FALSE}
  /\ UNCHANGED <<section, directives, conf, attempt, alive, wanted, responded>>

\* The form is sent: its hidden fields and the identifier replace the query.
FillIn ==
  /\ msg.at = "form"
  /\ msg' = Get("site", "user", Append(msg.args, Item(Identifier, Id)))
  /\ UNCHANGED <<section, directives, conf, tripVars>>

\* The parameters of a request to somebody else, which may be a form POST.
Received == ParseQueryString(IF msg.method = "GET" THEN msg.args ELSE msg.body)

\* A login page sends the browser back to the referrer with an identifier, by
\* GET or POST, and may ask for extensions.
LoginPageReturns ==
  /\ msg.at = "login_page"
  /\ \E ext \in {<<>>, <<Item(<<"openid", "sreg", "required">>, Id)>>} :
       LET fields == <<Item(Identifier, Id)>> \o ext
           url == Received[Referrer]
       IN msg' \in {Get("site", "login_page", url \o fields), Post("site", "login_page", url, fields)}
  /\ UNCHANGED <<section, directives, conf, tripVars>>

\* What a provider may answer: extensions, and attributes under an alias of its
\* own, a value for the first attribute or none.
Extensions(asked) ==
  {NoParams} \cup {With(NoParams, <<"openid", "sreg", "email">>, v) : v \in Value} \cup
  (IF AxNs("ax") \notin DOMAIN asked THEN {}
   ELSE {With([n \in {<<"openid", "ext1", "value", a>> : a \in S} |-> v],
              AxNs("ext1"), "AX_NAMESPACE") :
         S \in SUBSET Range(asked[<<"openid", "ax", "required">>]), v \in Value \cup {Empty}})

\* The answer goes to return_to: in its query, or as a form.
ProviderAnswers(answer) ==
  LET url == Received[ReturnTo]
  IN msg' \in {Get("site", "provider", url \o Query(answer))}
       \cup (IF ByPost THEN {Post("site", "provider", url, Query(answer))} ELSE {})

ProviderResponds ==
  /\ msg.at = "provider"
  /\ \E ext \in Extensions(Received) :
       /\ ProviderAnswers(With(With(ext, Mode, "id_res"), AssocHandle, "handle"))
       /\ responded' = ext
  /\ UNCHANGED <<section, directives, conf, cookie, attempt, alive, wanted>>

ProviderCancels ==
  /\ msg.at = "provider"
  /\ ProviderAnswers(With(NoParams, Mode, "cancel"))
  /\ UNCHANGED <<section, directives, conf, tripVars>>

--------------------------------------------------------------------------------
(* The handler's answers.                                                  *)

\* http_redirect: a long one becomes a form (send_form_post).
HttpRedirect(at, query) ==
  {Get(at, "site", query)} \cup
  (IF Long THEN {Post(at, "site", <<>>, Query(ParseQueryString(query)))} ELSE {})

\* show_html_input keeps the other parameters as hidden fields.
ShowHtmlInput ==
  msg' = Get("form", "site", Query(RemoveOpenIdVars(ParseQueryString(msg.args))))

\* (wrong: the login page is told an empty error where there is none)
ShowInputError(error) ==
  IF conf.login_page = None THEN ShowHtmlInput
  ELSE msg' \in HttpRedirect("login_page",
         Query(With(With(NoParams, Referrer, FullUri(msg, TRUE)),
                    ErrorName, IF error = None THEN Empty ELSE error)))

\* show_input.
ShowInput(error) ==
  IF conf.login_page = None THEN ShowHtmlInput
  ELSE LET own == RemoveOpenIdVars(ParseQueryString(msg.args))
           about == With(own, Referrer, FullUri(msg, TRUE))
       IN msg' \in HttpRedirect("login_page",
            Query(IF error = None THEN about ELSE With(about, ErrorName, error)))

HasValidSession ==
  /\ msg.at = "site"
  /\ cookie /\ conf.use_cookie
  /\ msg' = [msg EXCEPT !.at = "page"]
  /\ UNCHANGED <<section, directives, conf, tripVars>>

\* set_session_cookie: r->args after the login.
PageQuery(p) == Query(MergeParams(GetExtensionParams(p), RemoveOpenIdVars(p)))

\* validate_authentication_session.  id_res may throw; the program may refuse.
Granted(p) ==
  /\ p[Nonce] \in alive
  /\ AxError(conf, p) = None
  /\ alive' = alive \ {p[Nonce]}
  /\ cookie' = conf.use_cookie
  /\ msg' = IF conf.use_cookie THEN Get("site", "site", PageQuery(p))
                               ELSE [msg EXCEPT !.at = "page"]

Refused(p) ==
  /\ \/ ShowInput("unspecified")
     \/ p[Nonce] \notin alive /\ ShowInput("invalid_nonce")
     \/ p[Nonce] \in alive /\ AxError(conf, p) # None /\ ShowInput(AxError(conf, p))
     \/ /\ p[Nonce] \in alive /\ AxError(conf, p) = None
        /\ conf.use_auth_program
        /\ ShowInput("unauthorized")
  /\ UNCHANGED <<alive, cookie>>

ValidateAuthentication(p) ==
  /\ IF Nonce \in DOMAIN p THEN Granted(p) \/ Refused(p)
       ELSE ShowInput("invalid_nonce") /\ UNCHANGED <<alive, cookie>>
  /\ UNCHANGED attempt

\* (wrong: the openid parameters are removed after the nonce is added)
ReturnToCleaned(p) == FullUri(msg, TRUE) \o Query(RemoveOpenIdVars(With(p, Nonce, attempt + 1)))

\* The address the provider is to answer to.  The user's parameters are in it
\* twice when they came in the query.
ReturnToUrl(p) == FullUri(msg, TRUE) \o Query(With(RemoveOpenIdVars(p), Nonce, attempt + 1))

\* start_authentication_session: discovery fails, or an attempt is registered and
\* its provider is trusted or not.
StartAuthentication(p) ==
  /\ \/ /\ attempt < MaxLogins
        /\ attempt' = attempt + 1
        /\ alive' = alive \cup {attempt'}
        /\ \/ ShowInput("idp_not_trusted")
           \/ msg' \in HttpRedirect("provider",
                Query(With(With(NoParams, Mode, "checkid_setup"), ReturnTo, ReturnToUrl(p)))
                \o Query(AxRequest(conf, GetExtensionParams(p))))
     \/ /\ \E e \in {"invalid_id", "no_idp_found"} : ShowInput(e)
        /\ UNCHANGED <<attempt, alive>>
  /\ UNCHANGED cookie

\* mod_authopenid_method_handler after has_valid_session.
HandleRequest ==
  /\ msg.at = "site"
  /\ ~(cookie /\ conf.use_cookie)
  /\ msg.method = "POST" => msg.type # None
  /\ \E p \in GetRequestParams(msg) :
       LET cancelled == Mode \in DOMAIN p /\ p[Mode] = "cancel"
           starts == Identifier \in DOMAIN p \/ conf.use_single_idp
       IN CASE AssocHandle \in DOMAIN p -> ValidateAuthentication(p)
            [] AssocHandle \notin DOMAIN p /\ cancelled ->
                 ShowInput("canceled") /\ UNCHANGED <<cookie, attempt, alive>>
            [] AssocHandle \notin DOMAIN p /\ ~cancelled /\ starts -> StartAuthentication(p)
            [] OTHER -> ShowInput(None) /\ UNCHANGED <<cookie, attempt, alive>>
  /\ UNCHANGED <<section, directives, conf, wanted, responded>>

Next ==
  \/ ReadDirective \/ Serve
  \/ AskForPage \/ Reload \/ FillIn
  \/ LoginPageReturns \/ ProviderResponds \/ ProviderCancels
  \/ HasValidSession \/ HandleRequest \/ NoContentType

Spec == Init /\ [][Next]_vars

--------------------------------------------------------------------------------

\* Every variable is of its type; in particular the login page is told of an
\* error by one of the names of error_to_string (show_input).
TypeOK ==
  /\ directives \in 0 .. MaxDirectives + 1
  /\ msg.at \in {"nothing", "site", "login_page", "provider", "form", "page"}
  /\ msg.from \in {"user", "site", "login_page", "provider"}
  /\ msg.method \in {"GET", "POST"} /\ msg.type \in {"form", "other", None}
  /\ cookie \in BOOLEAN
  /\ attempt \in 0 .. MaxLogins /\ alive \subseteq 1 .. attempt
  /\ msg.at = "login_page" /\ ErrorName \in DOMAIN Received => Received[ErrorName] \in Errors

\* The protected URL that a message is about.
Address ==
  CASE msg.at = "provider" -> Received[ReturnTo]
    [] msg.at = "login_page" -> Received[Referrer]
    [] OTHER -> msg.args

\* The values that a field the user has posted may be read with: its own, and if
\* reading the body fails also what is left of it.
ReadAs(i) == {i.value} \cup (IF BodyFaults THEN CutValues(i) ELSE {})

\* start_authentication_session: "We do, however, want to keep all other GET
\* params": wherever the user is on the way, in return_to, referrer, hidden
\* fields or the redirect after the login, each of the user's own parameters has
\* the value asked for, and there are no others - but for a form field the user
\* has posted under that name, which is cut short where reading the body failed.
\* A parameter without a "=" is lost, and an empty one is the same as none.
OwnParamsKept ==
  msg.at # "nothing" =>
    \A n \in {i.name : i \in Range(Address) \cup Range(wanted.args)} :
      ~IsOpenIdVar(n) =>
        \/ Said(Address, n) = Said(wanted.args, n)
        \/ \E i \in Range(wanted.body) : i.name = n /\ Said(Address, n) \in ReadAs(i)

\* Parameters of the protocol itself, not of one of its extensions.
ProtocolItems(q) == {k \in DOMAIN q : IsOpenIdVar(q[k].name) /\ Len(q[k].name) <= 2}

\* However many logins were tried and given up, return_to names the present
\* attempt once and carries nothing else of the protocol; referrer and hidden
\* fields carry nothing of it (ChangeLog 0.6, issue 92; 0.4, issue 28); and
\* nothing piles up in return_to, be it of an extension or the user's own.  Nothing
\* is said of whether parameters of extensions stay: http_helpers.h makes an
\* exception for them ("except sreg and ax params") that the code does not make.
UrlsClean ==
  /\ msg.at = "provider" =>
       /\ \E k \in DOMAIN Address :
            ProtocolItems(Address) = {k} /\ Address[k] = Item(Nonce, attempt)
       /\ \A i \in Range(Address) :
            Cardinality({k \in DOMAIN Address : Address[k].name = i.name}) <= 2
  /\ msg.at \in {"login_page", "form"} => ProtocolItems(Address) = {}

\* With cookies, only a provider's own answer looks like one: neither the
\* redirect after a login nor a reload of the page it leads to nor a login page
\* brings mode, handle or nonce back to the handler, also when the session has
\* expired.
OnlyProviderAnswers ==
  conf.use_cookie /\ msg.at = "site" /\ msg.from # "provider" =>
    \A i \in Range(msg.args \o msg.body) : i.name \notin {Mode, AssocHandle, Nonce}

IsResponse == \E i \in Range(msg.args \o msg.body) : i.name = AssocHandle

\* A response that comes by GET brings the nonce of the attempt it answers, so
\* validate_authentication_session does not show invalid_nonce for want of it.
GetResponseHasNonce ==
  msg.at = "site" /\ msg.from = "provider" /\ msg.method = "GET" /\ IsResponse =>
    LET p == ParseQueryString(msg.args) IN Nonce \in DOMAIN p /\ p[Nonce] = attempt

\* ChangeLog 0.5: "Added support for HTML form submission (POSTs) per the 2.0
\* spec": so a response brings its nonce however it comes.
ResponseHasNonce ==
  msg.at = "site" /\ msg.from = "provider" /\ IsResponse =>
    \A p \in GetRequestParams(msg) : Nonce \in DOMAIN p /\ p[Nonce] = attempt

\* The redirect after a login, and the page it leads to.
AfterLogin ==
  \/ msg.from = "site" /\ msg.at \in {"site", "page"}
  \/ msg.from = "provider" /\ msg.at = "page"

\* The page gets the extension parameters of the response that let the user in,
\* all of them and none of an earlier login, whose extension parameters stay in
\* the page's URL (set_session_cookie).
ExtensionsOfThisLogin ==
  conf.use_cookie /\ AfterLogin =>
    LET p == ParseQueryString(msg.args)
    IN RestrictDomain(p, LAMBDA n : IsOpenIdVar(n)) = responded

\* Behind a login there is a response in which every attribute of an
\* AuthOpenIDAXRequire has a value that its pattern matches, whatever namespace
\* alias the provider chose.
AttributesHeld ==
  AfterLogin => \A a \in Range(conf.ax_attrs) :
    \E n \in DOMAIN responded :
      /\ Len(n) = 4 /\ n[3] = "value" /\ n[4] = a
      /\ responded[n] \in conf.ax_attr_patterns[a]

================================================================================
