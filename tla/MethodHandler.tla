----------------------------- MODULE MethodHandler -----------------------------
(***************************************************************************)
(* mod_authopenid_method_handler of mod_auth_openid.cpp: the requests that *)
(* the Apache processes handle, from has_valid_session to the response,    *)
(* together with the browsers that send them.  The two tables' managers    *)
(* are used through what they promise: SessionLeases (SessionManager       *)
(* implements it) and LoginAttempts (MoidConsumer implements it).          *)
(*                                                                         *)
(* A browser belongs to one user, whom a provider knows by one identity    *)
(* and one username.  Browsers may keep old redirects and cookies, use     *)
(* several tabs and send a response again (iff Reloads); they learn a      *)
(* nonce or a session id only from a response that reaches them.           *)
(*                                                                         *)
(* Definitions marked "(wrong: ...)" are not used by the specification:    *)
(* they are slips a maintainer could make, which the properties catch.     *)
(***************************************************************************)
EXTENDS Integers, Authorization

CONSTANTS
  Worker,      \* Apache processes
  Browser,
  Place,       \* protected [hostname, path]; path: base_dir(r->uri) in pieces
  Config,      \* per-directory configuration of each place
  SessionId,   \* values of make_rstring(32)
  Nonce,       \* values of make_rstring(10)
  Server,      \* provider endpoints
  Approved,    \* browsers whose identity the AuthOpenIDUserProgram accepts
  Hanging,     \* browsers for whose identity it does not end
  Lifespan,    \* AuthOpenIDCookieLifespan, 0 if not given
  Day,         \* 86400
  Hour,        \* 3600
  StartTime,
  MaxTime,     \* the clock stops there
  Faults,      \* may discovery, the database or a process fail?
  Reloads      \* may browsers resend, open tabs and start afresh at any time?

\* The identity URL and the AX username of the user of browser b.
Identity(b) == <<"identity", b>>
Username(b) == <<"username", b>>
Names == {Identity(b) : b \in Browser} \cup {Username(b) : b \in Browser} \cup {Empty}

CookiePaths == {Config[p].cookie_path : p \in Place} \ {None}
Paths == {p.path : p \in Place} \cup CookiePaths
Hostnames == {p.hostname : p \in Place}

\* Values of the directives at one place.  trusted is None when no
\* AuthOpenIDTrusted is given, else the endpoints that match one of them.
Directives ==
  [use_cookie : BOOLEAN, cookie_path : CookiePaths \cup {None},
   use_single_idp : BOOLEAN,
   trusted : SUBSET Server \cup {None}, distrusted : SUBSET Server,
   use_ax : BOOLEAN, use_ax_username : BOOLEAN,
   username_required : BOOLEAN,   \* is ax_username_attr one of ax_attrs?
   use_auth_program : BOOLEAN,
   requires : Seq([what : STRING, names : Seq(Names), methods : SUBSET {"GET", "POST"}])]

ASSUME ConfigAssumption == Config \in [Place -> Directives]
ASSUME ClockAssumption ==
  /\ StartTime \in Nat /\ MaxTime \in Nat /\ StartTime <= MaxTime
  /\ Lifespan \in Nat /\ Day \in Nat /\ Hour \in Nat
ASSUME SwitchAssumption ==
  /\ Faults \in BOOLEAN /\ Reloads \in BOOLEAN
  /\ Approved \subseteq Browser /\ Hanging \subseteq Browser

VARIABLES
  now,                               \* time(0)
  leases, call,                      \* SessionLeases
  attempts, used, redeemed, visit,   \* LoginAttempts
  req,         \* per worker: the request it handles
  asked,       \* redirects to a provider that reached a browser
  jar,         \* per browser: the session cookies it holds
  drawn,       \* session ids already drawn
  logins       \* history: the granted logins

dbVars == <<leases, call, attempts, used, redeemed, visit>>
browserVars == <<asked, jar>>
vars == <<now, leases, call, attempts, used, redeemed, visit, req, asked, jar,
          drawn, logins>>

\* Seconds from storing a session to its expiry.
Term == IF Lifespan = 0 THEN Day ELSE Lifespan

Payload == [hostname : Hostnames, path : Paths, identity : Names, username : Names]

Cookie ==
  [session_id : SessionId, hostname : Hostnames, path : Paths, expires : Int \cup {None}]

Request ==
  [phase : {"idle", "session", "dispatch", "starting", "validating", "accepted",
            "cookie", "storing", "answered"},
   browser : Browser \cup {None}, place : Place \cup {None},
   kind : {"plain", "identifier", "cancel", "response", None},
   nonce : Nonce \cup {None}, uri : Server \cup {None},
   username : Names, cookie : Cookie \cup {None},
   reply : {"ok", "denied", "redirect", "cookie", "form", None}, user : Names]

\* The absence of a value is none of the values, and no user's name is empty.
ASSUME SentinelAssumption ==
  /\ None \notin Browser /\ None \notin Place /\ None \notin Server
  /\ None \notin Nonce /\ None \notin SessionId /\ None \notin Names
  /\ None \notin Cookie /\ None \notin Payload /\ None \notin Int
  /\ None \notin [session_id : SessionId, payload : Payload, expires_on : Int]
  /\ None \notin {"plain", "identifier", "cancel", "response", "ok", "denied", "redirect",
                  "cookie", "form", "get", "store", "checkid", "id_res"}
  /\ \A b \in Browser : Empty # Identity(b) /\ Empty # Username(b)

SL == INSTANCE SessionLeases
LA == INSTANCE LoginAttempts

slVars == <<leases, call>>
laVars == <<attempts, used, redeemed, visit>>

--------------------------------------------------------------------------------

NoRequest ==
  [phase |-> "idle", browser |-> None, place |-> None, kind |-> None,
   nonce |-> None, uri |-> None, username |-> Empty, cookie |-> None,
   reply |-> None, user |-> Empty]

Init ==
  /\ SL!Init
  /\ LA!Init
  /\ req = [w \in Worker |-> NoRequest]
  /\ asked = {}
  /\ jar = [b \in Browser |-> {}]
  /\ drawn = {}
  /\ logins = {}

Conf(w) == Config[req[w].place]

\* The request is answered: the input form with some message (show_input), a
\* redirect to the provider or, with a cookie, to the page itself; or the handler
\* says OK and Apache looks at the Require lines.
Answered(r, reply) ==
  [NoRequest EXCEPT !.phase = "answered", !.browser = r.browser, !.place = r.place,
                    !.reply = reply]
WithCookie(r, c) == [Answered(r, "cookie") EXCEPT !.cookie = c]
ShowInput(w) == req' = [req EXCEPT ![w] = Answered(@, "form")]
Ok(w, user) ==
  LET reply == IF Authorized(Conf(w).requires, "GET", user) THEN "ok" ELSE "denied"
  IN req' = [req EXCEPT ![w] = [Answered(@, reply) EXCEPT !.user = user]]

\* REMOTE_USER for a user with the given names at a place configured by c.
RemoteUser(c, identity, username) == IF c.use_ax_username THEN username ELSE identity

--------------------------------------------------------------------------------
(* Requests.                                                               *)

Unexpired(c) == c.expires = None \/ c.expires >= now

\* The ids that browser b may send.
Sends(b) == {c.session_id : c \in {d \in jar[b] : Unexpired(d)}}

\* What a browser without Reloads does next: one request at a time, following
\* its redirect to the provider and back, and sending its cookie.
Follows(b, kind, cookie) ==
  /\ \A v \in Worker : req[v].browser # b
  /\ kind = "response" <=> \E a \in asked : a.browser = b
  /\ kind = "plain" <=> cookie # None
  /\ cookie = None => Sends(b) = {}
  /\ kind \in {"plain", "identifier", "response"}

\* A request arrives and has_valid_session looks for its cookie.
Receive(w, b, p, kind, nonce, cookie) ==
  /\ req[w].phase = "idle"
  /\ req' = [req EXCEPT ![w] =
       [NoRequest EXCEPT !.browser = b, !.place = p, !.kind = kind, !.nonce = nonce,
          !.phase = IF cookie # None /\ Config[p].use_cookie
                      THEN "session" ELSE "dispatch"]]
  /\ IF cookie # None /\ Config[p].use_cookie
       THEN SL!Ask(w, "get", cookie, None)
       ELSE UNCHANGED <<now, slVars>>
  /\ UNCHANGED <<laVars, jar, drawn, logins>>

\* A visit without OpenID parameters, with an identifier from the form, or the
\* provider's "cancel".
Browse(w, b) ==
  \E p \in Place, kind \in {"plain", "identifier", "cancel"},
     cookie \in Sends(b) \cup {None} :
       /\ Reloads \/ Follows(b, kind, cookie)
       /\ Receive(w, b, p, kind, None, cookie)
       /\ UNCHANGED asked

\* The provider's answer comes back through the browser to where the login
\* began; a POST loses the nonce.
Return(w, b) ==
  \E a \in asked, cookie \in Sends(b) \cup {None} :
    /\ a.browser = b
    /\ Reloads \/ Follows(b, "response", cookie)
    /\ \E nonce \in {a.nonce} \cup (IF Faults THEN {None} ELSE {}) :
         Receive(w, b, a.place, "response", nonce, cookie)
    /\ asked' = IF Reloads THEN asked ELSE asked \ {a}

--------------------------------------------------------------------------------
(* has_valid_session.                                                      *)

\* (wrong: the paths are compared the other way round)
CoveredBy(s, p) ==
  /\ IsPrefix(p.path, s.path)
  /\ s.hostname = p.hostname

\* (wrong: any session will do)
CoversAll(s, p) == TRUE

\* Is session s, stored with a path and a hostname, for place p?
Covers(s, p) ==
  /\ IsPrefix(s.path, p.path)
  /\ s.hostname = p.hostname

SessionRead(w) ==
  /\ req[w].phase = "session"
  /\ SL!Answer(w)
  /\ Faults \/ call'[w].answer # None
            \/ \A l \in leases : \/ l.session_id # call[w].session_id
                                \/ l.expires_on < call[w].began
  /\ UNCHANGED <<laVars, req, browserVars, drawn, logins>>

HasValidSession(w) ==
  /\ req[w].phase = "session"
  /\ call[w].phase = "answered"
  /\ LET s == call[w].answer IN
       IF s # None /\ s.payload.identity # Empty /\ Covers(s.payload, req[w].place)
         THEN Ok(w, RemoteUser(Conf(w), s.payload.identity, s.payload.username))
         ELSE req' = [req EXCEPT ![w].phase = "dispatch"]
  /\ SL!Leave(w)
  /\ UNCHANGED <<laVars, browserVars, drawn, logins>>

--------------------------------------------------------------------------------
(* start_authentication_session.                                           *)

\* The branches of the handler that end at once.
Decline(w) ==
  /\ req[w].phase = "dispatch"
  /\ \/ req[w].kind = "response" /\ req[w].nonce = None
     \/ req[w].kind = "cancel"
     \/ req[w].kind = "plain" /\ ~Conf(w).use_single_idp
  /\ ShowInput(w)
  /\ UNCHANGED <<now, dbVars, browserVars, drawn, logins>>

StartAuthentication(w, n) ==
  /\ req[w].phase = "dispatch"
  /\ \/ req[w].kind = "identifier"
     \/ req[w].kind = "plain" /\ Conf(w).use_single_idp
  /\ req' = [req EXCEPT ![w].phase = "starting", ![w].nonce = n]
  /\ LA!StartLogin(w, n)
  /\ UNCHANGED <<slVars, browserVars, drawn, logins>>

\* (wrong: a trusted endpoint is never looked up among the distrusted)
IdpTrusted(c, uri) == c.trusted = None \/ uri \in c.trusted

\* is_trusted_provider and not is_distrusted_provider.
IdpAllowed(c, uri) ==
  /\ c.trusted = None \/ uri \in c.trusted
  /\ uri \notin c.distrusted

\* The consumer is closed and the attempt stays registered, whether or not the
\* redirect is shown.
Started(w) ==
  /\ req[w].phase = "starting"
  /\ visit[w].phase = "answered"
  /\ IF visit[w].result = "redirect" /\ IdpAllowed(Conf(w), visit[w].uri)
       THEN req' = [req EXCEPT ![w] =
                      [Answered(@, "redirect") EXCEPT !.nonce = req[w].nonce,
                                                      !.uri = visit[w].uri]]
       ELSE ShowInput(w)
  /\ LA!Leave(w)
  /\ UNCHANGED <<slVars, browserVars, drawn, logins>>

--------------------------------------------------------------------------------
(* What MoidConsumer does for the handler.                                 *)

Alive(n, t) == \E a \in attempts : a.nonce = n /\ a.expires_on >= t

\* Without Faults the login is registered, and a response to a live one is valid.
ConsumerStep(w) ==
  /\ \/ \E uri \in Server : LA!Register(w, uri) /\ (Faults \/ attempts' # attempts)
     \/ LA!Redirect(w)
     \/ LA!Admit(w)
     \/ /\ LA!Fail(w)
        /\ \/ Faults
           \/ visit[w].task = "id_res" /\ ~Alive(visit[w].nonce, visit[w].began)
        /\ visit'[w].result \in {"threw"} \cup
              (IF visit[w].task = "id_res" THEN {"unknown"} ELSE {})
  /\ UNCHANGED <<slVars, req, browserVars, drawn, logins>>

--------------------------------------------------------------------------------
(* validate_authentication_session.                                        *)

ValidateAuthentication(w) ==
  /\ req[w].phase = "dispatch"
  /\ req[w].kind = "response"
  /\ req[w].nonce # None
  /\ req' = [req EXCEPT ![w].phase = "validating"]
  /\ LA!ReceiveResponse(w, req[w].nonce)
  /\ UNCHANGED <<slVars, browserVars, drawn, logins>>

\* id_res threw, session_exists found no attempt, or Unauthorized.
NotValidated(w) ==
  /\ req[w].phase = "validating"
  /\ visit[w].phase = "answered"
  /\ visit[w].result \in {"threw", "unknown", "refused"}
  /\ ShowInput(w)
  /\ LA!Leave(w)
  /\ UNCHANGED <<slVars, browserVars, drawn, logins>>

\* Attribute exchange: the attributes of the response all match their patterns
\* ("matched", or "empty" when the username attribute is the empty string), one
\* does not, or one or their namespace is missing.
AxOutcome == {"matched", "empty", "mismatch", "missing"}

\* (wrong: the username attribute is not looked at)
AxUnnamed(c, ax) == c.use_ax => ax \in {"matched", "empty"}

AxAccepted(c, ax) ==
  c.use_ax => /\ ax \in {"matched", "empty"}
              /\ c.use_ax_username => c.username_required /\ ax = "matched"

\* The local ax_username after the attributes have been looked at.
AxUsername(c, b, ax) ==
  IF c.use_ax /\ c.use_ax_username /\ c.username_required /\ ax = "matched"
    THEN Username(b) ELSE Empty

\* exec_auth waits for the program to end, as long as it takes.  A program that
\* cannot be executed refuses.
ExecAuth(b) ==
  (IF b \in Hanging THEN {} ELSE {IF b \in Approved THEN "id_accepted" ELSE "id_refused"})
  \cup (IF Faults THEN {"id_refused", "fork_failed", "child_no_return"} ELSE {})

\* (wrong: the handler goes on after it has shown the error)
UnauthorizedGoesOn(w) ==
  /\ req[w].phase = "validating"
  /\ \/ \E ax \in AxOutcome : ~AxAccepted(Conf(w), ax)
     \/ Conf(w).use_auth_program /\ ExecAuth(req[w].browser) \ {"id_accepted"} # {}
  /\ req' = [req EXCEPT ![w].phase = "accepted"]
  /\ LA!Grant(w)
  /\ UNCHANGED <<slVars, browserVars, drawn, logins>>

\* The attributes or the program turn the user away.  Another try may follow:
\* the attempt is not touched.
Unauthorized(w) ==
  /\ req[w].phase = "validating"
  /\ \/ \E ax \in AxOutcome : ~AxAccepted(Conf(w), ax)
     \/ Conf(w).use_auth_program /\ ExecAuth(req[w].browser) \ {"id_accepted"} # {}
  /\ LA!Refuse(w)
  /\ UNCHANGED <<slVars, req, browserVars, drawn, logins>>

\* The user is accepted: kill_session.
Accept(w) ==
  /\ req[w].phase = "validating"
  /\ Conf(w).use_auth_program => "id_accepted" \in ExecAuth(req[w].browser)
  /\ \E ax \in AxOutcome :
       /\ AxAccepted(Conf(w), ax)
       /\ req' = [req EXCEPT ![w].phase = "accepted",
                    ![w].username = AxUsername(Conf(w), req[w].browser, ax)]
  /\ LA!Grant(w)
  /\ Faults \/ req[w].nonce \in redeemed'
  /\ logins' = logins \cup {[browser |-> req[w].browser, place |-> req[w].place]}
  /\ UNCHANGED <<slVars, browserVars, drawn>>

--------------------------------------------------------------------------------
(* set_session_cookie.                                                     *)

\* The "expires" of make_cookie_value: none when no lifespan is given.
CookieExpiry == IF Lifespan = 0 THEN None ELSE now + Lifespan
CookiePath(p) == IF Config[p].cookie_path # None THEN Config[p].cookie_path ELSE p.path

\* No cookie: the page itself is the answer.
ShowPage(w) ==
  /\ req[w].phase = "accepted"
  /\ ~Conf(w).use_cookie
  /\ Ok(w, RemoteUser(Conf(w), Identity(req[w].browser), req[w].username))
  /\ LA!Leave(w)
  /\ UNCHANGED <<slVars, browserVars, drawn, logins>>

\* make_rstring, make_cookie_value.
MakeCookie(w, id) ==
  /\ req[w].phase = "accepted"
  /\ Conf(w).use_cookie
  /\ id \notin drawn
  /\ drawn' = drawn \cup {id}
  /\ req' = [req EXCEPT ![w].phase = "cookie", ![w].cookie =
               [session_id |-> id, hostname |-> req[w].place.hostname,
                path |-> CookiePath(req[w].place),
                expires |-> CookieExpiry]]
  /\ LA!Leave(w)
  /\ UNCHANGED <<slVars, browserVars, logins>>

\* (wrong: hostname and path change places)
SessionSwapped(r) ==
  [hostname |-> CookiePath(r.place), path |-> r.place.hostname,
   identity |-> Identity(r.browser), username |-> r.username]

\* What store_session is given besides the id.
Session(r) ==
  [hostname |-> r.place.hostname, path |-> CookiePath(r.place),
   identity |-> Identity(r.browser), username |-> r.username]

\* (wrong: the response is sent before the session is stored)
StoreSessionLater(w) ==
  /\ req[w].phase = "cookie"
  /\ req' = [req EXCEPT ![w] = WithCookie(req[w], req[w].cookie)]
  /\ SL!Ask(w, "store", req[w].cookie.session_id, Session(req[w]))
  /\ UNCHANGED <<laVars, browserVars, drawn, logins>>

StoreSession(w) ==
  /\ req[w].phase = "cookie"
  /\ req' = [req EXCEPT ![w].phase = "storing"]
  /\ SL!Ask(w, "store", req[w].cookie.session_id, Session(req[w]))
  /\ UNCHANGED <<laVars, browserVars, drawn, logins>>

\* Without Faults the session is stored.
SessionStored(w) ==
  /\ SL!Grant(w)
  /\ Faults \/ leases' # leases
  /\ UNCHANGED <<laVars, req, browserVars, drawn, logins>>

\* (wrong: the expiry of the cookie is worked out after the session is stored)
RedirectStoredFirst(w) ==
  /\ req[w].phase = "storing"
  /\ call[w].phase = "answered"
  /\ req' = [req EXCEPT ![w] =
       WithCookie(req[w], [req[w].cookie EXCEPT !.expires = CookieExpiry])]
  /\ SL!Leave(w)
  /\ UNCHANGED <<laVars, browserVars, drawn, logins>>

\* The browser is sent to the page it asked for, with its cookie; nobody looked
\* whether the session was stored.
RedirectWithCookie(w) ==
  /\ req[w].phase = "storing"
  /\ call[w].phase = "answered"
  /\ req' = [req EXCEPT ![w] = WithCookie(req[w], req[w].cookie)]
  /\ SL!Leave(w)
  /\ UNCHANGED <<laVars, browserVars, drawn, logins>>

--------------------------------------------------------------------------------
(* The response, and what goes wrong around it.                            *)

\* The response reaches the browser: it follows a redirect to the provider and
\* keeps a cookie in place of the one with the same host and path.
Respond(w) ==
  /\ req[w].phase = "answered"
  /\ LET r == req[w] IN
       /\ asked' = IF r.reply = "redirect"
                     THEN asked \cup {[browser |-> r.browser, nonce |-> r.nonce,
                                       place |-> r.place, uri |-> r.uri]}
                     ELSE asked
       /\ jar' = IF r.reply = "cookie"
                   THEN [jar EXCEPT ![r.browser] =
                          {c \in @ : \/ c.hostname # r.cookie.hostname
                                     \/ c.path # r.cookie.path} \cup {r.cookie}]
                   ELSE jar
  /\ req' = [req EXCEPT ![w] = NoRequest]
  /\ UNCHANGED <<now, dbVars, drawn, logins>>

\* The process dies, or the browser goes away before the response.
Crash(w) ==
  /\ Faults
  /\ req[w].phase # "idle"
  /\ req' = [req EXCEPT ![w] = NoRequest]
  /\ IF call[w].phase # "idle" THEN SL!Leave(w) ELSE UNCHANGED <<now, slVars>>
  /\ IF visit[w].phase # "idle" THEN LA!Leave(w) ELSE UNCHANGED <<now, laVars>>
  /\ UNCHANGED <<browserVars, drawn, logins>>

\* Any manager, of a request that is not of interest here or of db_info, drops
\* expired rows.
Ween ==
  /\ \/ SL!Purge /\ UNCHANGED laVars
     \/ LA!Purge /\ UNCHANGED slVars
  /\ UNCHANGED <<req, browserVars, drawn, logins>>

Tick ==
  /\ SL!Tick
  /\ UNCHANGED <<laVars, req, browserVars, drawn, logins>>

\* What the process that handles a request does by itself.
Handle(w) ==
  \/ SessionRead(w) \/ HasValidSession(w) \/ Decline(w)
  \/ \E n \in Nonce : StartAuthentication(w, n)
  \/ Started(w) \/ ConsumerStep(w)
  \/ ValidateAuthentication(w) \/ NotValidated(w) \/ Unauthorized(w) \/ Accept(w)
  \/ ShowPage(w)
  \/ \E id \in SessionId : MakeCookie(w, id)
  \/ StoreSession(w) \/ SessionStored(w) \/ RedirectWithCookie(w)
  \/ Respond(w)

Next ==
  \/ Tick
  \/ Ween
  \/ \E w \in Worker : Handle(w) \/ Crash(w)
  \/ \E w \in Worker, b \in Browser : Browse(w, b) \/ Return(w, b)

Spec == Init /\ [][Next]_vars

\* Apache goes on with a request it has begun, and picks one up when the browser
\* goes on with its login.
FairSpec ==
  /\ Spec
  /\ \A w \in Worker : WF_vars(Handle(w))
  /\ \A b \in Browser : WF_vars(\E w \in Worker : Browse(w, b) \/ Return(w, b))

--------------------------------------------------------------------------------

\* Every variable of the handlers and the browsers is of its type; in
\* particular every session is stored under a host and a path of the
\* configuration (set_session_cookie).
TypeOK ==
  /\ now \in StartTime .. MaxTime
  /\ leases \subseteq [session_id : SessionId, payload : Payload, expires_on : Int]
  /\ req \in [Worker -> Request]
  /\ asked \subseteq [browser : Browser, nonce : Nonce, place : Place, uri : Server]
  /\ jar \in [Browser -> SUBSET Cookie]
  /\ drawn \subseteq SessionId
  /\ logins \subseteq [browser : Browser, place : Place]

\* The answer "ok": Apache serves the page to REMOTE_USER.
Served(w) == req[w].phase = "answered" /\ req[w].reply = "ok"

\* A page is served only to a browser that has logged in before, at the same
\* host, under the path of that login's cookie or at that very place, and was
\* accepted there by the program, if there is one; and REMOTE_USER is a name of
\* that browser's user.  The identity takes a long way there: the provider's
\* response, a row of the session table under a random id, a cookie, the row
\* read by another process.
OnlyAfterLogin ==
  \A w \in Worker : Served(w) =>
    LET r == req[w] IN
    /\ r.user \in {Identity(r.browser), Username(r.browser), Empty}
    /\ \E l \in logins :
         /\ l.browser = r.browser
         /\ \/ l.place = r.place
            \/ /\ l.place.hostname = r.place.hostname
               /\ IsPrefix(CookiePath(l.place), r.place.path)
         /\ Config[l.place].use_auth_program => l.browser \in Approved

\* README.markdown, Usage: the user's identity URL (or the AX username) is in
\* REMOTE_USER after authentication, so it is never the empty string.
UserNamed == \A w \in Worker : Served(w) => req[w].user # Empty

\* Where every Require line for a page names users, a browser is served only if
\* the name of its own user that AuthOpenIDAXUsername there calls for is among
\* them, although the session may come from a login at another place.
OnlyNamedUsers ==
  \A w \in Worker : Served(w) =>
    LET lines == {l \in Range(Conf(w).requires) : "GET" \in l.methods}
        b == req[w].browser
    IN (\A l \in lines : l.what = "user") =>
         \E l \in lines : RemoteUser(Conf(w), Identity(b), Username(b)) \in Range(l.names)

\* The words of a line are names or the empty word; some line is of another
\* module.
LineSamples ==
  {Line("user", names, {"GET"}) : names \in SeqOf({Username(b) : b \in Browser}, 1)}
  \cup {Line("valid-user", <<>>, {"GET"}), Line("valid-user", <<>>, {"POST"}),
        Line("group", <<Empty>>, {"GET"})}

\* The two builds of the hooks are written separately: for every REMOTE_USER the
\* handler comes to, whatever the Require lines, Apache 2.2 serves the page if
\* and only if Apache 2.4 does.  (Not so for a line with an empty word.)
BothBuildsAgree ==
  \A w \in Worker : req[w].phase = "answered" /\ req[w].reply \in {"ok", "denied"} =>
    \A lines \in SeqOf(LineSamples, 2) :
      Authorized(lines, "GET", req[w].user) <=> CheckUserAccess(lines, "GET", req[w].user) = "OK"

\* start_authentication_session leaves an attempt in the database when it then
\* refuses to send the browser to its provider; no response is ever admitted
\* for such an attempt.
AdmittedFromAllowedProvider ==
  \A w \in Worker : visit[w].phase = "admitted" =>
    \A a \in attempts : a.nonce = visit[w].nonce =>
      /\ Conf(w).trusted # None => a.uri \in Conf(w).trusted
      /\ a.uri \notin Conf(w).distrusted

\* No browser knows the name of a login or of a session while the process that
\* makes it is still at work on it: SessionManager and MoidConsumer rely on
\* never being asked about a row somebody is about to insert.
NamesKnownWhenDone ==
  \A w \in Worker :
    /\ visit[w].task = "checkid" => \A a \in asked : a.nonce # visit[w].nonce
    /\ call[w].op = "store" =>
         \A b \in Browser : \A c \in jar[b] : c.session_id # call[w].session_id

\* A stored session lives at least as long as the cookie that names it
\* (make_cookie_value and store_session each read the clock).  Not so when
\* Lifespan is 0: then the cookie has no expiry and the session a day.
LeaseCoversCookie ==
  Lifespan # 0 =>
    \A b \in Browser : \A c \in jar[b], l \in leases :
      c.session_id = l.session_id => c.expires <= l.expires_on

\* A browser that goes on with its login is served in the end, if nothing fails
\* and its user is one the program accepts: identifier, redirect, response,
\* cookie, page.  That the program hangs for somebody else, and a process waits
\* for it in exec_auth, does not matter as long as another process is left.
LoginCompletes ==
  \A b \in Approved \ Hanging : <>(\E w \in Worker : Served(w) /\ req[w].browser = b)

================================================================================
