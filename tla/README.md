# A TLA+ model of mod_auth_openid

mod_auth_openid is an Apache module that lets browsers log in with OpenID.  This
directory holds TLA+ specifications of its core, TLC configurations that check
them, and TLAPS proofs.  `PROJECT.json` lists components, runs, mutants, hazards,
findings and theorems, and maps each definition to the lines it models.

## The system

| Part | Source | State | Operations |
|---|---|---|---|
| Session table | `SessionManager.cpp` | SQLite table `sessionmanager`; per object a handle and `is_closed` | constructor, `get_session`, `store_session`, `print_table`, `ween_expired`, `close` |
| Relying party | `MoidConsumer.cpp` | tables `authentication_sessions`, `associations`, `response_nonces`; per object a handle, `is_closed`, `endpoint_set`, the nonce | constructor, the virtual functions libopkele calls, `session_exists`, `kill_session`, `print_tables`, `close` |
| Method handler | `mod_auth_openid.cpp` 286-616 | none of its own: a request record, the two objects above, the browser's cookies | `has_valid_session`, `start_authentication_session`, `validate_authentication_session`, `set_session_cookie` |
| Authorization hooks | `mod_auth_openid.cpp` 619-732 | none | `check_user_access`, the Apache 2.4 provider |
| Configuration | `mod_auth_openid.cpp` 43-225 | one record per directory | directive parsers |
| HTTP helpers | `http_helpers.cpp` | none | request parameters, cookies, redirects, the form |
| Utilities | `moid_utils.cpp` | none | strings, regular expressions, random strings, `exec_auth` |
| `db_info` | `db_info.cpp` | none | prints (and thereby weens) the tables |

Apache runs requests in several processes, which share nothing but the database
file.  A handler constructs a manager object, makes a call or two and closes it;
between two SQL statements of one process any other process may run its own.
A login takes three requests of one browser: one starts it (a row in
`authentication_sessions`, a redirect to the provider with a fresh nonce in
`return_to`), one brings the provider's response (which is verified, and the row
deleted; a session row is stored and a cookie is sent), and one asks for the
page with the cookie.

What is hard here: interleavings of statements of several processes; statements
that fail, whose failure closes the handle although the caller goes on; expiry,
checked only by weening; crashes between statements; check-then-act on login
attempts and response nonces; names (nonces, session ids) that travel through
browsers, are repeated, reloaded and lost; arithmetic on times in an `int`.

What makes each part correct:

* session table: an id names one session; a session is kept until it has expired
  and no expired one is handed out; every call returns;
* relying party: an attempt is registered for one endpoint, is kept for its hour,
  admits nothing afterwards or after being redeemed; what is accepted was
  recorded;
* method handler: pages are served only after a login at that place, to the right
  user, with a name; providers that are not trusted are not logged in with; a
  cookie does not outlive its session; a login completes;
* authorization hooks: a page whose Require lines name users is served to these
  only, and alike by Apache 2.2 and 2.4;
* configuration: whatever the order of the directives, nothing the handlers rely
  on is missing;
* request parameters: the user's own survive a login, those of OpenID neither pile
  up nor leak into a URL, the response brings its nonce, the page gets the
  extension parameters of its own login;
* string functions: a needle is replaced and nothing else is touched, a hidden
  field, a cookie and a trust root are read as they were meant.

## Modules

```
            MethodHandler ------- browsers, requests, Authorization
             /          \
     SessionLeases    LoginAttempts          what is promised
          ^                 ^                (refinement)
    SessionManager     MoidConsumer          statements, handles, errors

            LoginRoundTrip ------ one browser tab, every parameter
                  |
            Configuration                    directives, sections
                  |
            RequestParams                    queries, forms, attributes

            Strings                          explode, str_replace, ...
```

The theorems are in modules of their own, each extending what it is about:

| Module | About |
|---|---|
| `SessionManagerProofs` | SessionManager, and that it implements SessionLeases |
| `MoidConsumerProofs` | MoidConsumer, and that it implements LoginAttempts |
| `AuthorizationProofs` | the hooks, for all Require lines |
| `MethodHandlerProofs` | MethodHandler, and that it uses SessionLeases and LoginAttempts as they may be used |
| `RequestParamsProofs` | the operators on parameters and queries |
| `LoginRoundTripProofs` | LoginRoundTrip and Configuration (extends `RequestParamsProofs`) |
| `OwnParamsProofs` | the user's own parameters in LoginRoundTrip (extends `LoginRoundTripProofs`) |
| `StringsProofs` | the string functions, for strings of any length |

**SessionManager** has the table as `sessionmanager`, the clock as `now` and one
record `sm[w]` per worker: its object, the call it is in (`pc`, `op`), and what
the call has got so far.  One action is one SQL statement: `Open` (the
constructor), `WeenExpired`, `SelectSession`, `InsertSession`, `PrintRows`,
`Close`; `GetSession`, `StoreSession` and `PrintTable` begin a call.  Any
statement may fail if `Faults`; a failed one closes the handle (`TestResult`) and
every later statement of the object fails.  `print_sqlite_table` does not test.
`Sample(w)` is what `time()` may have returned: the code reads it before the
statement that uses it, so any reading since the previous statement is possible.
`known` are the ids already drawn or sent.

**SessionLeases** is what callers rely on: `Ask`, `Answer`, `Grant`, `List`,
`Leave`, `Purge`.  A lease lasts `Term` from some moment of the call.

**MoidConsumer** is built the same way for the three OpenID tables.  libopkele
decides the order of the calls: `initiate` = `BeginQueueing`, `QueueEndpoint`*,
`SetNormalizedId`; `checkid_` = `GetEndpoint`, `FindAssoc`, and if there is none
`Associate`, `StoreAssoc`; then `GetEndpointUri`.  `id_res` = `RetrieveAssoc`,
`VerifySignature` or `InvalidateAssoc`/`Verdict` (the provider is asked
directly), `CheckNonce`, `FindAssoc`, `InsertNonce`, `EndIdRes`; then
`SessionExists`, and `Refuse` or `KillSession` by the handler.  `recorded` and
`redeemed` are history.

**LoginAttempts** is the promise: `StartLogin`, `Register`, `Redirect`;
`ReceiveResponse`, `Admit`, `Refuse` or `Grant`; `Fail`, `Purge`, `Leave`.

**MethodHandler** is `mod_authopenid_method_handler`: `Receive` is the beginning
of `has_valid_session`; then `SessionRead`, `HasValidSession`; the branches
`Decline`, `StartAuthentication` ... `Started`, `ValidateAuthentication` ...
`NotValidated`, `Unauthorized`, `Accept`; `set_session_cookie` as `MakeCookie`,
`StoreSession`, `SessionStored`, `RedirectWithCookie`; without cookies
`ShowPage`; and `Respond`, when the response reaches the browser.  The managers
are used through the actions of SessionLeases and LoginAttempts.  `Config` gives
each place its directives, as Apache's per-directory configuration does.  `asked`
and `jar` are what the browsers hold; `logins` is history.

The program is asked by `ExecAuth`, which has no outcome for an identity on which
the program hangs: the request then stays where it is, in its process.

**Authorization** has the hooks that Apache calls after the handler has said OK:
`UserCheckAuthorization` and `ValidUserCheckAuthorization` are the providers of
the build for Apache 2.4, `CheckUserAccess` is the function of the build for 2.2.
MethodHandler's `Ok` serves the page or not by the Require lines of the place.

**RequestParams** has what the code does to parameters, as operators on `params_t`
(functions from names to values) and on query strings (sequences of items):
`ParseQueryString`, `RemoveOpenIdVars`, `GetExtensionParams`, `MergeParams`,
`GetPostData`, `GetRequestParams`, `FullUri`; `CutShort` is what `get_post_data` has
of a body that it could not read to its end, cut at any byte; `AxRequest` and `AxError` are the
attribute exchange of `start_authentication_session` and
`validate_authentication_session`.

**Configuration** has the directives, each as the record it makes of a record, and
the two nested sections Apache reads them in (`section`).  There is no merge
function: `Effective` is the record of the innermost section that has one.

**LoginRoundTrip** puts these together.  `ReadDirective` builds a configuration and
`Serve` ends it; then one browser tab goes `AskForPage`, `FillIn` or
`LoginPageReturns`, `ProviderResponds` or `ProviderCancels`, `Reload`, and
`HandleRequest` is the handler, which answers each request as the code does:
`ShowInput`, `StartAuthentication`, `ValidateAuthentication`, a redirect
(`HttpRedirect`, which becomes a form when it is long) or the page.  `msg` is the
one message on its way, with all its parameters; `alive` stands for the table of
attempts.  MethodHandler has the same handlers with several browsers, processes,
crashes and the clock but no parameters; LoginRoundTrip has the parameters and
nothing else.

**Strings** has the string functions on sequences of characters.  They have no
state: `text` is their input, any short string.  What is searched for or replaced
is one character there, as in every call of these functions.  The loop of `explode`
is a recursive function of the position it has erased up to.

**MC...** modules give the constants of the runs.  Definitions marked "(wrong:
...)" are slips a maintainer could make; each property is shown to notice one of
them (see "mutants" in `PROJECT.json`).

### Abstractions

* SQLite statements are atomic; the constructor's CREATE statements are one step,
  and so are the three DELETEs of `MoidConsumer::ween_expired` (on different
  tables), of which the first k succeed.
* `sqlite3_get_table` leaves zero rows after an error.  A closed handle answers
  with an error: SQLite detects it, and the single-threaded process does not
  reuse its memory within the call.
* `make_rstring` draws a value never seen before.
* A browser learns a nonce or a session id from the finished response only.  This
  is an assumption of SessionManager and MoidConsumer (guards of `GetSession` and
  `ReceiveResponse`); in MethodHandler it is checked (`NamesKnownWhenDone`).
* Association handles are unique per provider; messages are OpenID 2.0.
* Paths are sequences of pieces and `valid_path == uri_path.substr(...)` is the
  prefix relation on them.  A browser may send a cookie to any place: the model
  does not rely on browsers matching paths.
* A user has one identity and one username, both named after the browser.
* Regular expressions are the endpoints, or the attribute outcomes, they accept.
  Which message the form shows is left out.
* MethodHandler has no largest int: it uses SessionLeases, which SessionManager
  implements when no expiry overflows.
* All places share one database, cookie name and lifespan.
* A parameter name is the sequence of its pieces between dots, a value is opaque;
  `url_encode` and `url_decode` are left out of RequestParams, so values in it are
  such as `str_replace` loses nothing of (Strings says which these are).  What is
  left of a value that is cut short is nothing or its `Beginning`, which stands for
  all of its beginnings: the code treats them alike.  Of a cut name nothing is
  left, as it has no "=".
* A response comes back to the place where its login began, as `return_to` is the
  URL of that page: OnlyAfterLogin and AdmittedFromAllowedProvider rest on it.
* A URL is its query: scheme, host, port (or AuthOpenIDServerName) and path are
  the same all along.  The redirect to the page after a login is shorter than 2000
  characters and the page's query shorter than 1024 (the code cuts it there).
* The attribute aliases of AuthOpenIDAXRequire differ even when case is ignored
  (Apache's tables ignore it).  A response names the attribute namespace once.
* What libopkele adds to a request to the provider, beside `openid.mode` and
  `openid.return_to`, is left out.

## Runs

| Run | Configuration | Shows |
|---|---|---|
| `sessions` | `MCSessionManager.cfg` | TypeOK, NoExpiredSession, OneSessionPerId; every call returns; SessionManager implements SessionLeases |
| `sessions_overflow` | `MCSessionManagerOverflow.cfg` | violated: StoredForLifespan |
| `consumer` | `MCMoidConsumer.cfg` | with two providers: TypeOK, OneEndpointPerLogin, AcceptedNonceRecorded, NoStaleLogin, KilledStaysDead, DroppedOnlyWhenDue; MoidConsumer implements LoginAttempts |
| `consumer_replay` | `MCMoidConsumerReplay.cfg` | violated: ReplayRefused |
| `consumer_nonce` | `MCMoidConsumerNonce.cfg` | violated: NonceKeptWithAssociation |
| `handler` | `MCMethodHandler.cfg` | two browsers, two nested places, attributes, program, provider lists, Require lines: OnlyAfterLogin, UserNamed, AdmittedFromAllowedProvider, NamesKnownWhenDone, OnlyNamedUsers, BothBuildsAgree |
| `handler_faults` | `MCMethodHandlerFaults.cfg` | OnlyAfterLogin with failures, crashes and a running clock, and LeaseCoversCookie |
| `handler_live` | `MCMethodHandlerLive.cfg` | LoginCompletes, while the program hangs for the other browser |
| `handler_unnamed` | `MCMethodHandlerUnnamed.cfg` | violated: UserNamed |
| `roundtrip` | `MCLoginRoundTrip.cfg` | TypeOK, OwnParamsKept, UrlsClean, OnlyProviderAnswers, GetResponseHasNonce, ExtensionsOfThisLogin, AttributesHeld; NothingMissing; the string functions: NothingElseReplaced, HiddenFieldsSurvive, TrustRootIgnoresQuery, OwnCookieFound |
| `roundtrip_post` | `MCLoginRoundTripPost.cfg` | violated: ResponseHasNonce |
| `strings_replace` | `MCLoginRoundTripStrings.cfg` | violated: NeedlesReplaced |

**Bounds.** Two workers suffice for every race between two statements of one call
and another process.  A lifetime of one tick (session, attempt, association)
against three readings of the clock lets a row expire before, inside and
after another process's call.  Two ids or nonces give "mine and someone else's".
`consumer` has one nonce and two providers (one in the runs of findings 1 and 2).
Statements on different nonces touch different rows, so one nonce, started by one
process and answered in two, has the races of MoidConsumer.  In the
same way `handler` has two browsers and no faults, `handler_faults` one browser
(with several tabs) and everything that can go wrong.  Workers, nonces and
session ids are interchangeable there, workers and providers in `consumer` (symmetry;
no liveness is checked in either).
`roundtrip` reads up to two directives in two sections, enough for one to replace,
to accompany or to hide another, then allows two logins, so that the second
starts from whatever the first left in the URL.  A user asks for a page with no
query, a name given twice beside a name without a value, an empty value alone, or
names that look like extension parameters; or posts a form that has a name of the
query twice, at last without a value, and may be cut at any byte.  The strings have up
to four characters out of ten (the separators, a quote, what an entity ends with,
a cookie's name and one more), which has every position of a separator (first,
last, inside, doubled) between two others; the theorems on them have no bound.
IntMax is 15 except in the overflow run (12), enough for every sum but the ones
the findings are about.

**Fairness.** A process inside a call takes its next step: it is scheduled,
`sqlite3_busy_timeout` (5 s) bounds each statement and libopkele's requests time
out.  No call is obliged to begin, and a statement may always fail.  The fairness
of MethodHandler assumes that the browser goes on with its login.  It does not
assume that the authorization program ends, as `exec_auth` waits without a
timeout: in `handler_live` it hangs for one of the two browsers, and the other
still gets its page from the second process (a browser waits there for one answer
at a time; one that asked again would take that process as well).
LoginCompletes is stated for instances without faults, where nobody crashes.
MoidConsumer has no fairness: its calls are straight-line code like those of
SessionManager.

MethodHandler's deadlock check says little: `Ween` (somebody weens, possibly
nothing) is always possible.  LoginCompletes is what rules out waiting there.

## Findings

1. `check_nonce` selects a column that `response_nonces` does not have and does
   not test the result, so a recorded nonce is never recognised (`consumer_replay`).
2. The same function computes a nonce's expiry as the sum of two absolute times,
   which overflows; the nonce is weened at once (`consumer_nonce`).
3. `store_session` computes an expiry in an `int`; a long lifespan wraps
   (`sessions_overflow`).
4. AuthOpenIDAXUsername without AuthOpenIDAXRequire leaves REMOTE_USER empty
   (`handler_unnamed`).
5. A provider's answer sent as a form POST loses the nonce, which is in the query
   of `return_to`, and is refused (`roundtrip_post`).
6. `str_replace` drops characters it should replace at the ends of a string and
   doubled ones: a trailing "+" of a query value, the quotes around a hidden field's
   value.  The header says needle is replaced (`strings_replace`).

One more disagreement, read off the code, has no run of its own:
`remove_openid_vars` also removes the parameters of sreg and ax, while
`http_helpers.h:53` says "except sreg and ax params", ChangeLog 0.2 (line 56) that
they "are no longer cleansed from URL" and ChangeLog 0.4 (line 37) "No longer
clearing attribute exchange parameters".  A page asked for with them loses them on
the way to the provider.  (`merge_params` adds those of the provider's answer to the
page's URL, which may be what the ChangeLog means.)  UrlsClean therefore says nothing
of whether parameters of extensions stay.

Observed while modelling, without a statement in the repository to hold them
against:

* A session from a place without AuthOpenIDAXUsername has no username; at a place
  below it with AuthOpenIDAXUsername it serves pages to an empty REMOTE_USER.
* A form whose body cannot be read to its end is taken for a complete one.  Its last
  value may be cut in the middle, and what is left of it goes into `return_to` as if
  the user had posted it (OwnParamsKept says so: `ReadAs`).
* When the DELETE of `kill_session` fails, the login is granted and the attempt can
  be used again until it expires.  LoginAttempts permits that.
* Parameters without "=" are lost on a login, and so is "k=" if it is alone.
* `send_form_post` writes values into its hidden fields without `html_escape`,
  unlike `show_html_input`.
* A POST without Content-Type makes `get_post_data` compare a null pointer.
* A Require line with an empty word ends there with Apache 2.4 and goes on with 2.2.
* `AuthOpenIDUseCookie Off`: the page's URL keeps the whole response, so a reload
  is answered with invalid_nonce.

## Proofs

TLAPS checks every leaf; nothing is assumed but the named ASSUMEs of the modules,
which TLC evaluates in the runs.  They are: clocks and terms are natural numbers
(and fit an int where the code uses one); the sentinels `None` and `Empty` are
none of the other values; the directives of a place are of their types
(`ConfigAssumption`); and, in LoginRoundTrip, what a user asks for or posts names
no parameter of the OpenID protocol itself (`UserAssumption`: an address like
that is a provider's answer, not a page), and what is left of a value when it is cut
is one the user could have given (`DataAssumption`).  Hypotheses beyond these are in the
statements of the theorems.

### The session table

`SessionManagerProofs` proves, for any workers, ids, payloads, lifespans and
clock bounds:

* `TypeCorrect`: `Spec => []TypeOK`;
* `NeverExpired`: `Spec => []NoExpiredSession`;
* `IdsAreUnique`: `Spec => []OneSessionPerId`;
* `Refinement`: if `MaxTime + Term <= IntMax`, `Spec => SL!Spec`.  Without that
  hypothesis it is false: this is finding 3;
* `StoredLongEnough`: under the same hypothesis `Spec => StoredForLifespan`, the
  property that `sessions_overflow` violates: overflow is the only cause.

The argument for `NeverExpired`: the SELECT has no expiry condition, so what it
returns must have been weened, and the weening may have failed.  If it failed the
handle is closed and the SELECT returns nothing.  If it succeeded, every row of
the id that remains had not expired when the call began (`Weened`) - and no row
of that id may be inserted between the two statements.  That in turn needs that a
store works on an id no lookup uses (`Apart`, from the assumption on browsers and
from fresh ids, `Seen`), and that a store that has not inserted yet is alone with
its id (`Pending`), from which `OneRowPerId` follows.  `Clocks` relates the
beginning of a call, its last statement and now.  The conjunction `Inv` with the
type invariant is inductive.  The refinement proof maps each action to a step of
SessionLeases or to a stutter, with `Inv` as its invariant: `WeenExpired` to
`Purge`, `SelectSession` to `Answer`, `InsertSession` to `Grant`, `PrintRows` to
`List`, `Return` and `Crash` to `Leave`, `Open` and `Close` to a stutter.

### The relying party

`MoidConsumerProofs` proves TypeOK, AcceptedNonceRecorded, NoStaleLogin,
KilledStaysDead and OneEndpointPerLogin as invariants, and the action property
DroppedOnlyWhenDue.  None of them is inductive.  The strengthening `Inv` says of
every object what it knows of the tables at the statement it has come to:

* `Local`: which values an object has at which `pc`;
* `StartSound`: an object that starts a login has a nonce nobody has redeemed, and
  what is registered under it is the endpoint it has read;
* `ResponseSound`: while the handle of a visit with a response is open, the rows of
  its attempt had not expired when it began; a failed weening closes the handle;
* `NonceSound`: past the INSERT of `check_nonce` with an open handle, the response
  nonce has been recorded;
* `Apart`, `Seen`, `OneRowPerNonce`: no two objects start the same login or start
  one that another one answers, and what is in a table has been drawn.

`MoidConsumerProofs.Refinement` proves that MoidConsumer implements
LoginAttempts if `MaxTime + Hour <= IntMax` (an attempt's expiry fits an int),
step by step, with `Inv` as its invariant.  Statements on associations and
response nonces map to stutters; `WeenExpired` maps to `Purge`.

### The handlers

`MethodHandlerProofs` proves all safety properties of MethodHandler.  Its invariant
has three layers, each inductive relative to the ones before:

1. `TypeInv`: types, and `Local`: which calls a request makes in which phase, with
   which arguments;
2. `LoginInv`: the nonces.  No browser knows a nonce whose login is still being
   started (`StartSound`), only one endpoint is registered for it (`OneEndpoint`),
   and a nonce that a browser knows is of an attempt with a provider that the
   directives allow (`AskSound`, `AskedSound`), even if refused attempts are left
   behind in the table;
3. `SessionInv`: the session ids.  Rows under an id that is not sent yet belong to
   the browser it goes to and outlive the cookie (`MintSound`), rows under an id in
   a browser's jar come from a granted login of that browser (`JarSound`), and so
   does what a call gets (`CallSound`) and what a page is served for
   (`GrantSound`).

`UserHasName` has a hypothesis on the directives: where AuthOpenIDAXUsername is
set, every place whose sessions count there sets it too and has attributes
required.  Neither half can be left out: a place that asks for no attributes is
finding 4, a session of a covering place without AuthOpenIDAXUsername is the first
of the observations above.

`UsesSessions` and `UsesLogins` prove `Spec => SL!Spec` and `Spec => LA!Spec`: the
handlers use the two services only in the ways the abstract specifications offer.
Together with the two refinements this closes the composition: what MethodHandler
assumes of its services is what SessionManager and MoidConsumer have been proved
to implement, and NamesKnownWhenDone (`NamesHandedOutLast`) is what those assume
of browsers.

`AuthorizationProofs.BuildsAgree` proves for all Require lines, methods and users
that the hooks of both builds give the same answer, if no word of a user line is
empty (with one they differ, see above).

### Parameters

`ParseQueryString` and `Query` are folds of the community modules.
`RequestParamsProofs` proves what they do for a query of any length by induction on
the positions: a recursive function over the sets of positions is shown to exist
and to be the fold, and then what it has for a set follows from what it has for the
set without one position.  This gives `ReadBack` (writing and parsing loses nothing
but a single empty value), `CleanedUri` (nothing of OpenID is in a cleaned URL, and
nothing new) and `CleanedSays` (it says of every other parameter what the query
said).

`LoginRoundTripProofs` proves TypeOK, NothingMissing, OnlyProviderAnswers,
GetResponseHasNonce, ExtensionsOfThisLogin and AttributesHeld for any queries,
forms, values, attributes, numbers of directives and of logins.  Its invariant
`Inv` has what is in every message by where it is:

* `ConfOK`: every record of a section keeps switches and what they stand for
  together (one lemma for each directive);
* `Addresses`: `referrer` and hidden fields have the user's parameters alone,
  `return_to` has these and the present nonce, a request for attributes names those
  of the directives;
* `Cookies`: a browser with a cookie is past the provider and the forms, and with
  cookies mode, handle and nonce are only in what comes from the provider;
* `Answers`, `Responded`: an answer consists of mode, handle, the nonce of the
  present attempt and the extension parameters of the response.

`OwnParamsProofs` proves OwnParamsKept and UrlsClean, with `OwnInv` beside `Inv`:
what the address of a message says of each of the user's parameters is what the
user asked for or a field the user posted (`KeptIn`); a form that reaches the
handler has nothing of the user's own but what the user posted, or what is left of it
(`Posted`); and
`return_to` has the nonce once and each name at most twice (`Once`), because it is
a cleaned URL followed by parameters, and neither has a name twice.  OwnParamsKept
is stated by what a query *says* of a parameter, its last value.  A form that has a
name twice may say something else than all of its fields would, and one that is cut
short also what is left of a posted value; anything else it cannot.

UrlsClean is about the parameters of the protocol itself.  Those of extensions do not
remain either, against what the repository says (see the findings), so it makes no
claim of them but that they do not pile up.

### The string functions

`StringsProofs` proves the four properties of Strings for every string over any
set of characters, of any length.  None of them has a hypothesis but the one the
property states itself (`HiddenFieldsSurvive` is about texts of which `str_replace`
loses no special character).

A property of all strings is proved by induction over their length, or by one more
character at the end, stated with the set of the strings that have it (`ByLength`,
`ByExtending`): the theorems of the library take an operator there, which the
provers cannot instantiate.  That the recursive functions `Explode` and
`FlattenSeq` are made of exist at all is proved first (`PiecesExist`,
`FlatExists`), as the functions that satisfy their equations on ever longer ends of
their domains.  What follows rests on two facts:

* `ExplodeSplit`: if the first separator of `s` is between `p` and `t`, the pieces
  of `s` are `p`, unless it is empty, and then the pieces of `t` - one turn of the
  loop of `explode`; `FlattenConcat` is the same for gluing pieces together.
* `FindStops`: `find` returns the first position with the character, or one past
  the end.

Then

* `OnlyNeedlesReplaced`: `StrReplaceIs`, by induction over the turns of the
  loop.  Between two turns the only thing to know is whether the rest has any piece
  left: if not, all that remains are separators, which are the ones lost at the end.
* `TrustRootIsDirectory`: from `FindStops`, since the last "/" before the "?" is
  the last one of the page.
* `OwnCookieAlwaysFound`: before other cookies the own pair is the first piece.
  Behind them the pieces are those of both (`ExplodeBoth`), and it is the first with
  its name if no earlier one has it.  A piece that has the name after `strip` is a
  cookie of that name in the text itself: it starts behind a ";" (`PieceStarts`),
  its first part is followed by an "=" and preceded by nothing but those
  (`FirstPiece`), and the part is the name between spaces (`StripsTo`); together
  `NamedIsCookie`, which is what `HasCookie` says.
* `HiddenFieldsAlwaysSurvive`: where nothing is lost, escaping a character replaces
  each occurrence by its entity, whatever has been escaped before (`EncodedTwice`),
  and loses nothing in the next round either (`EncodedKeeps`) - which is true only
  if "&" comes first, the condition `MayFollow`.  So `HtmlEscape` replaces all five
  at once (`HtmlEscapeEncodes`), leaves no quote (`EncodedPlain`), and a browser
  reads back what was there, character by character (`EncodedRead`).

### Only model-checked

* Liveness: that every call of SessionManager returns, and LoginCompletes.  Fairness and ENABLED are out of these provers' reach.
* The violated properties of the findings, where the theorems with a hypothesis say
  that nothing but the causes given there violates them (findings 3 and 4).

### What no property tells

* A process that dies after `kill_session`, and a cookie whose session could not be
  stored (`handler_faults` has both): the user has logged in, so OnlyAfterLogin holds
  whatever follows.  That such a cookie opens nothing is how a lookup is written.
* A redemption whose DELETE fails, see the observations.
* Two processes that check the same response nonce at once: check_nonce accepts it
  twice in one process already (finding 1), and `consumer_replay` has one worker.

## Not modelled

The wording and layout of HTML, the HTTP output, the debug log, build files; the
cryptography, discovery and network traffic of libopkele beyond their outcomes;
`next_endpoint` and `get_normalized_id`, which nothing calls; `get_queryless_url`
and regular expressions beyond what they accept; percent-decoding (curl); lengths
of buffers, URLs and arguments; `true_random`.

## Plan

1. Done: SessionManager, MoidConsumer, their abstract services, MethodHandler on
   top of these, the proofs of SessionManager.
2. Done: Configuration, RequestParams and LoginRoundTrip; Strings; Authorization
   and the hanging program in MethodHandler.
3. Done: the proofs of MoidConsumer and its refinement, of MethodHandler and its
   use of the two services, of Authorization, RequestParams and LoginRoundTrip.
4. Done: Strings without RECURSIVE operators, and its four properties for strings
   of any length.  With these every invariant and action property that a passing
   run checks is a theorem.
5. Left: `get_queryless_url` and `url_decode` on strings; the lengths the code
   works with (a page's query cut at 1024 bytes, redirects over 2000 characters
   counted instead of chosen); a liveness argument for LoginCompletes that could be
   checked by a prover with fairness.
