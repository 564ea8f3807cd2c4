------------------------------ MODULE MoidConsumer ------------------------------
(***************************************************************************)
(* MoidConsumer.cpp: the OpenID relying party.  A handler constructs an    *)
(* object for one login attempt (asnonceid) and either starts the login    *)
(* (initiate, checkid_, get_endpoint) or validates the provider's response *)
(* (id_res, session_exists, kill_session); db_info prints the tables.      *)
(* libopkele drives the virtual functions of the class in the order the    *)
(* actions below give; its network traffic, signature check and parsing    *)
(* have nondeterministic outcomes.  Messages are OpenID 2.0.               *)
(*                                                                         *)
(* One action is one SQL statement (ween_expired: its three DELETEs, which *)
(* touch different tables), as in SessionManager, and statements fail the  *)
(* same way: test_result closes the handle and the caller goes on with it. *)
(*                                                                         *)
(* Definitions marked "(wrong: ...)" are not used by the specification:    *)
(* they are slips a maintainer could make, which the properties catch.     *)
(***************************************************************************)
EXTENDS Integers, FiniteSets

CONSTANTS
  Worker,         \* Apache processes and db_info
  Nonce,          \* values of make_rstring(10): one per login attempt
  Server,         \* OP endpoint URLs
  Handle,         \* association handles, unique per server
  ResponseNonce,  \* openid.response_nonce values
  AssocTerm,      \* expires_in values a provider may grant
  Hour,           \* 3600: lifetime of a login attempt
  StartTime,
  MaxTime,        \* the clock stops there
  IntMax,         \* largest int
  Faults,         \* can SQLite return an error?
  None

ASSUME ClockAssumption ==
  /\ StartTime \in Nat /\ MaxTime \in Nat /\ IntMax \in Nat
  /\ StartTime <= MaxTime
  /\ MaxTime <= IntMax            \* time_t still fits the %d of the queries
ASSUME TermAssumption ==
  /\ Hour \in 0 .. IntMax
  /\ AssocTerm \subseteq 0 .. IntMax
ASSUME FaultsAssumption == Faults \in BOOLEAN
ASSUME NoneAssumption ==
  /\ None \notin Nonce \cup Server \cup Handle \cup ResponseNonce
  /\ None \notin {"checkid", "id_res", "print", "redirect"}

VARIABLES
  now,                      \* time(0)
  associations,             \* the three tables
  authentication_sessions,
  response_nonces,
  known,                    \* login nonces drawn here or sent by a browser
  mc,                       \* per worker: its MoidConsumer object and its call
  recorded,                 \* history: response nonces ever inserted
  redeemed                  \* history: login nonces deleted by kill_session

tables == <<associations, authentication_sessions, response_nonces>>
history == <<recorded, redeemed>>
vars == <<now, tables, known, mc, history>>

--------------------------------------------------------------------------------

\* An int holding the sum of two ints: two's complement wrap-around.
ToInt(n) == IF n > IntMax THEN n - 2 * (IntMax + 1) ELSE n

Association == [server : Server, handle : Handle, expires_on : Int]
AuthenticationSession == [nonce : Nonce, uri : Server, expires_on : Int]
ResponseNonceRow ==
  [server : Server, response_nonce : ResponseNonce, expires_on : Int]

\* No MoidConsumer object: the worker is doing something else.
NoCall == [pc |-> "none", then |-> "none", task |-> None, asnonceid |-> None,
           server |-> None, handle |-> None, response_nonce |-> None,
           began |-> StartTime, clock |-> StartTime, is_closed |-> TRUE,
           endpoint_set |-> FALSE, row |-> None, result |-> None]

Init ==
  /\ now = StartTime
  /\ associations = {}
  /\ authentication_sessions = {}
  /\ response_nonces = {}
  /\ known = {}
  /\ mc = [w \in Worker |-> NoCall]
  /\ recorded = {}
  /\ redeemed = {}

\* The possible outcomes of the next statement on w's handle.
Outcome(w) ==
  IF mc[w].is_closed THEN {FALSE} ELSE IF Faults THEN BOOLEAN ELSE {TRUE}

\* How many of the three DELETEs of ween_expired succeed: the first failure
\* closes the handle.
Weenings(w) == IF mc[w].is_closed THEN {0} ELSE IF Faults THEN 0 .. 3 ELSE {3}

\* What time() may have returned to w since its last statement.
Sample(w) == mc[w].clock .. now

At(w, pc) == mc[w].pc = pc

\* (wrong: an error leaves the handle open)
TestResultKeepsHandle(w, ok, next) ==
  mc' = [mc EXCEPT ![w].pc = next, ![w].clock = now]

\* test_result: after an error the handle is closed, and the caller goes on.
TestResult(w, ok, next) ==
  mc' = [mc EXCEPT ![w].pc = next, ![w].clock = now,
                   ![w].is_closed = IF ok THEN @ ELSE TRUE]

\* The call ends, normally or by an exception, and the object is closed next.
Finish(w, result) ==
  mc' = [mc EXCEPT ![w].pc = "close", ![w].clock = now, ![w].result = result]

\* A SELECT ... LIMIT 1, or one whose rows are only counted: an error reads as
\* "no row".  tested: does the caller give its result to test_result?
Select(w, rows, tested, found, missing) ==
  \E ok \in Outcome(w) :
    \E row \in IF ok /\ rows # {} THEN rows ELSE {None} :
      mc' = [mc EXCEPT ![w].pc = IF row = None THEN missing ELSE found,
                       ![w].clock = now,
                       ![w].is_closed = IF ok \/ ~tested THEN @ ELSE TRUE,
                       ![w].row = row,
                       ![w].result = IF missing = "close" /\ row = None
                                     THEN "threw" ELSE @]

--------------------------------------------------------------------------------
(* Construction and the actions both kinds of call share.                  *)

Begin(w, task, n, s, h, rn) ==
  /\ At(w, "none")
  /\ mc' = [mc EXCEPT ![w] =
             [NoCall EXCEPT !.pc = "open", !.task = task, !.asnonceid = n,
                !.server = s, !.handle = h, !.response_nonce = rn,
                !.began = now, !.clock = now, !.is_closed = FALSE]]
  /\ UNCHANGED <<now, tables, history>>

\* start_authentication_session draws a nonce nobody has seen.
StartLogin(w, n) ==
  /\ n \notin known
  /\ known' = known \cup {n}
  /\ Begin(w, "checkid", n, None, None, None)

\* A browser learns a nonce from the redirect that ends the login's start, so
\* it never sends one whose start is still going on.
ReceiveResponse(w, n, s, h, rn) ==
  /\ \A v \in Worker : mc[v].task = "checkid" => mc[v].asnonceid # n
  /\ known' = known \cup {n}
  /\ Begin(w, "id_res", n, s, h, rn)

PrintTables(w) ==
  Begin(w, "print", None, None, None, None) /\ UNCHANGED known

\* The constructor: sqlite3_open and three CREATE TABLE IF NOT EXISTS.
Open(w) ==
  /\ At(w, "open")
  /\ \E ok \in Outcome(w) :
       mc' = [mc EXCEPT ![w].pc = IF mc[w].task = "checkid" THEN "begin_queueing"
                                  ELSE "ween_expired",
                        ![w].then = IF mc[w].task = "print" THEN "print"
                                    ELSE "retrieve_assoc",
                        ![w].clock = now,
                        ![w].is_closed = IF ok THEN @ ELSE TRUE]
  /\ UNCHANGED <<now, tables, known, history>>

\* (wrong: a row is dropped in its last second)
WeenExpiring(w) ==
  /\ At(w, "ween_expired")
  /\ \E k \in Weenings(w), rawtime \in Sample(w) :
       LET Kept(table, i) ==
             IF k < i THEN table ELSE {r \in table : ~(rawtime >= r.expires_on)}
       IN /\ associations' = Kept(associations, 1)
          /\ authentication_sessions' = Kept(authentication_sessions, 2)
          /\ response_nonces' = Kept(response_nonces, 3)
          /\ TestResult(w, k = 3, mc[w].then)
  /\ UNCHANGED <<now, known, history>>

WeenExpired(w) ==
  /\ At(w, "ween_expired")
  /\ \E k \in Weenings(w), rawtime \in Sample(w) :
       LET Kept(table, i) ==
             IF k < i THEN table ELSE {r \in table : ~(rawtime > r.expires_on)}
       IN /\ associations' = Kept(associations, 1)
          /\ authentication_sessions' = Kept(authentication_sessions, 2)
          /\ response_nonces' = Kept(response_nonces, 3)
          /\ TestResult(w, k = 3, mc[w].then)
  /\ UNCHANGED <<now, known, history>>

\* SELECT ... FROM associations WHERE server = ...: the caller of checkid_ goes
\* on to associate when there is none; check_nonce throws failed_lookup.
FindAssoc(w) ==
  /\ At(w, "find_assoc")
  /\ LET rows == {a \in associations : a.server = mc[w].server}
     IN IF mc[w].task = "checkid"
        THEN Select(w, rows, TRUE, "get_endpoint_uri", "associate")
        ELSE Select(w, rows, TRUE, "insert_nonce", "close")
  /\ UNCHANGED <<now, tables, known, history>>

--------------------------------------------------------------------------------
(* Starting a login: initiate, checkid_, get_endpoint.                     *)

BeginQueueing(w) ==
  /\ At(w, "begin_queueing")
  /\ \E ok \in Outcome(w) :
       /\ authentication_sessions' =
            {a \in authentication_sessions : ok => a.nonce # mc[w].asnonceid}
       /\ TestResult(w, ok, "discover")
  /\ UNCHANGED <<now, associations, response_nonces, known, history>>

\* (wrong: every endpoint is queued)
QueueEveryEndpoint(w, uri) ==
  /\ At(w, "discover")
  /\ \E ok \in Outcome(w), rawtime \in Sample(w) :
       /\ authentication_sessions' = authentication_sessions \cup
            {a \in {[nonce |-> mc[w].asnonceid, uri |-> uri,
                     expires_on |-> ToInt(rawtime + Hour)]} : ok}
       /\ mc' = [mc EXCEPT ![w].clock = now, ![w].endpoint_set = TRUE,
                           ![w].is_closed = IF ok THEN @ ELSE TRUE]
  /\ UNCHANGED <<now, associations, response_nonces, known, history>>

\* Discovery has found an endpoint.  Only the first call does anything.
QueueEndpoint(w, uri) ==
  /\ At(w, "discover")
  /\ ~mc[w].endpoint_set
  /\ \E ok \in Outcome(w), rawtime \in Sample(w) :
       /\ authentication_sessions' = authentication_sessions \cup
            {a \in {[nonce |-> mc[w].asnonceid, uri |-> uri,
                     expires_on |-> ToInt(rawtime + Hour)]} : ok}
       /\ mc' = [mc EXCEPT ![w].clock = now, ![w].endpoint_set = TRUE,
                           ![w].is_closed = IF ok THEN @ ELSE TRUE]
  /\ UNCHANGED <<now, associations, response_nonces, known, history>>

\* Discovery is over, with or without endpoints (a column no one reads back is
\* updated), or it throws.
SetNormalizedId(w) ==
  /\ At(w, "discover")
  /\ \E ok \in Outcome(w) : TestResult(w, ok, "get_endpoint")
  /\ UNCHANGED <<now, tables, known, history>>

DiscoveryFails(w) ==
  /\ At(w, "discover")
  /\ Finish(w, "threw")
  /\ UNCHANGED <<now, tables, known, history>>

Endpoints(w) == {a \in authentication_sessions : a.nonce = mc[w].asnonceid}

\* get_endpoint inside checkid_: it does not close the handle on an error.
GetEndpoint(w) ==
  /\ At(w, "get_endpoint")
  /\ \E ok \in Outcome(w) :
       \/ /\ ~ok \/ Endpoints(w) = {}
          /\ Finish(w, "threw")
       \/ /\ ok
          /\ \E a \in Endpoints(w) :
               mc' = [mc EXCEPT ![w].pc = "ween_expired", ![w].then = "find_assoc",
                                ![w].clock = now, ![w].server = a.uri]
  /\ UNCHANGED <<now, tables, known, history>>

\* The association request to the provider fails.
AssociateFails(w) ==
  /\ At(w, "associate")
  /\ Finish(w, "threw")
  /\ UNCHANGED <<now, tables, known, history>>

\* The provider grants an association; store_assoc weens first.
Associate(w, h) ==
  /\ At(w, "associate")
  /\ \A a \in associations : <<a.server, a.handle>> # <<mc[w].server, h>>
  /\ \A v \in Worker : <<mc[v].task, mc[v].handle>> # <<"checkid", h>>
  /\ mc' = [mc EXCEPT ![w].pc = "ween_expired", ![w].then = "store_assoc",
                      ![w].clock = now, ![w].handle = h]
  /\ UNCHANGED <<now, tables, known, history>>

\* (wrong: the columns of the INSERT are swapped)
StoreAssocSwapped(w, expires_in) ==
  /\ At(w, "store_assoc")
  /\ \E ok \in Outcome(w), rawtime \in Sample(w) :
       /\ associations' = associations \cup
            {a \in {[server |-> mc[w].handle, handle |-> mc[w].server,
                     expires_on |-> ToInt(rawtime + expires_in)]} : ok}
       /\ TestResult(w, ok, "get_endpoint_uri")
  /\ UNCHANGED <<now, authentication_sessions, response_nonces, known, history>>

StoreAssoc(w, expires_in) ==
  /\ At(w, "store_assoc")
  /\ \E ok \in Outcome(w), rawtime \in Sample(w) :
       /\ associations' = associations \cup
            {a \in {[server |-> mc[w].server, handle |-> mc[w].handle,
                     expires_on |-> ToInt(rawtime + expires_in)]} : ok}
       /\ TestResult(w, ok, "get_endpoint_uri")
  /\ UNCHANGED <<now, authentication_sessions, response_nonces, known, history>>

\* get_endpoint().uri: where the browser is sent with checkid_'s message.
GetEndpointUri(w) ==
  /\ At(w, "get_endpoint_uri")
  /\ \E ok \in Outcome(w) :
       \/ /\ ~ok \/ Endpoints(w) = {}
          /\ Finish(w, "threw")
       \/ /\ ok
          /\ \E a \in Endpoints(w) :
               mc' = [mc EXCEPT ![w].pc = "close", ![w].clock = now,
                                ![w].row = a, ![w].result = "redirect"]
  /\ UNCHANGED <<now, tables, known, history>>

--------------------------------------------------------------------------------
(* Validating a response: id_res, session_exists, kill_session.            *)

\* Verified by association when there is one, by the provider itself otherwise.
RetrieveAssoc(w) ==
  /\ At(w, "retrieve_assoc")
  /\ Select(w, {a \in associations : a.server = mc[w].server /\ a.handle = mc[w].handle},
            TRUE, "verify", "check_authentication")
  /\ UNCHANGED <<now, tables, known, history>>

VerifySignature(w) ==
  /\ At(w, "verify")
  /\ \/ TestResult(w, TRUE, "check_nonce")
     \/ Finish(w, "threw")
  /\ UNCHANGED <<now, tables, known, history>>

\* The provider answers check_authentication with an invalidate_handle.
InvalidateAssoc(w, h) ==
  /\ At(w, "check_authentication")
  /\ \E ok \in Outcome(w) :
       /\ associations' = {a \in associations :
                             ok => <<a.server, a.handle>> # <<mc[w].server, h>>}
       /\ TestResult(w, ok, "verdict")
  /\ UNCHANGED <<now, authentication_sessions, response_nonces, known, history>>

\* ... and with is_valid; or the request fails.
Verdict(w) ==
  /\ mc[w].pc \in {"check_authentication", "verdict"}
  /\ \/ TestResult(w, TRUE, "check_nonce")
     \/ Finish(w, "threw")
  /\ UNCHANGED <<now, tables, known, history>>

\* The first half of check_nonce: SELECT nonce FROM response_nonces.  The table
\* has no column of that name, so SQLite answers with an error and no rows; the
\* result code is not tested, and no nonce is ever found.
CheckNonce(w) ==
  /\ At(w, "check_nonce")
  /\ mc' = [mc EXCEPT ![w].pc = "ween_expired", ![w].then = "find_assoc",
                      ![w].clock = now]
  /\ UNCHANGED <<now, tables, known, history>>

\* The second half.  The association find_assoc has built from its row gives
\* the absolute expires_on back as expires_in().
InsertNonce(w) ==
  /\ At(w, "insert_nonce")
  /\ \E ok \in Outcome(w), rawtime \in Sample(w) :
       /\ response_nonces' = response_nonces \cup
            {r \in {[server |-> mc[w].server, response_nonce |-> mc[w].response_nonce,
                     expires_on |-> ToInt(mc[w].row.expires_on + rawtime)]} : ok}
       /\ recorded' = recorded \cup
            {r \in {<<mc[w].server, mc[w].response_nonce>>} : ok}
       /\ TestResult(w, ok, "id_res_end")
  /\ UNCHANGED <<now, associations, authentication_sessions, known, redeemed>>

\* id_res checks return_to and the claimed identity, and may throw.
EndIdRes(w) ==
  /\ At(w, "id_res_end")
  /\ \/ TestResult(w, TRUE, "session_exists")
     \/ Finish(w, "threw")
  /\ UNCHANGED <<now, tables, known, history>>

SessionExists(w) ==
  /\ At(w, "session_exists")
  /\ \E ok \in Outcome(w) :
       \/ /\ ~ok \/ Endpoints(w) = {}
          /\ mc' = [mc EXCEPT ![w].pc = "close", ![w].clock = now,
                              ![w].is_closed = IF ok THEN @ ELSE TRUE,
                              ![w].result = "unknown"]
       \/ /\ ok
          /\ \E a \in Endpoints(w) :
               mc' = [mc EXCEPT ![w].pc = "accepted", ![w].clock = now, ![w].row = a]
  /\ UNCHANGED <<now, tables, known, history>>

\* The handler refuses the identity (attributes, authorization program).
Refuse(w) ==
  /\ At(w, "accepted")
  /\ Finish(w, "refused")
  /\ UNCHANGED <<now, tables, known, history>>

\* (wrong: the DELETE goes to the wrong column and removes nothing)
KillNothing(w) ==
  /\ At(w, "accepted")
  /\ \E ok \in Outcome(w) :
       /\ redeemed' = redeemed \cup {n \in {mc[w].asnonceid} : ok}
       /\ mc' = [mc EXCEPT ![w].pc = "close", ![w].clock = now,
                           ![w].is_closed = IF ok THEN @ ELSE TRUE,
                           ![w].result = "granted"]
  /\ UNCHANGED <<now, tables, known, recorded>>

\* The handler takes the identity.  It does not learn whether the DELETE failed.
KillSession(w) ==
  /\ At(w, "accepted")
  /\ \E ok \in Outcome(w) :
       /\ authentication_sessions' =
            {a \in authentication_sessions : ok => a.nonce # mc[w].asnonceid}
       /\ redeemed' = redeemed \cup {n \in {mc[w].asnonceid} : ok}
       /\ mc' = [mc EXCEPT ![w].pc = "close", ![w].clock = now,
                           ![w].is_closed = IF ok THEN @ ELSE TRUE,
                           ![w].result = "granted"]
  /\ UNCHANGED <<now, associations, response_nonces, known, recorded>>

--------------------------------------------------------------------------------

\* print_sqlite_table closes nothing, whatever the SELECTs answer.
PrintRows(w) ==
  /\ At(w, "print")
  /\ Finish(w, "printed")
  /\ UNCHANGED <<now, tables, known, history>>

\* is_closed is set before sqlite3_close and stays set if that fails.
Close(w) ==
  /\ At(w, "close")
  /\ mc' = [mc EXCEPT ![w].pc = "done", ![w].clock = now, ![w].is_closed = TRUE]
  /\ UNCHANGED <<now, tables, known, history>>

\* The handler has its answer and the object is gone.
Return(w) ==
  /\ At(w, "done")
  /\ mc' = [mc EXCEPT ![w] = NoCall]
  /\ UNCHANGED <<now, tables, known, history>>

\* The process is killed in the middle of a call.
Crash(w) ==
  /\ ~At(w, "none")
  /\ mc' = [mc EXCEPT ![w] = NoCall]
  /\ UNCHANGED <<now, tables, known, history>>

Tick ==
  /\ now < MaxTime
  /\ now' = now + 1
  /\ UNCHANGED <<tables, known, mc, history>>

\* Starting a login, one step.
LoginStep(w) ==
  \/ BeginQueueing(w)
  \/ \E uri \in Server : QueueEndpoint(w, uri)
  \/ SetNormalizedId(w) \/ DiscoveryFails(w) \/ GetEndpoint(w)
  \/ AssociateFails(w)
  \/ \E h \in Handle : Associate(w, h)
  \/ \E t \in AssocTerm : StoreAssoc(w, t)
  \/ GetEndpointUri(w)

\* Validating a response, one step.
ResponseStep(w) ==
  \/ RetrieveAssoc(w) \/ VerifySignature(w)
  \/ \E h \in Handle : InvalidateAssoc(w, h)
  \/ Verdict(w) \/ CheckNonce(w) \/ InsertNonce(w) \/ EndIdRes(w)
  \/ SessionExists(w)

\* What the handler decides about an accepted response.
Decide(w) == Refuse(w) \/ KillSession(w)

Statement(w) ==
  \/ Open(w) \/ WeenExpired(w) \/ FindAssoc(w) \/ LoginStep(w) \/ ResponseStep(w)
  \/ PrintRows(w) \/ Close(w)

Call(w) ==
  \/ \E n \in Nonce : StartLogin(w, n)
  \/ \E n \in Nonce, s \in Server, h \in Handle, rn \in ResponseNonce :
       ReceiveResponse(w, n, s, h, rn)
  \/ PrintTables(w)

Next ==
  \/ Tick
  \/ \E w \in Worker :
       Call(w) \/ Statement(w) \/ Decide(w) \/ Return(w) \/ Crash(w)

Spec == Init /\ [][Next]_vars

--------------------------------------------------------------------------------

\* What a worker's object and its call are made of.
Object ==
  [pc : {"none", "open", "ween_expired", "begin_queueing", "discover",
         "get_endpoint", "find_assoc", "associate", "store_assoc",
         "get_endpoint_uri", "retrieve_assoc", "verify", "check_authentication",
         "verdict", "check_nonce", "insert_nonce", "id_res_end",
         "session_exists", "accepted", "print", "close", "done"},
   then : {"none", "find_assoc", "store_assoc", "retrieve_assoc", "print"},
   task : {None, "checkid", "id_res", "print"},
   asnonceid : Nonce \cup {None},
   server : Server \cup {None},
   handle : Handle \cup {None},
   response_nonce : ResponseNonce \cup {None},
   began : StartTime .. MaxTime,
   clock : StartTime .. MaxTime,
   is_closed : BOOLEAN,
   endpoint_set : BOOLEAN,
   row : {None} \cup Association \cup AuthenticationSession,
   result : {None, "redirect", "threw", "unknown", "refused", "granted", "printed"}]

\* The values the variables range over.
TypeOK ==
  /\ now \in StartTime .. MaxTime
  /\ associations \subseteq Association
  /\ authentication_sessions \subseteq AuthenticationSession
  /\ response_nonces \subseteq ResponseNonceRow
  /\ known \subseteq Nonce
  /\ mc \in [Worker -> Object]
  /\ recorded \subseteq Server \X ResponseNonce
  /\ redeemed \subseteq Nonce

\* No response is accepted whose nonce was not recorded first, although no
\* caller learns that the INSERT of check_nonce failed: the failure closes the
\* handle, so session_exists finds nothing.  Whether the row stays is another
\* question (NonceKeptWithAssociation).
AcceptedNonceRecorded ==
  \A w \in Worker : At(w, "accepted") =>
    <<mc[w].server, mc[w].response_nonce>> \in recorded

\* No response is accepted for a login attempt whose hour was over when the
\* response arrived.  session_exists has no expiry condition: it relies on the
\* weening inside id_res, whose failure the code does not look at.
NoStaleLogin ==
  \A w \in Worker : At(w, "accepted") => mc[w].row.expires_on >= mc[w].began

\* A login attempt that kill_session has deleted never comes back, so no later
\* response is accepted for it, whatever the other handlers are doing.
KilledStaysDead ==
  \A a \in authentication_sessions : a.nonce \notin redeemed

\* checkid_ makes its message for the endpoint of one get_endpoint and
\* start_authentication_session sends the browser to the endpoint of another:
\* they are the same, the attempt is this handler's own, and it is registered for
\* no other endpoint.
OneEndpointPerLogin ==
  \A w \in Worker : mc[w].result = "redirect" =>
    /\ mc[w].row.uri = mc[w].server
    /\ mc[w].row.nonce = mc[w].asnonceid
    /\ \A a \in authentication_sessions : a.nonce = mc[w].asnonceid => a.uri = mc[w].server

\* No handler destroys what another still needs: a login attempt goes only when
\* it has expired or its own response is accepted, an association only when it
\* has expired or its provider says so.
DroppedOnlyWhenDue ==
  [][/\ \A a \in authentication_sessions \ authentication_sessions' :
          \/ a.expires_on < now
          \/ \E w \in Worker : At(w, "accepted") /\ mc[w].asnonceid = a.nonce
     /\ \A a \in associations \ associations' :
          \/ a.expires_on < now
          \/ \E w \in Worker : At(w, "check_authentication") /\ mc[w].server = a.server]_vars

\* The comment at MoidConsumer.h on check_nonce: a nonce is stored for the same
\* amount of time as the association, "at which point a replay attack is
\* impossible since assocation key is deleted".  So a response nonce that was
\* recorded is refused as long as the association that verifies it is stored.
ReplayRefused ==
  [][\A w \in Worker :
       /\ At(w, "check_nonce")
       /\ mc[w].row \in associations
       /\ <<mc[w].server, mc[w].response_nonce>> \in recorded
       => mc'[w].pc \in {"check_nonce", "close", "none"}]_vars

\* The same comment: the nonce stays "for same amount of time as the
\* association".  So it is not dropped while an unexpired association of its
\* provider is stored.
NonceKeptWithAssociation ==
  [][\A r \in response_nonces \ response_nonces', a \in associations :
       a.server = r.server => a.expires_on < now]_vars

\* The login attempts, seen through the objects.
Abstract(c) ==
  [phase |-> IF c.pc = "none" THEN "idle"
             ELSE IF c.pc = "accepted" THEN "admitted"
             ELSE IF c.pc \in {"close", "done"} THEN "answered" ELSE "pending",
   task |-> c.task, nonce |-> c.asnonceid, began |-> c.began,
   registered |-> c.endpoint_set,
   uri |-> IF c.result = "redirect" THEN c.row.uri ELSE None,
   result |-> c.result]

LA == INSTANCE LoginAttempts
        WITH attempts <- authentication_sessions, used <- known,
             visit <- [w \in Worker |-> Abstract(mc[w])]

\* The statements, with their failures, errors and crashes, implement login
\* attempts: none is lost within its hour, registered twice, admitted after it
\* has expired or been redeemed, or sent to another provider.
ImplementsAttempts == LA!Spec

================================================================================
