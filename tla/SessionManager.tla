----------------------------- MODULE SessionManager -----------------------------
(***************************************************************************)
(* SessionManager.cpp: the cookie sessions kept in the SQLite table        *)
(* "sessionmanager".  Every request handler (and db_info) constructs an    *)
(* object of its own, makes one call and closes it; the objects share the  *)
(* database file only.  One action is one SQL statement, which SQLite runs *)
(* atomically; other processes run theirs between two of them.             *)
(*                                                                         *)
(* A statement fails when SQLite returns an error (possible iff Faults:    *)
(* the 5 s busy timeout ran out, I/O error, full disk) and always fails    *)
(* after test_result has closed the handle: the callers of test_result     *)
(* ignore its answer and go on with the closed handle, which SQLite        *)
(* answers with SQLITE_MISUSE.                                             *)
(*                                                                         *)
(* Definitions marked "(wrong: ...)" are not used by the specification:    *)
(* they are slips a maintainer could make, which the properties catch.     *)
(***************************************************************************)
EXTENDS Integers, FiniteSets

CONSTANTS
  Worker,      \* processes: Apache children and the db_info tool
  SessionId,   \* values of make_rstring(32)
  Payload,     \* hostname, path, identity and username of a session
  Lifespan,    \* AuthOpenIDCookieLifespan, 0 if not given
  Day,         \* 86400
  StartTime,
  MaxTime,     \* the clock stops there
  IntMax,      \* largest int
  Faults,      \* can SQLite return an error?
  None

ASSUME ClockAssumption ==
  /\ StartTime \in Nat /\ MaxTime \in Nat /\ IntMax \in Nat
  /\ StartTime <= MaxTime
  /\ MaxTime <= IntMax            \* time_t still fits the %d of the queries
ASSUME LifespanAssumption ==
  /\ Lifespan \in 0 .. IntMax
  /\ Day \in 0 .. IntMax
ASSUME FaultsAssumption == Faults \in BOOLEAN
ASSUME NoneAssumption ==
  /\ None \notin SessionId
  /\ None \notin Payload
  /\ None \notin [session_id : SessionId, payload : Payload, expires_on : Int]
  /\ None \notin {"get_session", "store_session", "print_table"}

VARIABLES
  now,             \* time(0)
  sessionmanager,  \* rows of the table
  known,           \* ids that make_rstring has returned or a browser has sent
  sm               \* per worker: its SessionManager object and its call

vars == <<now, sessionmanager, known, sm>>

--------------------------------------------------------------------------------

\* An int holding the sum of two ints: two's complement wrap-around.
ToInt(n) == IF n > IntMax THEN n - 2 * (IntMax + 1) ELSE n

\* Seconds from storing a session to its expiry.
Term == IF Lifespan = 0 THEN Day ELSE Lifespan

Row == [session_id : SessionId, payload : Payload, expires_on : Int]

\* No SessionManager object: the worker is doing something else.
NoCall == [pc |-> "none", op |-> None, session_id |-> None, payload |-> None,
           began |-> StartTime, clock |-> StartTime, is_closed |-> TRUE,
           session |-> None]

Init ==
  /\ now = StartTime
  /\ sessionmanager = {}
  /\ known = {}
  /\ sm = [w \in Worker |-> NoCall]

\* The possible outcomes of the next statement on w's handle.
Outcome(w) ==
  IF sm[w].is_closed THEN {FALSE} ELSE IF Faults THEN BOOLEAN ELSE {TRUE}

\* What time() may have returned to w since its last statement.
Sample(w) == sm[w].clock .. now

\* (wrong: an error leaves the handle open)
TestResultKeepsHandle(w, ok, next) ==
  sm' = [sm EXCEPT ![w].pc = next, ![w].clock = now]

\* (wrong: a failed statement is tried again for ever)
TestResultRetries(w, ok, next) ==
  sm' = [sm EXCEPT ![w].pc = IF ok THEN next ELSE @, ![w].clock = now,
                   ![w].is_closed = IF ok THEN @ ELSE TRUE]

\* test_result: after an error the handle is closed, and the caller goes on.
TestResult(w, ok, next) ==
  sm' = [sm EXCEPT ![w].pc = next, ![w].clock = now,
                   ![w].is_closed = IF ok THEN @ ELSE TRUE]

\* The worker constructs the object for one call.
Begin(w, op, id, p) ==
  /\ sm[w].pc = "none"
  /\ sm' = [sm EXCEPT ![w] =
             [pc |-> "open", op |-> op, session_id |-> id, payload |-> p,
              began |-> now, clock |-> now, is_closed |-> FALSE,
              session |-> None]]
  /\ UNCHANGED <<now, sessionmanager>>

\* A browser learns an id from the response that follows store_session, so it
\* never sends the id of a store that is still going on.
GetSession(w, id) ==
  /\ \A v \in Worker : sm[v].op = "store_session" => sm[v].session_id # id
  /\ known' = known \cup {id}
  /\ Begin(w, "get_session", id, None)

\* The id is 32 random characters: a value never seen before.
StoreSession(w, id, p) ==
  /\ id \notin known
  /\ known' = known \cup {id}
  /\ Begin(w, "store_session", id, p)

PrintTable(w) == Begin(w, "print_table", None, None) /\ UNCHANGED known

\* The constructor: sqlite3_open, then CREATE TABLE IF NOT EXISTS.
Open(w) ==
  /\ sm[w].pc = "open"
  /\ \E ok \in Outcome(w) : TestResult(w, ok, "ween_expired")
  /\ UNCHANGED <<now, sessionmanager, known>>

\* (wrong: a session is dropped in its last second)
WeenExpiring(w) ==
  /\ sm[w].pc = "ween_expired"
  /\ \E ok \in Outcome(w), rawtime \in Sample(w) :
       /\ sessionmanager' = IF ok
                            THEN {r \in sessionmanager : ~(rawtime >= r.expires_on)}
                            ELSE sessionmanager
       /\ TestResult(w, ok, sm[w].op)
  /\ UNCHANGED <<now, known>>

WeenExpired(w) ==
  /\ sm[w].pc = "ween_expired"
  /\ \E ok \in Outcome(w), rawtime \in Sample(w) :
       /\ sessionmanager' = IF ok
                            THEN {r \in sessionmanager : ~(rawtime > r.expires_on)}
                            ELSE sessionmanager
       /\ TestResult(w, ok, sm[w].op)
  /\ UNCHANGED <<now, known>>

\* (wrong: no WHERE clause)
SelectAnySession(w) ==
  /\ sm[w].pc = "get_session"
  /\ \E ok \in Outcome(w) :
       LET found == {r \in sessionmanager : ok}
       IN \E s \in IF found = {} THEN {None} ELSE found :
            sm' = [sm EXCEPT ![w].pc = "close", ![w].clock = now,
                             ![w].is_closed = IF ok THEN @ ELSE TRUE, ![w].session = s]
  /\ UNCHANGED <<now, sessionmanager, known>>

\* The rest of get_session: no row, or no answer, leaves the identity empty.
SelectSession(w) ==
  /\ sm[w].pc = "get_session"
  /\ \E ok \in Outcome(w) :
       LET found == {r \in sessionmanager : ok /\ r.session_id = sm[w].session_id}
       IN \E s \in IF found = {} THEN {None} ELSE found :
            sm' = [sm EXCEPT ![w].pc = "close", ![w].clock = now,
                             ![w].is_closed = IF ok THEN @ ELSE TRUE, ![w].session = s]
  /\ UNCHANGED <<now, sessionmanager, known>>

\* (wrong: the columns of the INSERT are swapped)
InsertSwapped(w) ==
  /\ sm[w].pc = "store_session"
  /\ \E ok \in Outcome(w), rawtime \in Sample(w) :
       /\ sessionmanager' = sessionmanager \cup
            {r \in {[session_id |-> sm[w].payload, payload |-> sm[w].session_id,
                     expires_on |-> ToInt(rawtime + Term)]} : ok}
       /\ TestResult(w, ok, "close")
  /\ UNCHANGED <<now, known>>

\* The rest of store_session.
InsertSession(w) ==
  /\ sm[w].pc = "store_session"
  /\ \E ok \in Outcome(w), rawtime \in Sample(w) :
       /\ sessionmanager' = sessionmanager \cup
            {r \in {[session_id |-> sm[w].session_id, payload |-> sm[w].payload,
                     expires_on |-> ToInt(rawtime + Term)]} : ok}
       /\ TestResult(w, ok, "close")
  /\ UNCHANGED <<now, known>>

\* print_sqlite_table closes nothing, whatever the SELECT answers.
PrintRows(w) ==
  /\ sm[w].pc = "print_table"
  /\ TestResult(w, TRUE, "close")
  /\ UNCHANGED <<now, sessionmanager, known>>

\* is_closed is set before sqlite3_close and stays set if that fails.
Close(w) ==
  /\ sm[w].pc = "close"
  /\ sm' = [sm EXCEPT ![w].pc = "done", ![w].clock = now, ![w].is_closed = TRUE]
  /\ UNCHANGED <<now, sessionmanager, known>>

\* The caller has its answer and the object is gone.
Return(w) ==
  /\ sm[w].pc = "done"
  /\ sm' = [sm EXCEPT ![w] = NoCall]
  /\ UNCHANGED <<now, sessionmanager, known>>

\* The process is killed in the middle of a call.
Crash(w) ==
  /\ sm[w].pc # "none"
  /\ sm' = [sm EXCEPT ![w] = NoCall]
  /\ UNCHANGED <<now, sessionmanager, known>>

Tick ==
  /\ now < MaxTime
  /\ now' = now + 1
  /\ UNCHANGED <<sessionmanager, known, sm>>

\* The statements of a call in progress.
Statement(w) ==
  \/ Open(w) \/ WeenExpired(w) \/ SelectSession(w) \/ InsertSession(w)
  \/ PrintRows(w) \/ Close(w)

Call(w) ==
  \/ \E id \in SessionId : GetSession(w, id)
  \/ \E id \in SessionId, p \in Payload : StoreSession(w, id, p)
  \/ PrintTable(w)

Next ==
  \/ Tick
  \/ \E w \in Worker : Call(w) \/ Statement(w) \/ Return(w) \/ Crash(w)

\* A process that is inside a call is scheduled, and the busy timeout makes
\* every statement return.
Fairness == \A w \in Worker : WF_vars(Statement(w) \/ Return(w))

Spec == Init /\ [][Next]_vars

FairSpec == Spec /\ Fairness

--------------------------------------------------------------------------------

\* What a worker's object and its call are made of.
Object ==
  [pc : {"none", "open", "ween_expired", "get_session", "store_session",
         "print_table", "close", "done"},
   op : {None, "get_session", "store_session", "print_table"},
   session_id : SessionId \cup {None},
   payload : Payload \cup {None},
   began : StartTime .. MaxTime,
   clock : StartTime .. MaxTime,
   is_closed : BOOLEAN,
   session : Row \cup {None}]

\* The values the variables range over.
TypeOK ==
  /\ now \in StartTime .. MaxTime
  /\ sessionmanager \subseteq Row
  /\ known \subseteq SessionId
  /\ sm \in [Worker -> Object]

\* get_session has no expiry condition in its SELECT: it relies on the
\* ween_expired before it.  Still no session that had expired before the call
\* began is handed to has_valid_session, not even when ween_expired fails:
\* its failure closes the handle, so the SELECT that follows answers nothing.
NoExpiredSession ==
  \A w \in Worker : sm[w].session # None => sm[w].session.expires_on >= sm[w].began

\* A session id names one row for ever: whatever another worker stores, weens
\* or fails to store in the meantime, two rows with the same id but different
\* contents are never in the table (get_session takes any with LIMIT 1), and
\* what get_session has answered is a row that was stored under the id asked.
OneSessionPerId ==
  /\ \A r, s \in sessionmanager : r.session_id = s.session_id => r = s
  /\ \A w \in Worker : sm[w].session # None =>
       /\ sm[w].session.session_id = sm[w].session_id
       /\ \A r \in sessionmanager :
            r.session_id = sm[w].session_id => r = sm[w].session

\* The comment at SessionManager.h: "if lifespan is 0, let it expire in a day.
\* otherwise, expire in "lifespan" seconds": a row stored by a call lives for
\* that long, counted from the call.
StoredForLifespan ==
  [][\A r \in sessionmanager' \ sessionmanager :
       \E w \in Worker : /\ sm[w].session_id = r.session_id
                         /\ r.expires_on >= sm[w].began + Term]_vars

\* Every call returns: each error path of the code falls through to close().
CallReturns == \A w \in Worker : sm[w].pc # "none" ~> sm[w].pc = "none"

\* The abstract lease service, seen through the objects.
Abstract(c) ==
  [phase |-> IF c.pc = "none" THEN "idle"
             ELSE IF c.pc \in {"close", "done"} THEN "answered" ELSE "pending",
   op |-> IF c.op = "get_session" THEN "get"
          ELSE IF c.op = "store_session" THEN "store"
          ELSE IF c.op = "print_table" THEN "print" ELSE None,
   session_id |-> c.session_id, payload |-> c.payload, began |-> c.began,
   answer |-> c.session]

SL == INSTANCE SessionLeases
        WITH leases <- sessionmanager, call <- [w \in Worker |-> Abstract(sm[w])]

\* The statements, with their failures, errors and crashes, implement leases:
\* no session is lost before it expires, none is granted for a time other than
\* the configured one, and none is answered that had expired or whose id was
\* not asked for.
ImplementsLeases == SL!Spec

================================================================================
