-------------------------- MODULE SessionManagerProofs --------------------------
(***************************************************************************)
(* Theorems about SessionManager for every set of workers, ids and         *)
(* payloads, every lifespan and every clock, with the proofs TLAPS checks. *)
(***************************************************************************)
EXTENDS SessionManager, TLAPS

--------------------------------------------------------------------------------
(* Lemmas about the operators the statements are built from.               *)

LEMMA OutcomeType ==
  ASSUME NEW w \in Worker
  PROVE  /\ Outcome(w) \subseteq BOOLEAN
         /\ sm[w].is_closed => TRUE \notin Outcome(w)
  BY FaultsAssumption DEF Outcome

LEMMA TermType == Term \in Nat /\ Term <= IntMax
  BY LifespanAssumption, ClockAssumption DEF Term

LEMMA ToIntType ==
  ASSUME NEW n \in Int
  PROVE  ToInt(n) \in Int
  BY ClockAssumption DEF ToInt

LEMMA ToIntFits ==
  ASSUME NEW n \in Int, n <= IntMax
  PROVE  ToInt(n) = n
  BY ClockAssumption DEF ToInt

--------------------------------------------------------------------------------
(* Type correctness.                                                       *)

PC == {"none", "open", "ween_expired", "get_session", "store_session",
       "print_table", "close", "done"}

LEMMA OpType ==
  ASSUME TypeOK, NEW w \in Worker
  PROVE  /\ sm[w] \in Object
         /\ sm[w].op \in {None, "get_session", "store_session", "print_table"}
  BY DEF TypeOK, Object

LEMMA TestResultType ==
  ASSUME TypeOK, NEW w \in Worker, NEW ok \in BOOLEAN, NEW next \in PC,
         TestResult(w, ok, next)
  PROVE  /\ sm' \in [Worker -> Object]
         /\ \A v \in Worker \ {w} : sm'[v] = sm[v]
         /\ sm'[w].pc = next
         /\ sm'[w].clock = now
         /\ sm'[w].is_closed = IF ok THEN sm[w].is_closed ELSE TRUE
         /\ sm'[w].op = sm[w].op
         /\ sm'[w].session_id = sm[w].session_id
         /\ sm'[w].payload = sm[w].payload
         /\ sm'[w].began = sm[w].began
         /\ sm'[w].session = sm[w].session
<1> DEFINE new == [sm[w] EXCEPT !.pc = next, !.clock = now,
                     !.is_closed = IF ok THEN @ ELSE TRUE]
<1>1. new \in Object
  BY ZenonT(60) DEF TypeOK, Object, PC
<1>2. sm' = [sm EXCEPT ![w] = new]
  BY DEF TestResult, TypeOK
<1>3. sm' \in [Worker -> Object] /\ sm'[w] = new
  BY <1>1, <1>2 DEF TypeOK
<1>4. \A v \in Worker \ {w} : sm'[v] = sm[v]
  BY <1>2 DEF TypeOK
<1>5. sm[w] \in Object
  BY OpType
<1> QED
  BY <1>3, <1>4, <1>5 DEF Object

LEMMA NoCallType == NoCall \in Object
  BY ClockAssumption DEF NoCall, Object

LEMMA BeginType ==
  ASSUME TypeOK, NEW w \in Worker, NEW id \in SessionId \cup {None},
         NEW p \in Payload \cup {None},
         NEW op \in {"get_session", "store_session", "print_table"},
         Begin(w, op, id, p)
  PROVE  sm' \in [Worker -> Object]
<1>1. [pc |-> "open", op |-> op, session_id |-> id, payload |-> p,
       began |-> now, clock |-> now, is_closed |-> FALSE,
       session |-> None] \in Object
  BY DEF TypeOK, Object
<1> QED
  BY <1>1 DEF Begin, TypeOK

\* The statement a call is at belongs to the operation that was called.
OpMatches ==
  \A w \in Worker : /\ sm[w].pc # "none" => sm[w].op # None
                    /\ sm[w].pc \in {"get_session", "store_session", "print_table"}
                         => sm[w].op = sm[w].pc
                    /\ sm[w].op \in {"get_session", "store_session"}
                         => sm[w].session_id \in SessionId
                    /\ sm[w].op = "store_session" => sm[w].payload \in Payload

TypeInv == TypeOK /\ OpMatches

LEMMA InitTypeInv == Init => TypeInv
  BY NoCallType, ClockAssumption, NoneAssumption DEF Init, TypeInv, TypeOK, OpMatches, NoCall

LEMMA StepTypeInv == TypeInv /\ [Next]_vars => TypeInv'
<1> SUFFICES ASSUME TypeInv, [Next]_vars PROVE TypeInv'
  OBVIOUS
<1> USE DEF TypeInv
<1>1. CASE Tick
  BY <1>1, ClockAssumption DEF Tick, TypeOK, OpMatches
<1>2. ASSUME NEW w \in Worker, NEW id \in SessionId, GetSession(w, id)
      PROVE  TypeInv'
  <2>1. TypeOK'
    BY <1>2, BeginType DEF GetSession, Begin, TypeOK
  <2>2. OpMatches'
    BY <1>2, NoneAssumption DEF GetSession, Begin, TypeOK, OpMatches
  <2> QED
    BY <2>1, <2>2
<1>3. ASSUME NEW w \in Worker, NEW id \in SessionId, NEW p \in Payload,
             StoreSession(w, id, p)
      PROVE  TypeInv'
  <2>1. TypeOK'
    BY <1>3, BeginType DEF StoreSession, Begin, TypeOK
  <2>2. OpMatches'
    BY <1>3, NoneAssumption DEF StoreSession, Begin, TypeOK, OpMatches
  <2> QED
    BY <2>1, <2>2
<1>4. ASSUME NEW w \in Worker, PrintTable(w)
      PROVE  TypeInv'
  <2>1. TypeOK'
    BY <1>4, BeginType DEF PrintTable, Begin, TypeOK
  <2>2. OpMatches'
    BY <1>4, NoneAssumption DEF PrintTable, Begin, TypeOK, OpMatches
  <2> QED
    BY <2>1, <2>2
<1>5. ASSUME NEW w \in Worker, Open(w)
      PROVE  TypeInv'
  <2>1. TypeOK'
    BY <1>5, OutcomeType, TestResultType DEF Open, TypeOK, PC
  <2>2. OpMatches'
    BY <1>5 DEF Open, TestResult, TypeOK, OpMatches, NoCall
  <2> QED
    BY <2>1, <2>2
<1>6. ASSUME NEW w \in Worker, WeenExpired(w)
      PROVE  TypeInv'
  <2>1. PICK ok \in Outcome(w), rawtime \in Sample(w) :
          /\ sessionmanager' \subseteq sessionmanager
          /\ TestResult(w, ok, sm[w].op)
    BY <1>6 DEF WeenExpired
  <2>2. sm[w].op \in {"get_session", "store_session", "print_table"}
    BY <1>6 DEF WeenExpired, TypeOK, OpMatches, Object
  <2>5. ok \in BOOLEAN
    BY OutcomeType
  <2>3. TypeOK'
    BY <1>6, <2>1, <2>2, <2>5, TestResultType DEF WeenExpired, TypeOK, PC
  <2>4. OpMatches'
    <3>1. \A v \in Worker : /\ sm'[v].op = sm[v].op
                          /\ sm'[v].session_id = sm[v].session_id
                          /\ sm'[v].payload = sm[v].payload
                          /\ sm'[v].pc = IF v = w THEN sm[w].op ELSE sm[v].pc
      BY <2>1, <2>2, <2>5, TestResultType, ZenonT(60) DEF PC
    <3> QED
      BY <3>1, <2>2, NoneAssumption DEF OpMatches
  <2> QED
    BY <2>3, <2>4
<1>7. ASSUME NEW w \in Worker, SelectSession(w)
      PROVE  TypeInv'
  <2>1. PICK ok \in Outcome(w), s \in Row \cup {None} :
          sm' = [sm EXCEPT ![w].pc = "close", ![w].clock = now,
                           ![w].is_closed = IF ok THEN @ ELSE TRUE, ![w].session = s]
    BY <1>7, ZenonT(60) DEF SelectSession, TypeOK
  <2>2. [sm[w] EXCEPT !.pc = "close", !.clock = now,
           !.is_closed = IF ok THEN @ ELSE TRUE, !.session = s] \in Object
    <3>1. ok \in BOOLEAN /\ sm[w] \in Object /\ now \in StartTime .. MaxTime
      BY OutcomeType DEF TypeOK
    <3> QED
      BY <3>1, ZenonT(60) DEF Object
  <2>3. sm' = [sm EXCEPT ![w] = [sm[w] EXCEPT !.pc = "close", !.clock = now,
                 !.is_closed = IF ok THEN @ ELSE TRUE, !.session = s]]
    BY <2>1 DEF TypeOK
  <2>4. TypeOK'
    BY <1>7, <2>2, <2>3 DEF SelectSession, TypeOK
  <2>5. OpMatches'
    BY <1>7, <2>1 DEF SelectSession, TypeOK, OpMatches, NoCall
  <2> QED
    BY <2>4, <2>5
<1>8. ASSUME NEW w \in Worker, InsertSession(w)
      PROVE  TypeInv'
  <2>1. PICK ok \in Outcome(w), rawtime \in Sample(w) :
          /\ sessionmanager' = sessionmanager \cup
               {r \in {[session_id |-> sm[w].session_id, payload |-> sm[w].payload,
                        expires_on |-> ToInt(rawtime + Term)]} : ok}
          /\ TestResult(w, ok, "close")
    BY <1>8 DEF InsertSession
  <2>2. [session_id |-> sm[w].session_id, payload |-> sm[w].payload,
         expires_on |-> ToInt(rawtime + Term)] \in Row
    <3>1. sm[w].session_id \in SessionId /\ sm[w].payload \in Payload
      BY <1>8 DEF InsertSession, OpMatches
    <3>2. rawtime + Term \in Int
      BY TermType DEF Sample, TypeOK, Object
    <3> QED
      BY <3>1, <3>2, ToIntType DEF Row
  <2>3. TypeOK'
    BY <1>8, <2>1, <2>2, OutcomeType, TestResultType, ZenonT(60) DEF InsertSession, TypeOK, PC
  <2>4. OpMatches'
    BY <1>8, <2>1 DEF InsertSession, TestResult, TypeOK, OpMatches
  <2> QED
    BY <2>3, <2>4
<1>9. ASSUME NEW w \in Worker, PrintRows(w)
      PROVE  TypeInv'
  <2>1. TestResult(w, TRUE, "close")
    BY <1>9 DEF PrintRows
  <2>3. TypeOK'
    BY <1>9, <2>1, TestResultType DEF PrintRows, TypeOK, PC
  <2>4. OpMatches'
    <3>1. \A v \in Worker : /\ sm'[v].op = sm[v].op
                          /\ sm'[v].session_id = sm[v].session_id
                          /\ sm'[v].payload = sm[v].payload
                          /\ sm'[v].pc = IF v = w THEN "close" ELSE sm[v].pc
      BY <2>1, TestResultType DEF PC
    <3> QED
      BY <3>1, <1>9 DEF OpMatches, PrintRows
  <2> QED
    BY <2>3, <2>4
<1>10. ASSUME NEW w \in Worker, Close(w)
       PROVE  TypeInv'
  <2>1. [sm[w] EXCEPT !.pc = "done", !.clock = now, !.is_closed = TRUE] \in Object
    BY ZenonT(60) DEF TypeOK, Object
  <2>2. sm' = [sm EXCEPT ![w] = [sm[w] EXCEPT !.pc = "done", !.clock = now,
                                              !.is_closed = TRUE]]
    BY <1>10 DEF Close, TypeOK
  <2>3. TypeOK'
    BY <1>10, <2>1, <2>2 DEF Close, TypeOK
  <2>4. OpMatches'
    BY <1>10 DEF Close, TypeOK, OpMatches
  <2> QED
    BY <2>3, <2>4
<1>11. ASSUME NEW w \in Worker, Return(w) \/ Crash(w)
       PROVE  TypeInv'
  <2>1. TypeOK'
    BY <1>11, NoCallType DEF Return, Crash, TypeOK
  <2>2. OpMatches'
    BY <1>11, NoneAssumption DEF Return, Crash, TypeOK, OpMatches, NoCall
  <2> QED
    BY <2>1, <2>2
<1>12. CASE UNCHANGED vars
  BY <1>12 DEF vars, TypeOK, OpMatches
<1> QED
  BY <1>1, <1>2, <1>3, <1>4, <1>5, <1>6, <1>7, <1>8, <1>9, <1>10, <1>11, <1>12
     DEF Next, Call, Statement

\* Every reachable state is well typed, whatever the statements answer and
\* whichever processes crash.
THEOREM TypeCorrect == Spec => []TypeOK
<1>1. TypeInv /\ [Next]_vars => TypeInv'
  BY StepTypeInv
<1>2. TypeInv => TypeOK
  BY DEF TypeInv
<1> QED
  BY InitTypeInv, <1>1, <1>2, PTL DEF Spec

--------------------------------------------------------------------------------
(* What get_session answers.  Its SELECT has no expiry condition, so that  *)
(* no expired row is answered rests on three facts: the rows of the id     *)
(* were weened and the handle survived it (Weened), no row of that id is   *)
(* inserted afterwards (Apart, Pending), and ids are never drawn twice.    *)

\* Calls that store a session work on ids of their own.
Apart ==
  \A v, w \in Worker :
    /\ sm[v].op = "store_session"
    /\ \/ sm[w].op = "get_session"
       \/ sm[w].op = "store_session" /\ v # w
    => sm[v].session_id # sm[w].session_id

Seen ==
  /\ \A w \in Worker : sm[w].op \in {"get_session", "store_session"}
                         => sm[w].session_id \in known
  /\ \A r \in sessionmanager : r.session_id \in known

\* A store that has not inserted its row is the only one of its id.
Pending ==
  \A w \in Worker :
    sm[w].op = "store_session" /\ sm[w].pc \in {"open", "ween_expired", "store_session"}
      => \A r \in sessionmanager : r.session_id # sm[w].session_id

OneRowPerId == \A r, s \in sessionmanager : r.session_id = s.session_id => r = s

\* A lookup that may still read has removed what had expired.
Weened ==
  \A w \in Worker :
    sm[w].pc = "get_session" /\ ~sm[w].is_closed
      => \A r \in sessionmanager :
           r.session_id = sm[w].session_id => r.expires_on >= sm[w].began

Fetched ==
  \A w \in Worker : sm[w].session # None =>
    /\ sm[w].op = "get_session"
    /\ sm[w].session.session_id = sm[w].session_id
    /\ sm[w].session.expires_on >= sm[w].began
    /\ \A r \in sessionmanager :
         r.session_id = sm[w].session_id => r = sm[w].session

Clocks == \A w \in Worker : sm[w].pc # "none" => /\ sm[w].began <= sm[w].clock
                                                 /\ sm[w].clock <= now

Inv == TypeInv /\ Apart /\ Seen /\ Pending /\ OneRowPerId /\ Weened /\ Fetched /\ Clocks

LEMMA InvImplies == Inv => NoExpiredSession /\ OneSessionPerId
  BY DEF Inv, Fetched, OneRowPerId, NoExpiredSession, OneSessionPerId

LEMMA InitInv == Init => Inv
<1> SUFFICES ASSUME Init PROVE Inv
  OBVIOUS
<1>1. TypeInv
  BY InitTypeInv
<1>2. \A w \in Worker : sm[w] = NoCall
  BY DEF Init
<1> QED
  BY <1>1, <1>2, NoneAssumption
     DEF Init, NoCall, Inv, Apart, Seen, Pending, OneRowPerId, Weened, Fetched, Clocks

\* A step of w that stores nothing, fetches nothing and begins nothing.
Quiet(w) ==
  /\ sessionmanager' \subseteq sessionmanager
  /\ known' = known
  /\ now' = now
  /\ \A v \in Worker \ {w} : sm'[v] = sm[v]
  /\ sm'[w].op = sm[w].op
  /\ sm'[w].session_id = sm[w].session_id
  /\ sm'[w].began = sm[w].began
  /\ sm'[w].session = sm[w].session
  /\ sm'[w].clock = now
  /\ sm[w].pc \in {"open", "ween_expired", "print_table", "close"}
  /\ sm'[w].pc # "none"
  /\ sm[w].pc \in {"print_table", "close"} => sm'[w].pc \in {"close", "done"}
  /\ sm'[w].pc = "get_session" /\ ~sm'[w].is_closed
       => \A r \in sessionmanager' :
            r.session_id = sm[w].session_id => r.expires_on >= sm[w].began

LEMMA QuietStep ==
  ASSUME Inv, TypeInv', NEW w \in Worker, Quiet(w)
  PROVE  Inv'
<1> USE DEF Quiet
<1>0. now \in Int /\ \A v \in Worker : sm[v] \in Object /\ sm'[v] \in Object
  BY DEF Inv, TypeInv, TypeOK
<1>1. Apart'
  BY DEF Inv, Apart
<1>2. Seen'
  BY DEF Inv, Seen
<1>3. Pending'
  BY DEF Inv, Pending
<1>4. OneRowPerId'
  BY DEF Inv, OneRowPerId
<1>5. Weened'
  BY DEF Inv, Weened
<1>6. Fetched'
  BY DEF Inv, Fetched
<1>7. Clocks'
  BY <1>0 DEF Inv, Clocks, Object
<1> QED
  BY <1>1, <1>2, <1>3, <1>4, <1>5, <1>6, <1>7 DEF Inv

LEMMA OpenStep ==
  ASSUME Inv, TypeInv', NEW w \in Worker, Open(w)
  PROVE  Inv'
<1>1. PICK ok \in BOOLEAN : TestResult(w, ok, "ween_expired")
  BY OutcomeType DEF Open
<1>2. TypeOK
  BY DEF Inv, TypeInv
<1>3. Quiet(w)
  BY <1>1, <1>2, TestResultType, ZenonT(60) DEF Open, Quiet, PC
<1> QED
  BY <1>3, QuietStep

LEMMA WeenExpiredStep ==
  ASSUME Inv, TypeInv', NEW w \in Worker, WeenExpired(w)
  PROVE  Inv'
<1>1. PICK ok \in Outcome(w), rawtime \in Sample(w) :
        /\ sessionmanager' = IF ok
                             THEN {r \in sessionmanager : ~(rawtime > r.expires_on)}
                             ELSE sessionmanager
        /\ TestResult(w, ok, sm[w].op)
  BY DEF WeenExpired
<1>2. TypeOK /\ ok \in BOOLEAN
  BY OutcomeType DEF Inv, TypeInv
<1>3. sm[w].op \in {"get_session", "store_session", "print_table"}
  BY OpType, <1>2 DEF Inv, TypeInv, OpMatches, WeenExpired
<1>4. sm[w].began <= rawtime /\ sm[w].began \in Int /\ rawtime \in Int
  <2>1. sm[w].began <= sm[w].clock
    BY DEF Inv, Clocks, WeenExpired
  <2>2. sm[w].began \in Int /\ sm[w].clock \in Int /\ now \in Int
    BY <1>2, ClockAssumption DEF TypeOK, Object
  <2> QED
    BY <2>1, <2>2 DEF Sample
<1>5. \A r \in sessionmanager : r.expires_on \in Int
  BY <1>2 DEF TypeOK, Row
<1>6. sm'[w].pc = sm[w].op /\ (~sm'[w].is_closed => ok)
  BY <1>1, <1>2, <1>3, TestResultType DEF PC
<1>7. ok => \A r \in sessionmanager' : r.expires_on >= sm[w].began
  BY <1>1, <1>4, <1>5
<1>8. Quiet(w)
  <2>1. sessionmanager' \subseteq sessionmanager
    BY <1>1
  <2> QED
    BY <2>1, <1>1, <1>2, <1>3, <1>6, <1>7, TestResultType DEF WeenExpired, Quiet, PC
<1> QED
  BY <1>8, QuietStep

LEMMA PrintRowsStep ==
  ASSUME Inv, TypeInv', NEW w \in Worker, PrintRows(w)
  PROVE  Inv'
<1>1. TypeOK
  BY DEF Inv, TypeInv
<1>2. Quiet(w)
  BY <1>1, TestResultType DEF PrintRows, Quiet, PC
<1> QED
  BY <1>2, QuietStep

LEMMA CloseStep ==
  ASSUME Inv, TypeInv', NEW w \in Worker, Close(w)
  PROVE  Inv'
<1>1. sm[w] \in Object /\ sm \in [Worker -> Object]
  BY DEF Inv, TypeInv, TypeOK
<1>2. Quiet(w)
  BY <1>1 DEF Close, Quiet, Object
<1> QED
  BY <1>2, QuietStep

LEMMA SelectSessionStep ==
  ASSUME Inv, TypeInv', NEW w \in Worker, SelectSession(w)
  PROVE  Inv'
<1>0. /\ sm \in [Worker -> Object] /\ sm[w] \in Object /\ now \in Int
      /\ \A r \in sessionmanager : r \in Row
  BY DEF Inv, TypeInv, TypeOK
<1>1. PICK ok \in Outcome(w), s \in Row \cup {None} :
        /\ s # None => /\ ok
                       /\ s \in sessionmanager
                       /\ s.session_id = sm[w].session_id
        /\ sm' = [sm EXCEPT ![w].pc = "close", ![w].clock = now,
                            ![w].is_closed = IF ok THEN @ ELSE TRUE,
                            ![w].session = s]
  BY <1>0, ZenonT(60) DEF SelectSession
<1>2. /\ \A v \in Worker \ {w} : sm'[v] = sm[v]
      /\ sm'[w].pc = "close" /\ sm'[w].clock = now /\ sm'[w].session = s
      /\ sm'[w].op = sm[w].op /\ sm'[w].session_id = sm[w].session_id
      /\ sm'[w].began = sm[w].began
  BY <1>0, <1>1 DEF Object
<1>3. sm[w].pc = "get_session" /\ sm[w].op = "get_session"
  BY DEF SelectSession, Inv, TypeInv, OpMatches
<1>4. UNCHANGED <<now, sessionmanager, known>>
  BY DEF SelectSession
<1>5. Apart' /\ Seen' /\ Pending' /\ OneRowPerId' /\ Weened'
  BY <1>2, <1>3, <1>4 DEF Inv, Apart, Seen, Pending, OneRowPerId, Weened
<1>6. s # None => ~sm[w].is_closed
  BY <1>1, OutcomeType
<1>7. Fetched'
  <2>1. \A v \in Worker \ {w} : sm'[v] = sm[v]
    BY <1>2
  <2>2. s # None =>
          /\ s.session_id = sm[w].session_id
          /\ s.expires_on >= sm[w].began
          /\ \A r \in sessionmanager : r.session_id = sm[w].session_id => r = s
    BY <1>1, <1>3, <1>6 DEF Inv, Weened, OneRowPerId
  <2>3. sm'[w].session = s /\ sm'[w].op = "get_session"
        /\ sm'[w].session_id = sm[w].session_id /\ sm'[w].began = sm[w].began
    BY <1>2, <1>3
  <2> QED
    BY <1>4, <2>1, <2>2, <2>3 DEF Inv, Fetched
<1>8. Clocks'
  BY <1>0, <1>2, <1>3, <1>4 DEF Inv, Clocks, Object
<1> QED
  BY <1>5, <1>7, <1>8 DEF Inv

LEMMA InsertSessionStep ==
  ASSUME Inv, TypeInv', NEW w \in Worker, InsertSession(w)
  PROVE  Inv'
<1>1. PICK ok \in Outcome(w), rawtime \in Sample(w) :
        /\ sessionmanager' = sessionmanager \cup
             {r \in {[session_id |-> sm[w].session_id, payload |-> sm[w].payload,
                      expires_on |-> ToInt(rawtime + Term)]} : ok}
        /\ TestResult(w, ok, "close")
  BY DEF InsertSession
<1>2. TypeOK /\ ok \in BOOLEAN
  BY OutcomeType DEF Inv, TypeInv
<1>3. sm[w].pc = "store_session" /\ sm[w].op = "store_session"
  BY DEF InsertSession, Inv, TypeInv, OpMatches
<1>4. /\ \A v \in Worker \ {w} : sm'[v] = sm[v]
      /\ sm'[w].pc = "close" /\ sm'[w].clock = now
      /\ sm'[w].session = sm[w].session
      /\ sm'[w].op = sm[w].op /\ sm'[w].session_id = sm[w].session_id
      /\ sm'[w].began = sm[w].began
  BY <1>1, <1>2, TestResultType DEF PC
<1>5. /\ known' = known /\ now' = now
      /\ sessionmanager \subseteq sessionmanager'
      /\ \A r, s \in sessionmanager' \ sessionmanager : r = s
      /\ \A r \in sessionmanager' \ sessionmanager : r.session_id = sm[w].session_id
  BY <1>1 DEF InsertSession
<1>6. \A r \in sessionmanager : r.session_id # sm[w].session_id
  BY <1>3 DEF Inv, Pending
<1>7. Apart'
  BY <1>4, <1>5 DEF Inv, Apart
<1>8. Seen'
  BY <1>3, <1>4, <1>5 DEF Inv, Seen
<1>9. Pending'
  BY <1>3, <1>4, <1>5 DEF Inv, Pending, Apart
<1>10. OneRowPerId'
  BY <1>5, <1>6 DEF Inv, OneRowPerId
<1>11. \A v \in Worker : sm[v].op = "get_session" =>
         \A r \in sessionmanager' : r.session_id = sm[v].session_id
                                      => r \in sessionmanager
  BY <1>3, <1>5 DEF Inv, Apart
<1>12. Weened'
  BY <1>3, <1>4, <1>11 DEF Inv, TypeInv, OpMatches, Weened
<1>13. Fetched'
  BY <1>3, <1>4, <1>11 DEF Inv, Fetched
<1>14. Clocks'
  <2>1. now \in Int /\ \A v \in Worker : sm[v].began \in Int /\ sm[v].clock \in Int
    BY <1>2, ClockAssumption DEF TypeOK, Object
  <2> QED
    BY <2>1, <1>3, <1>4, <1>5 DEF Inv, Clocks
<1> QED
  BY <1>7, <1>8, <1>9, <1>10, <1>12, <1>13, <1>14 DEF Inv

LEMMA BeginStep ==
  ASSUME Inv, TypeInv', NEW w \in Worker,
         NEW op \in {"get_session", "store_session", "print_table"},
         NEW id, NEW p, Begin(w, op, id, p),
         known \subseteq known',
         op \in {"get_session", "store_session"} => id \in known',
         op = "store_session" => id \notin known,
         op = "get_session" => \A v \in Worker : sm[v].op = "store_session"
                                                   => sm[v].session_id # id
  PROVE  Inv'
<1>1. /\ sm \in [Worker -> Object] /\ now \in Int
  BY ClockAssumption DEF Inv, TypeInv, TypeOK
<1>2. /\ \A v \in Worker \ {w} : sm'[v] = sm[v]
      /\ sm'[w].pc = "open" /\ sm'[w].clock = now /\ sm'[w].session = None
      /\ sm'[w].op = op /\ sm'[w].session_id = id
      /\ sm'[w].began = now
      /\ UNCHANGED <<now, sessionmanager>>
  BY <1>1 DEF Begin
<1>3. Apart'
  BY <1>2 DEF Inv, Apart, Seen
<1>4. Seen'
  BY <1>2 DEF Inv, Seen
<1>5. Pending'
  BY <1>2 DEF Inv, Pending, Seen
<1>6. OneRowPerId'
  BY <1>2 DEF Inv, OneRowPerId
<1>7. Weened' /\ Fetched'
  BY <1>2 DEF Inv, Weened, Fetched
<1>8. Clocks'
  BY <1>1, <1>2 DEF Inv, Clocks
<1> QED
  BY <1>3, <1>4, <1>5, <1>6, <1>7, <1>8 DEF Inv

LEMMA ReturnStep ==
  ASSUME Inv, TypeInv', NEW w \in Worker, Return(w) \/ Crash(w)
  PROVE  Inv'
<1>1. sm \in [Worker -> Object]
  BY DEF Inv, TypeInv, TypeOK
<1>2. /\ \A v \in Worker \ {w} : sm'[v] = sm[v]
      /\ sm'[w].pc = "none" /\ sm'[w].op = None /\ sm'[w].session = None
      /\ UNCHANGED <<now, sessionmanager, known>>
  BY <1>1 DEF Return, Crash, NoCall
<1>3. Apart' /\ Seen' /\ Pending' /\ OneRowPerId'
  BY <1>2, NoneAssumption DEF Inv, Apart, Seen, Pending, OneRowPerId
<1>4. Weened' /\ Fetched' /\ Clocks'
  BY <1>2 DEF Inv, Weened, Fetched, Clocks
<1> QED
  BY <1>3, <1>4 DEF Inv

LEMMA StepInv == Inv /\ [Next]_vars => Inv'
<1> SUFFICES ASSUME Inv, [Next]_vars PROVE Inv'
  OBVIOUS
<1>1. TypeInv'
  BY StepTypeInv DEF Inv
<1>2. CASE Tick
  <2>1. now \in Int /\ \A v \in Worker : sm[v].clock \in Int
    BY ClockAssumption DEF Inv, TypeInv, TypeOK, Object
  <2> QED
    BY <1>1, <1>2, <2>1
       DEF Tick, Inv, Apart, Seen, Pending, OneRowPerId, Weened, Fetched, Clocks
<1>3. ASSUME NEW w \in Worker, NEW id \in SessionId, GetSession(w, id)
      PROVE  Inv'
  <2>1. /\ Begin(w, "get_session", id, None)
        /\ known \subseteq known' /\ id \in known'
        /\ \A v \in Worker : sm[v].op = "store_session" => sm[v].session_id # id
    BY <1>3 DEF GetSession
  <2> QED
    BY <1>1, <2>1, BeginStep
<1>4. ASSUME NEW w \in Worker, NEW id \in SessionId, NEW p \in Payload,
             StoreSession(w, id, p)
      PROVE  Inv'
  BY <1>1, <1>4, BeginStep DEF StoreSession
<1>5. ASSUME NEW w \in Worker, PrintTable(w)
      PROVE  Inv'
  BY <1>1, <1>5, BeginStep DEF PrintTable
<1>6. ASSUME NEW w \in Worker, Statement(w)
      PROVE  Inv'
  BY <1>1, <1>6, OpenStep, WeenExpiredStep, SelectSessionStep, InsertSessionStep,
     PrintRowsStep, CloseStep DEF Statement
<1>7. CASE UNCHANGED vars
  BY <1>1, <1>7
     DEF vars, Inv, Apart, Seen, Pending, OneRowPerId, Weened, Fetched, Clocks
<1> QED
  BY <1>1, <1>2, <1>3, <1>4, <1>5, <1>6, <1>7, ReturnStep DEF Next, Call

\* No lookup is answered with a session that had expired before it began.
THEOREM NeverExpired == Spec => []NoExpiredSession
<1>1. Inv => NoExpiredSession
  BY InvImplies
<1> QED
  BY InitInv, StepInv, <1>1, PTL DEF Spec

\* A session id never names two rows, in the table or in an answer.
THEOREM IdsAreUnique == Spec => []OneSessionPerId
<1>1. Inv => OneSessionPerId
  BY InvImplies
<1> QED
  BY InitInv, StepInv, <1>1, PTL DEF Spec

--------------------------------------------------------------------------------
(* Refinement: the statements implement the lease service.                 *)

\* The lease service's view of the calls.
AbsCall == [w \in Worker |-> Abstract(sm[w])]

\* A step that changes at most w's view changes AbsCall there only.
LEMMA AbsCallStep ==
  ASSUME NEW w \in Worker, \A v \in Worker \ {w} : sm'[v] = sm[v]
  PROVE  AbsCall' = [AbsCall EXCEPT ![w] = Abstract(sm'[w])]
<1>1. AbsCall' = [v \in Worker |-> Abstract(sm'[v])]
  BY DEF AbsCall
<1>2. \A v \in Worker \ {w} : Abstract(sm'[v]) = AbsCall[v]
  BY DEF AbsCall
<1>3. AbsCall = [v \in Worker |-> AbsCall[v]]
  BY DEF AbsCall
<1> QED
  BY <1>1, <1>2, <1>3

LEMMA AbstractIdle == Abstract(NoCall) = SL!Idle
  BY NoneAssumption DEF Abstract, NoCall, SL!Idle

\* The view of a call that a step answers.
LEMMA AbstractAnswered ==
  ASSUME NEW w \in Worker, NEW a, sm[w].pc \notin {"none", "close", "done"},
         sm'[w].pc = "close", sm'[w].op = sm[w].op,
         sm'[w].session_id = sm[w].session_id, sm'[w].payload = sm[w].payload,
         sm'[w].began = sm[w].began, sm'[w].session = a,
         \A v \in Worker \ {w} : sm'[v] = sm[v]
  PROVE  /\ AbsCall' = [AbsCall EXCEPT ![w] = SL!Answered(@, a)]
         /\ AbsCall[w].phase = "pending"
<1>1. Abstract(sm'[w]) = SL!Answered(Abstract(sm[w]), a)
  BY DEF Abstract, SL!Answered
<1>2. AbsCall[w] = Abstract(sm[w])
  BY DEF AbsCall
<1>3. Abstract(sm[w]).phase = "pending"
  BY DEF Abstract
<1> QED
  BY <1>1, <1>2, <1>3, AbsCallStep

LEMMA InitRefines == Init => SL!Init
  BY AbstractIdle DEF Init, SL!Init

LEMMA OpenRefines ==
  ASSUME Inv, NEW w \in Worker, Open(w)
  PROVE  UNCHANGED <<now, sessionmanager, AbsCall>>
<1>1. PICK ok \in BOOLEAN : TestResult(w, ok, "ween_expired")
  BY OutcomeType DEF Open
<1>2. TypeOK
  BY DEF Inv, TypeInv
<1>3. Abstract(sm'[w]) = Abstract(sm[w])
  BY <1>1, <1>2, TestResultType, ZenonT(60) DEF Open, Abstract, PC
<1>4. \A v \in Worker \ {w} : sm'[v] = sm[v]
  BY <1>1, <1>2, TestResultType DEF PC
<1> QED
  BY <1>3, <1>4 DEF Open, AbsCall

LEMMA CloseRefines ==
  ASSUME Inv, NEW w \in Worker, Close(w)
  PROVE  UNCHANGED <<now, sessionmanager, AbsCall>>
<1>1. sm[w] \in Object /\ sm \in [Worker -> Object]
  BY DEF Inv, TypeInv, TypeOK
<1>2. Abstract(sm'[w]) = Abstract(sm[w])
  BY <1>1 DEF Close, Abstract, Object
<1>3. \A v \in Worker \ {w} : sm'[v] = sm[v]
  BY <1>1 DEF Close
<1> QED
  <2>1. UNCHANGED <<now, sessionmanager>>
    BY DEF Close
  <2> QED
    BY <1>2, <1>3, <2>1 DEF AbsCall

LEMMA WeenExpiredRefines ==
  ASSUME Inv, NEW w \in Worker, WeenExpired(w)
  PROVE  SL!Purge
<1>1. PICK ok \in Outcome(w), rawtime \in Sample(w) :
        /\ sessionmanager' = IF ok
                             THEN {r \in sessionmanager : ~(rawtime > r.expires_on)}
                             ELSE sessionmanager
        /\ TestResult(w, ok, sm[w].op)
  BY DEF WeenExpired
<1>2. TypeOK /\ ok \in BOOLEAN
  BY OutcomeType DEF Inv, TypeInv
<1>3. sm[w].op \in {"get_session", "store_session", "print_table"}
  BY OpType, <1>2 DEF Inv, TypeInv, OpMatches, WeenExpired
<1>4. Abstract(sm'[w]) = Abstract(sm[w])
  BY <1>1, <1>2, <1>3, TestResultType, ZenonT(60) DEF WeenExpired, Abstract, PC
<1>5. \A v \in Worker \ {w} : sm'[v] = sm[v]
  BY <1>1, <1>2, <1>3, TestResultType DEF PC
<1>6. AbsCall' = AbsCall
  BY <1>4, <1>5 DEF AbsCall
<1>7. \A r \in sessionmanager : r.expires_on \in Int
  BY <1>2 DEF TypeOK, Row
<1>8. rawtime \in Int /\ now \in Int /\ rawtime <= now
  BY <1>2, OpType, ClockAssumption DEF Sample, TypeOK, Object
<1>9. \A r \in sessionmanager \ sessionmanager' : r.expires_on < now
  BY <1>1, <1>7, <1>8
<1>10. sessionmanager' = sessionmanager \ (sessionmanager \ sessionmanager')
  BY <1>1
<1> QED
  BY <1>6, <1>9, <1>10 DEF WeenExpired, SL!Purge, AbsCall

LEMMA SelectSessionRefines ==
  ASSUME Inv, Inv', NEW w \in Worker, SelectSession(w)
  PROVE  SL!Answer(w)
<1>0. sm \in [Worker -> Object] /\ sm[w] \in Object
  BY DEF Inv, TypeInv, TypeOK
<1>1. PICK ok \in Outcome(w), s \in sessionmanager \cup {None} :
        /\ s # None => s.session_id = sm[w].session_id
        /\ sm' = [sm EXCEPT ![w].pc = "close", ![w].clock = now,
                            ![w].is_closed = IF ok THEN @ ELSE TRUE,
                            ![w].session = s]
  BY DEF SelectSession
<1>2. /\ \A v \in Worker \ {w} : sm'[v] = sm[v]
      /\ sm'[w].pc = "close" /\ sm'[w].session = s
      /\ sm'[w].op = sm[w].op /\ sm'[w].session_id = sm[w].session_id
      /\ sm'[w].began = sm[w].began /\ sm'[w].payload = sm[w].payload
  BY <1>0, <1>1 DEF Object
<1>3. sm[w].pc = "get_session" /\ sm[w].op = "get_session"
  BY DEF SelectSession, Inv, TypeInv, OpMatches
<1>4. s # None => s.expires_on >= sm[w].began
  BY <1>2 DEF Inv, Fetched
<1>5. /\ AbsCall' = [AbsCall EXCEPT ![w] = SL!Answered(@, s)]
      /\ AbsCall[w].phase = "pending"
  BY <1>2, <1>3, AbstractAnswered
<1>6. /\ AbsCall[w].op = "get" /\ AbsCall[w].session_id = sm[w].session_id
      /\ AbsCall[w].began = sm[w].began
  BY <1>3 DEF AbsCall, Abstract
<1> QED
  BY <1>1, <1>4, <1>5, <1>6 DEF SelectSession, SL!Answer, AbsCall

LEMMA InsertSessionRefines ==
  ASSUME MaxTime + Term <= IntMax, Inv, NEW w \in Worker, InsertSession(w)
  PROVE  SL!Grant(w)
<1>1. PICK ok \in Outcome(w), rawtime \in Sample(w) :
        /\ sessionmanager' = sessionmanager \cup
             {r \in {[session_id |-> sm[w].session_id, payload |-> sm[w].payload,
                      expires_on |-> ToInt(rawtime + Term)]} : ok}
        /\ TestResult(w, ok, "close")
  BY DEF InsertSession
<1>2. TypeOK /\ ok \in BOOLEAN
  BY OutcomeType DEF Inv, TypeInv
<1>3. sm[w].pc = "store_session" /\ sm[w].op = "store_session"
  BY DEF InsertSession, Inv, TypeInv, OpMatches
<1>4. sm'[w].session = None
  <2>1. sm'[w].session = sm[w].session
    BY <1>1, <1>2, TestResultType DEF PC
  <2> QED
    BY <1>3, <2>1 DEF Inv, Fetched
<1>5. /\ \A v \in Worker \ {w} : sm'[v] = sm[v]
      /\ sm'[w].pc = "close" /\ sm'[w].op = sm[w].op
      /\ sm'[w].session_id = sm[w].session_id /\ sm'[w].payload = sm[w].payload
      /\ sm'[w].began = sm[w].began
  BY <1>1, <1>2, TestResultType DEF PC
<1>6. /\ AbsCall' = [AbsCall EXCEPT ![w] = SL!Answered(@, None)]
      /\ AbsCall[w].phase = "pending"
  BY <1>3, <1>4, <1>5, AbstractAnswered
<1>7. /\ AbsCall[w].op = "store" /\ AbsCall[w].session_id = sm[w].session_id
      /\ AbsCall[w].payload = sm[w].payload /\ AbsCall[w].began = sm[w].began
  BY <1>3 DEF AbsCall, Abstract
<1>8. ToInt(rawtime + Term) \in (sm[w].began + Term) .. (now + Term)
  <2>1. /\ sm[w].began \in Int /\ sm[w].clock \in Int
        /\ now \in Int /\ now <= MaxTime /\ MaxTime \in Int
    BY <1>2, OpType, ClockAssumption DEF TypeOK, Object
  <2>2. sm[w].began <= sm[w].clock
    BY <1>3 DEF Inv, Clocks
  <2>3. rawtime \in Int /\ sm[w].began <= rawtime /\ rawtime <= now
    BY <2>1, <2>2 DEF Sample
  <2>4. Term \in Int /\ IntMax \in Int
    BY TermType, ClockAssumption
  <2>5. ToInt(rawtime + Term) = rawtime + Term
    BY <2>1, <2>3, <2>4, ToIntFits
  <2> QED
    BY <2>1, <2>3, <2>4, <2>5
<1>9. \/ sessionmanager' = sessionmanager \cup
           {[session_id |-> sm[w].session_id, payload |-> sm[w].payload,
             expires_on |-> ToInt(rawtime + Term)]}
      \/ sessionmanager' = sessionmanager
  BY <1>1
<1> QED
  BY <1>6, <1>7, <1>8, <1>9 DEF InsertSession, SL!Grant, AbsCall

LEMMA PrintRowsRefines ==
  ASSUME Inv, NEW w \in Worker, PrintRows(w)
  PROVE  SL!List(w)
<1>1. TypeOK
  BY DEF Inv, TypeInv
<1>2. sm[w].pc = "print_table" /\ sm[w].op = "print_table"
  BY DEF PrintRows, Inv, TypeInv, OpMatches
<1>3. sm[w].session = None
  BY <1>2 DEF Inv, Fetched
<1>4. /\ \A v \in Worker \ {w} : sm'[v] = sm[v]
      /\ sm'[w].pc = "close" /\ sm'[w].op = sm[w].op
      /\ sm'[w].session_id = sm[w].session_id /\ sm'[w].payload = sm[w].payload
      /\ sm'[w].began = sm[w].began /\ sm'[w].session = sm[w].session
  BY <1>1, TestResultType DEF PrintRows, PC
<1>5. /\ AbsCall' = [AbsCall EXCEPT ![w] = SL!Answered(@, None)]
      /\ AbsCall[w].phase = "pending"
  BY <1>2, <1>3, <1>4, AbstractAnswered
<1>6. AbsCall[w].op = "print"
  BY <1>2 DEF AbsCall, Abstract
<1> QED
  BY <1>5, <1>6 DEF PrintRows, SL!List, AbsCall

LEMMA BeginRefines ==
  ASSUME Inv, NEW w \in Worker,
         NEW op \in {"get_session", "store_session", "print_table"},
         NEW id \in SessionId \cup {None}, NEW p \in Payload \cup {None},
         Begin(w, op, id, p)
  PROVE  \E o \in {"get", "store", "print"} : SL!Ask(w, o, id, p)
<1>1. sm \in [Worker -> Object]
  BY DEF Inv, TypeInv, TypeOK
<1> DEFINE o == IF op = "get_session" THEN "get"
                ELSE IF op = "store_session" THEN "store" ELSE "print"
<1>2. /\ \A v \in Worker \ {w} : sm'[v] = sm[v]
      /\ sm'[w] = [pc |-> "open", op |-> op, session_id |-> id, payload |-> p,
                   began |-> now, clock |-> now, is_closed |-> FALSE,
                   session |-> None]
  BY <1>1 DEF Begin
<1>3. Abstract(sm'[w]) = [phase |-> "pending", op |-> o, session_id |-> id,
                          payload |-> p, began |-> now, answer |-> None]
  BY <1>2 DEF Abstract
<1>4. AbsCall' = [AbsCall EXCEPT ![w] =
                   [phase |-> "pending", op |-> o, session_id |-> id,
                    payload |-> p, began |-> now, answer |-> None]]
  BY <1>2, <1>3, AbsCallStep
<1>5. AbsCall[w].phase = "idle"
  BY DEF AbsCall, Abstract, Begin
<1>6. o \in {"get", "store", "print"}
  OBVIOUS
<1> HIDE DEF o
<1> QED
  BY <1>4, <1>5, <1>6 DEF Begin, SL!Ask, AbsCall

LEMMA ReturnRefines ==
  ASSUME Inv, NEW w \in Worker, Return(w) \/ Crash(w)
  PROVE  SL!Leave(w)
<1>1. sm \in [Worker -> Object]
  BY DEF Inv, TypeInv, TypeOK
<1>2. \A v \in Worker \ {w} : sm'[v] = sm[v]
  BY <1>1 DEF Return, Crash
<1>3. sm'[w] = NoCall
  BY <1>1 DEF Return, Crash
<1>4. AbsCall' = [AbsCall EXCEPT ![w] = SL!Idle]
  BY <1>2, <1>3, AbsCallStep, AbstractIdle
<1>5. AbsCall[w].phase # "idle"
  BY DEF AbsCall, Abstract, Return, Crash
<1> QED
  BY <1>4, <1>5 DEF Return, Crash, SL!Leave, AbsCall

LEMMA StepRefines ==
  ASSUME MaxTime + Term <= IntMax
  PROVE  Inv /\ Inv' /\ [Next]_vars => [SL!Next]_(SL!vars)
<1> SUFFICES ASSUME Inv, Inv', [Next]_vars
             PROVE  SL!Next \/ UNCHANGED SL!vars
  OBVIOUS
<1>1. CASE Tick
  BY <1>1 DEF Tick, SL!Next, SL!Tick
<1>2. ASSUME NEW w \in Worker, NEW id \in SessionId, GetSession(w, id)
      PROVE  SL!Next
  BY <1>2, BeginRefines DEF GetSession, SL!Next
<1>3. ASSUME NEW w \in Worker, NEW id \in SessionId, NEW p \in Payload,
             StoreSession(w, id, p)
      PROVE  SL!Next
  BY <1>3, BeginRefines DEF StoreSession, SL!Next
<1>4. ASSUME NEW w \in Worker, PrintTable(w)
      PROVE  SL!Next
  BY <1>4, BeginRefines DEF PrintTable, SL!Next
<1>5. ASSUME NEW w \in Worker, Open(w) \/ Close(w)
      PROVE  UNCHANGED SL!vars
  BY <1>5, OpenRefines, CloseRefines DEF SL!vars, AbsCall
<1>6. ASSUME NEW w \in Worker,
             WeenExpired(w) \/ SelectSession(w) \/ InsertSession(w) \/ PrintRows(w)
      PROVE  SL!Next
  BY <1>6, WeenExpiredRefines, SelectSessionRefines, InsertSessionRefines,
     PrintRowsRefines DEF SL!Next
<1>7. ASSUME NEW w \in Worker, Return(w) \/ Crash(w)
      PROVE  SL!Next
  BY <1>7, ReturnRefines DEF SL!Next
<1>8. CASE UNCHANGED vars
  BY <1>8 DEF vars, SL!vars
<1> QED
  BY <1>1, <1>2, <1>3, <1>4, <1>5, <1>6, <1>7, <1>8 DEF Next, Call, Statement

\* As long as no expiry overflows an int, SessionManager is a lease service: the
\* failing statements, the closed handles and the crashes lose no lease early,
\* prolong none and answer none that had expired.
THEOREM Refinement ==
  ASSUME MaxTime + Term <= IntMax
  PROVE  Spec => ImplementsLeases
<1>1. Inv /\ Inv' /\ [Next]_vars => [SL!Next]_(SL!vars)
  BY StepRefines
<1> QED
  BY InitInv, StepInv, InitRefines, <1>1, PTL DEF Spec, ImplementsLeases, SL!Spec

--------------------------------------------------------------------------------

LEMMA InsertLasts ==
  ASSUME MaxTime + Term <= IntMax, Inv, NEW w \in Worker, InsertSession(w),
         NEW r \in sessionmanager' \ sessionmanager
  PROVE  r.session_id = sm[w].session_id /\ r.expires_on >= sm[w].began + Term
<1>1. PICK ok \in Outcome(w), rawtime \in Sample(w) :
        sessionmanager' = sessionmanager \cup
             {x \in {[session_id |-> sm[w].session_id, payload |-> sm[w].payload,
                      expires_on |-> ToInt(rawtime + Term)]} : ok}
  BY DEF InsertSession
<1>2. r = [session_id |-> sm[w].session_id, payload |-> sm[w].payload,
           expires_on |-> ToInt(rawtime + Term)]
  BY <1>1
<1>3. /\ sm[w].began \in Int /\ sm[w].clock \in Int
      /\ now \in Int /\ now <= MaxTime /\ MaxTime \in Int
  BY OpType, ClockAssumption DEF Inv, TypeInv, TypeOK, Object
<1>4. sm[w].began <= sm[w].clock
  BY DEF InsertSession, Inv, Clocks
<1>5. rawtime \in Int /\ sm[w].began <= rawtime /\ rawtime <= now
  BY <1>3, <1>4 DEF Sample
<1>6. Term \in Int /\ IntMax \in Int
  BY TermType, ClockAssumption
<1>7. ToInt(rawtime + Term) = rawtime + Term
  BY <1>3, <1>5, <1>6, ToIntFits
<1> QED
  BY <1>2, <1>3, <1>5, <1>6, <1>7

\* The overflow of expires_on is the only way for a session to be stored for
\* less than its lifespan: no interleaving, failure or crash does it.
THEOREM StoredLongEnough ==
  ASSUME MaxTime + Term <= IntMax
  PROVE  Spec => StoredForLifespan
<1> DEFINE Lasts ==
      \A r \in sessionmanager' \ sessionmanager :
        \E w \in Worker : /\ sm[w].session_id = r.session_id
                          /\ r.expires_on >= sm[w].began + Term
<1>1. Inv /\ [Next]_vars => [Lasts]_vars
  <2> SUFFICES ASSUME Inv, [Next]_vars, NEW r \in sessionmanager' \ sessionmanager
               PROVE  \E w \in Worker : /\ sm[w].session_id = r.session_id
                                        /\ r.expires_on >= sm[w].began + Term
    OBVIOUS
  <2>1. PICK w \in Worker : InsertSession(w)
    BY DEF Next, Call, Statement, vars, Tick, Begin, GetSession, StoreSession,
           PrintTable, Open, WeenExpired, SelectSession, PrintRows, Close, Return, Crash
  <2> QED
    BY <2>1, InsertLasts
<1> QED
  BY InitInv, StepInv, <1>1, PTL DEF Spec, StoredForLifespan

================================================================================
