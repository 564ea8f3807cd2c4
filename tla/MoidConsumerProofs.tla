--------------------------- MODULE MoidConsumerProofs ---------------------------
(***************************************************************************)
(* Theorems about MoidConsumer for every set of workers, nonces, servers   *)
(* and handles, every clock and every pattern of failing statements, with  *)
(* the proofs TLAPS checks.                                                *)
(***************************************************************************)
EXTENDS MoidConsumer, TLAPS

--------------------------------------------------------------------------------
(* The invariant.                                                          *)

LoginPC ==
  {"begin_queueing", "discover", "get_endpoint", "associate", "store_assoc",
   "get_endpoint_uri"}
ResponsePC ==
  {"retrieve_assoc", "verify", "check_authentication", "verdict", "check_nonce",
   "insert_nonce", "id_res_end", "session_exists", "accepted"}

\* An object is where its task takes it, with the values it needs there.
Local(c) ==
  /\ c.pc = "none" <=> c.task = None
  /\ c.pc \in LoginPC => c.task = "checkid"
  /\ c.pc \in ResponsePC => c.task = "id_res"
  /\ c.pc = "print" => c.task = "print"
  /\ c.pc = "find_assoc" => c.task \in {"checkid", "id_res"}
  /\ c.pc = "ween_expired" =>
       \/ c.then = "find_assoc" /\ c.task \in {"checkid", "id_res"}
       \/ c.then = "store_assoc" /\ c.task = "checkid" /\ c.handle \in Handle
       \/ c.then = "retrieve_assoc" /\ c.task = "id_res"
       \/ c.then = "print" /\ c.task = "print"
  /\ c.task \in {"checkid", "id_res"} => c.asnonceid \in Nonce
  /\ c.task = "id_res" =>
       c.server \in Server /\ c.handle \in Handle /\ c.response_nonce \in ResponseNonce
  /\ c.task = "checkid" /\ c.pc \in {"open", "begin_queueing", "discover", "get_endpoint"}
       => c.server = None
  /\ c.task = "checkid" /\ c.pc \in {"ween_expired", "find_assoc", "associate",
                                     "store_assoc", "get_endpoint_uri"}
       => c.server \in Server
  /\ c.pc \in {"open", "begin_queueing"} => ~c.endpoint_set
  /\ c.pc = "store_assoc" => c.handle \in Handle
  /\ c.pc = "insert_nonce" => c.row \in Association
  /\ c.pc = "accepted" => c.row \in AuthenticationSession
  /\ c.result # None => c.pc \in {"close", "done"}
  /\ c.pc # "none" => c.began <= c.clock

TypeInv == TypeOK /\ \A w \in Worker : Local(mc[w])

\* What the tables say of an object.  A login: nobody has redeemed its nonce,
\* nothing is registered under it before queue_endpoint, and what is registered
\* is the endpoint that the first get_endpoint read.
StartSound(c) ==
  c.task = "checkid" =>
    /\ c.asnonceid \notin redeemed
    /\ \A a \in authentication_sessions :
         a.nonce = c.asnonceid => c.endpoint_set /\ c.server \in {None, a.uri}

\* A response whose handle is still open: the rows of its attempt were weened.
HasWeened(c) ==
  /\ c.task = "id_res" /\ ~c.is_closed /\ c.pc \notin {"open", "close", "done"}
  /\ c.pc = "ween_expired" => c.then # "retrieve_assoc"
ResponseSound(c) ==
  HasWeened(c) =>
    \A a \in authentication_sessions : a.nonce = c.asnonceid => a.expires_on >= c.began

\* ... and after the INSERT of check_nonce the response nonce is recorded.
NonceSound(c) ==
  \/ c.pc \in {"id_res_end", "session_exists"} /\ ~c.is_closed
  \/ c.pc = "accepted"
  => <<c.server, c.response_nonce>> \in recorded

AnswerSound(c) ==
  /\ c.pc = "accepted" => c.row.expires_on >= c.began
  /\ c.result = "redirect" =>
       /\ c.task = "checkid" /\ c.row \in AuthenticationSession
       /\ c.row.uri = c.server /\ c.row.nonce = c.asnonceid

Sound(c) ==
  /\ c.clock <= now
  /\ StartSound(c) /\ ResponseSound(c) /\ NonceSound(c) /\ AnswerSound(c)

\* Starting a login is done under a nonce of its own.
Apart ==
  \A v, w \in Worker :
    /\ mc[v].task = "checkid"
    /\ \/ mc[w].task = "id_res"
       \/ mc[w].task = "checkid" /\ v # w
    => mc[v].asnonceid # mc[w].asnonceid

Seen ==
  /\ \A w \in Worker : mc[w].task \in {"checkid", "id_res"} => mc[w].asnonceid \in known
  /\ \A a \in authentication_sessions : a.nonce \in known
  /\ redeemed \subseteq known

OneRowPerNonce ==
  \A a, b \in authentication_sessions : a.nonce = b.nonce => a = b

Inv ==
  /\ TypeInv /\ Apart /\ Seen /\ OneRowPerNonce /\ KilledStaysDead
  /\ \A w \in Worker : Sound(mc[w])

LEMMA InvImplies ==
  Inv => /\ TypeOK /\ AcceptedNonceRecorded /\ NoStaleLogin /\ KilledStaysDead
         /\ OneEndpointPerLogin
<1>1. Inv => TypeOK /\ AcceptedNonceRecorded /\ NoStaleLogin /\ KilledStaysDead
  BY DEF Inv, TypeInv, Sound, NonceSound, AnswerSound, At, AcceptedNonceRecorded, NoStaleLogin
<1>2. ASSUME Inv, NEW w \in Worker, mc[w].result = "redirect"
      PROVE  /\ mc[w].row.uri = mc[w].server /\ mc[w].row.nonce = mc[w].asnonceid
             /\ \A a \in authentication_sessions :
                  a.nonce = mc[w].asnonceid => a.uri = mc[w].server
  <2>1. /\ mc[w].task = "checkid" /\ mc[w].row \in AuthenticationSession
        /\ mc[w].row.uri = mc[w].server /\ mc[w].row.nonce = mc[w].asnonceid
    BY <1>2 DEF Inv, Sound, AnswerSound
  <2>2. mc[w].server # None
    BY <2>1, NoneAssumption DEF AuthenticationSession
  <2>3. \A a \in authentication_sessions :
          a.nonce = mc[w].asnonceid => mc[w].server \in {None, a.uri}
    BY <1>2, <2>1 DEF Inv, Sound, StartSound
  <2> QED
    BY <2>1, <2>2, <2>3
<1> QED
  BY <1>1, <1>2 DEF OneEndpointPerLogin

--------------------------------------------------------------------------------
(* Lemmas about the operators the actions are built from.                  *)

LEMMA OutcomeType ==
  ASSUME NEW w \in Worker
  PROVE  /\ Outcome(w) \subseteq BOOLEAN
         /\ mc[w].is_closed => TRUE \notin Outcome(w)
  BY FaultsAssumption DEF Outcome

LEMMA ToIntType ==
  ASSUME NEW n \in Int
  PROVE  ToInt(n) \in Int
  BY ClockAssumption DEF ToInt

LEMMA ToIntFits ==
  ASSUME NEW n \in Int, n <= IntMax
  PROVE  ToInt(n) = n
  BY ClockAssumption DEF ToInt

PC ==
  {"none", "open", "ween_expired", "find_assoc", "print", "close", "done"}
  \cup LoginPC \cup ResponsePC

\* w's call goes on: the object changes, but not what it was made for.
Goes(w) ==
  /\ mc' \in [Worker -> Object]
  /\ \A v \in Worker \ {w} : mc'[v] = mc[v]
  /\ mc'[w].task = mc[w].task
  /\ mc'[w].asnonceid = mc[w].asnonceid
  /\ mc'[w].response_nonce = mc[w].response_nonce
  /\ mc'[w].began = mc[w].began
  /\ mc'[w].clock = now

Thens == {"none", "find_assoc", "store_assoc", "retrieve_assoc", "print"}
Results == {None, "redirect", "threw", "unknown", "refused", "granted", "printed"}

\* A field may be given any value of its type.
LEMMA FieldUpdate ==
  ASSUME NEW c \in Object
  PROVE  /\ \A x \in PC : [c EXCEPT !.pc = x] \in Object
         /\ \A x \in Thens : [c EXCEPT !.then = x] \in Object
         /\ \A x \in Server \cup {None} : [c EXCEPT !.server = x] \in Object
         /\ \A x \in Handle \cup {None} : [c EXCEPT !.handle = x] \in Object
         /\ \A x \in StartTime .. MaxTime : [c EXCEPT !.clock = x] \in Object
         /\ \A x \in BOOLEAN : [c EXCEPT !.is_closed = x] \in Object
         /\ \A x \in BOOLEAN : [c EXCEPT !.endpoint_set = x] \in Object
         /\ \A x \in {None} \cup Association \cup AuthenticationSession :
              [c EXCEPT !.row = x] \in Object
         /\ \A x \in Results : [c EXCEPT !.result = x] \in Object
<1>1. \A x \in PC : [c EXCEPT !.pc = x] \in Object
  BY DEF Object, PC, LoginPC, ResponsePC
<1>2. \A x \in Thens : [c EXCEPT !.then = x] \in Object
  BY DEF Object, Thens
<1>3. \A x \in Server \cup {None} : [c EXCEPT !.server = x] \in Object
  BY DEF Object
<1>4. \A x \in Handle \cup {None} : [c EXCEPT !.handle = x] \in Object
  BY DEF Object
<1>5. \A x \in StartTime .. MaxTime : [c EXCEPT !.clock = x] \in Object
  BY DEF Object
<1>6. \A x \in BOOLEAN : [c EXCEPT !.is_closed = x] \in Object
  BY DEF Object
<1>7. \A x \in BOOLEAN : [c EXCEPT !.endpoint_set = x] \in Object
  BY DEF Object
<1>8. \A x \in {None} \cup Association \cup AuthenticationSession :
        [c EXCEPT !.row = x] \in Object
  BY DEF Object
<1>9. \A x \in Results : [c EXCEPT !.result = x] \in Object
  BY DEF Object, Results
<1> QED
  BY <1>1, <1>2, <1>3, <1>4, <1>5, <1>6, <1>7, <1>8, <1>9

LEMMA CallUpdate ==
  ASSUME NEW c \in Object
  PROVE  /\ \A x \in {None, "checkid", "id_res", "print"} : [c EXCEPT !.task = x] \in Object
         /\ \A x \in Nonce \cup {None} : [c EXCEPT !.asnonceid = x] \in Object
         /\ \A x \in ResponseNonce \cup {None} : [c EXCEPT !.response_nonce = x] \in Object
         /\ \A x \in StartTime .. MaxTime : [c EXCEPT !.began = x] \in Object
<1>1. \A x \in {None, "checkid", "id_res", "print"} : [c EXCEPT !.task = x] \in Object
  BY DEF Object
<1>2. \A x \in Nonce \cup {None} : [c EXCEPT !.asnonceid = x] \in Object
  BY DEF Object
<1>3. \A x \in ResponseNonce \cup {None} : [c EXCEPT !.response_nonce = x] \in Object
  BY DEF Object
<1>4. \A x \in StartTime .. MaxTime : [c EXCEPT !.began = x] \in Object
  BY DEF Object
<1> QED
  BY <1>1, <1>2, <1>3, <1>4

LEMMA ObjectUpdate ==
  ASSUME mc \in [Worker -> Object], NEW w \in Worker, NEW c \in Object,
         mc' = [mc EXCEPT ![w] = c]
  PROVE  /\ mc' \in [Worker -> Object]
         /\ mc'[w] = c
         /\ \A v \in Worker \ {w} : mc'[v] = mc[v]
  OBVIOUS

LEMMA ObjectType ==
  ASSUME TypeOK, NEW w \in Worker
  PROVE  /\ mc \in [Worker -> Object] /\ mc[w] \in Object
         /\ mc[w].then \in Thens /\ mc[w].is_closed \in BOOLEAN
         /\ mc[w].result \in Results
         /\ now \in StartTime .. MaxTime
  BY DEF TypeOK, Object, Thens, Results

LEMMA TestResultGoes ==
  ASSUME TypeOK, NEW w \in Worker, NEW ok \in BOOLEAN, NEW next \in PC,
         TestResult(w, ok, next)
  PROVE  /\ Goes(w)
         /\ mc'[w].pc = next
         /\ mc'[w].is_closed = IF ok THEN mc[w].is_closed ELSE TRUE
         /\ mc'[w].then = mc[w].then /\ mc'[w].server = mc[w].server
         /\ mc'[w].handle = mc[w].handle /\ mc'[w].endpoint_set = mc[w].endpoint_set
         /\ mc'[w].row = mc[w].row /\ mc'[w].result = mc[w].result
<1> DEFINE new == [mc[w] EXCEPT !.pc = next, !.clock = now,
                     !.is_closed = IF ok THEN @ ELSE TRUE]
<1>1. new \in Object
  BY ObjectType, FieldUpdate
<1>2. mc' = [mc EXCEPT ![w] = new]
  BY ObjectType DEF TestResult
<1>3. mc'[w] = new /\ mc' \in [Worker -> Object] /\ \A v \in Worker \ {w} : mc'[v] = mc[v]
  BY <1>1, <1>2, ObjectType, ObjectUpdate
<1> QED
  BY <1>3, ObjectType DEF Goes, Object

LEMMA FinishGoes ==
  ASSUME TypeOK, NEW w \in Worker, NEW result \in Results, Finish(w, result)
  PROVE  /\ Goes(w)
         /\ mc'[w].pc = "close" /\ mc'[w].result = result
         /\ mc'[w].then = mc[w].then /\ mc'[w].server = mc[w].server
         /\ mc'[w].handle = mc[w].handle /\ mc'[w].endpoint_set = mc[w].endpoint_set
         /\ mc'[w].row = mc[w].row /\ mc'[w].is_closed = mc[w].is_closed
<1> DEFINE new == [mc[w] EXCEPT !.pc = "close", !.clock = now, !.result = result]
<1>1. new \in Object
  BY ObjectType, FieldUpdate DEF PC
<1>2. mc' = [mc EXCEPT ![w] = new]
  BY ObjectType DEF Finish
<1>3. mc'[w] = new /\ mc' \in [Worker -> Object] /\ \A v \in Worker \ {w} : mc'[v] = mc[v]
  BY <1>1, <1>2, ObjectType, ObjectUpdate
<1> QED
  BY <1>3, ObjectType DEF Goes, Object

\* What a step of w does to its object when the step is a SELECT.
Selected(w, rows, ok, row, found, missing) ==
  /\ row # None => ok /\ row \in rows
  /\ Goes(w)
  /\ mc'[w].pc = IF row = None THEN missing ELSE found
  /\ mc'[w].is_closed = IF ok THEN mc[w].is_closed ELSE TRUE
  /\ mc'[w].row = row
  /\ mc'[w].result = IF missing = "close" /\ row = None THEN "threw" ELSE mc[w].result
  /\ mc'[w].then = mc[w].then /\ mc'[w].server = mc[w].server
  /\ mc'[w].handle = mc[w].handle /\ mc'[w].endpoint_set = mc[w].endpoint_set

LEMMA SelectGoes ==
  ASSUME TypeOK, NEW w \in Worker, NEW rows \in SUBSET Association,
         NEW found \in PC, NEW missing \in PC, Select(w, rows, TRUE, found, missing)
  PROVE  \E ok \in Outcome(w), row \in rows \cup {None} :
           Selected(w, rows, ok, row, found, missing)
<1>1. PICK ok \in Outcome(w), row \in rows \cup {None} :
        /\ row # None => ok /\ row \in rows
        /\ mc' = [mc EXCEPT ![w].pc = IF row = None THEN missing ELSE found,
                       ![w].clock = now,
                       ![w].is_closed = IF ok \/ ~TRUE THEN @ ELSE TRUE,
                       ![w].row = row,
                       ![w].result = IF missing = "close" /\ row = None
                                     THEN "threw" ELSE @]
  BY DEF Select
<1>2. ok \in BOOLEAN
  BY OutcomeType
<1> DEFINE new == [mc[w] EXCEPT !.pc = IF row = None THEN missing ELSE found,
                     !.clock = now, !.is_closed = IF ok \/ ~TRUE THEN @ ELSE TRUE,
                     !.row = row,
                     !.result = IF missing = "close" /\ row = None THEN "threw" ELSE @]
<1>3. new \in Object
  <2>1. /\ (IF row = None THEN missing ELSE found) \in PC
        /\ (IF ok \/ ~TRUE THEN mc[w].is_closed ELSE TRUE) \in BOOLEAN
        /\ row \in {None} \cup Association \cup AuthenticationSession
        /\ (IF missing = "close" /\ row = None THEN "threw" ELSE mc[w].result) \in Results
    BY <1>2, ObjectType DEF Results
  <2> QED
    BY <2>1, ObjectType, FieldUpdate, ZenonT(60)
<1>4. mc' = [mc EXCEPT ![w] = new]
  BY <1>1, ObjectType
<1>5. mc'[w] = new /\ mc' \in [Worker -> Object] /\ \A v \in Worker \ {w} : mc'[v] = mc[v]
  BY <1>3, <1>4, ObjectType, ObjectUpdate
<1>6. Selected(w, rows, ok, row, found, missing)
  <2>1. /\ mc'[w].pc = IF row = None THEN missing ELSE found
        /\ mc'[w].is_closed = IF ok THEN mc[w].is_closed ELSE TRUE
        /\ mc'[w].row = row
        /\ mc'[w].result = IF missing = "close" /\ row = None
                           THEN "threw" ELSE mc[w].result
    BY <1>2, <1>5, ObjectType DEF Object
  <2>2. /\ mc'[w].then = mc[w].then /\ mc'[w].server = mc[w].server
        /\ mc'[w].handle = mc[w].handle /\ mc'[w].endpoint_set = mc[w].endpoint_set
    BY <1>5, ObjectType DEF Object
  <2>3. Goes(w)
    BY <1>5, ObjectType DEF Object, Goes
  <2> QED
    BY <1>1, <2>1, <2>2, <2>3 DEF Selected
<1> QED
  BY <1>6

--------------------------------------------------------------------------------
(* Steps of one worker and what they leave alone.                          *)

LEMMA OthersSound ==
  ASSUME Inv, NEW w \in Worker, \A v \in Worker \ {w} : mc'[v] = mc[v],
         now \in Int, now' \in Int, now <= now',
         \A a \in authentication_sessions' \ authentication_sessions :
           mc[w].task = "checkid" /\ a.nonce = mc[w].asnonceid,
         recorded \subseteq recorded',
         \A n \in redeemed' \ redeemed : mc[w].task = "id_res" /\ n = mc[w].asnonceid,
         NEW v \in Worker \ {w}
  PROVE  Sound(mc[v])'
<1>1. Sound(mc[v]) /\ mc'[v] = mc[v] /\ mc[v].clock \in Int
  BY ClockAssumption DEF Inv, TypeInv, TypeOK, Object
<1>2. mc[v].task \in {"checkid", "id_res"} =>
        \A a \in authentication_sessions' :
          a.nonce = mc[v].asnonceid => a \in authentication_sessions
  BY DEF Inv, Apart
<1>3. StartSound(mc[v])'
  BY <1>1, <1>2 DEF Inv, Apart, Sound, StartSound
<1>4. ResponseSound(mc[v])'
  BY <1>1, <1>2 DEF Sound, ResponseSound, HasWeened
<1>5. NonceSound(mc[v])' /\ AnswerSound(mc[v])'
  BY <1>1 DEF Sound, NonceSound, AnswerSound
<1>6. (mc[v].clock <= now)'
  BY <1>1 DEF Sound
<1> QED
  BY <1>3, <1>4, <1>5, <1>6 DEF Sound

\* A step inside a call that registers and redeems nothing.
LEMMA GoesInv ==
  ASSUME Inv, NEW w \in Worker, Goes(w), Local(mc'[w]), Sound(mc[w])',
         UNCHANGED <<now, known, redeemed>>,
         recorded \subseteq recorded', recorded' \subseteq Server \X ResponseNonce,
         authentication_sessions' \subseteq authentication_sessions,
         associations' \subseteq Association,
         response_nonces' \subseteq ResponseNonceRow
  PROVE  Inv'
<1>1. TypeInv'
  BY DEF Inv, TypeInv, TypeOK, Goes
<1>2. Apart' /\ Seen' /\ OneRowPerNonce' /\ KilledStaysDead'
  BY DEF Inv, Apart, Seen, OneRowPerNonce, KilledStaysDead, Goes
<1>3. now \in Int
  BY ClockAssumption DEF Inv, TypeInv, TypeOK
<1>4. \A v \in Worker : Sound(mc[v])'
  BY <1>3, OthersSound DEF Goes
<1> QED
  BY <1>1, <1>2, <1>4 DEF Inv

\* ... and changes nothing else.
LEMMA QuietInv ==
  ASSUME Inv, NEW w \in Worker, Goes(w), Local(mc'[w]), Sound(mc[w])',
         UNCHANGED <<now, tables, known, history>>
  PROVE  Inv'
  BY GoesInv DEF tables, history, Inv, TypeInv, TypeOK

\* A step that sends w's object on, with nothing new to say of the tables.
LEMMA SoundKept ==
  ASSUME Inv, NEW w \in Worker, Goes(w), UNCHANGED <<now, redeemed>>,
         authentication_sessions' \subseteq authentication_sessions,
         mc[w].task = "checkid" => mc'[w].server = mc[w].server,
         mc'[w].endpoint_set = mc[w].endpoint_set,
         HasWeened(mc'[w]) => HasWeened(mc[w]),
         NonceSound(mc[w])', AnswerSound(mc[w])'
  PROVE  Sound(mc[w])'
<1>1. Sound(mc[w]) /\ now \in Int
  BY ClockAssumption DEF Inv, TypeInv, TypeOK
<1>2. StartSound(mc[w])'
  BY <1>1 DEF Sound, StartSound, Goes
<1>3. ResponseSound(mc[w])'
  BY <1>1 DEF Sound, ResponseSound, Goes
<1> QED
  BY <1>1, <1>2, <1>3 DEF Sound, Goes

--------------------------------------------------------------------------------
(* One lemma per action.                                                   *)

LEMMA OpenInv ==
  ASSUME Inv, NEW w \in Worker, Open(w)
  PROVE  Inv'
<1>1. TypeOK /\ Local(mc[w]) /\ Sound(mc[w])
  BY DEF Inv, TypeInv
<1> DEFINE pc == IF mc[w].task = "checkid" THEN "begin_queueing" ELSE "ween_expired"
           then == IF mc[w].task = "print" THEN "print" ELSE "retrieve_assoc"
<1>2. PICK ok \in BOOLEAN :
        mc' = [mc EXCEPT ![w].pc = pc, ![w].then = then, ![w].clock = now,
                         ![w].is_closed = IF ok THEN @ ELSE TRUE]
  BY OutcomeType DEF Open
<1> DEFINE new == [mc[w] EXCEPT !.pc = pc, !.then = then, !.clock = now,
                     !.is_closed = IF ok THEN @ ELSE TRUE]
<1>3. new \in Object
  BY <1>1, ObjectType, FieldUpdate, ZenonT(60) DEF PC, LoginPC, Thens
<1>4. mc'[w] = new /\ mc' \in [Worker -> Object] /\ \A v \in Worker \ {w} : mc'[v] = mc[v]
  <2>1. mc' = [mc EXCEPT ![w] = new]
    BY <1>1, <1>2, ObjectType
  <2> QED
    BY <1>1, <1>3, <2>1, ObjectType, ObjectUpdate
<1>5. /\ Goes(w)
      /\ mc'[w].pc = pc /\ mc'[w].then = then
      /\ mc'[w].server = mc[w].server
      /\ mc'[w].handle = mc[w].handle /\ mc'[w].endpoint_set = mc[w].endpoint_set
      /\ mc'[w].row = mc[w].row /\ mc'[w].result = mc[w].result
  BY <1>1, <1>4, ObjectType DEF Goes, Object
<1>6. /\ mc[w].pc = "open" /\ mc[w].task \in {"checkid", "id_res", "print"}
      /\ mc[w].began \in Int /\ mc[w].clock \in Int /\ now \in Int
  BY <1>1, ClockAssumption DEF Open, TypeOK, Object, Local, At
<1>7. Local(mc'[w])
  BY <1>1, <1>5, <1>6, SMTT(30) DEF Goes, Local, LoginPC, ResponsePC, Sound
<1>8. Sound(mc[w])'
  <2>1. NonceSound(mc[w])' /\ AnswerSound(mc[w])' /\ ~HasWeened(mc'[w])
    BY <1>1, <1>5, <1>6, NoneAssumption
       DEF Goes, Local, NonceSound, AnswerSound, HasWeened
  <2> QED
    BY <1>5, <2>1, SoundKept, ZenonT(60) DEF Open, tables, history
<1> QED
  BY <1>5, <1>7, <1>8, QuietInv DEF Open

LEMMA WeenExpiredInv ==
  ASSUME Inv, NEW w \in Worker, WeenExpired(w)
  PROVE  Inv'
<1>1. TypeOK /\ Local(mc[w]) /\ Sound(mc[w])
  BY DEF Inv, TypeInv
<1>2. PICK k \in Weenings(w), rawtime \in Sample(w) :
        /\ associations' = IF k < 1 THEN associations
                           ELSE {r \in associations : ~(rawtime > r.expires_on)}
        /\ authentication_sessions' =
             IF k < 2 THEN authentication_sessions
             ELSE {r \in authentication_sessions : ~(rawtime > r.expires_on)}
        /\ response_nonces' = IF k < 3 THEN response_nonces
                              ELSE {r \in response_nonces : ~(rawtime > r.expires_on)}
        /\ TestResult(w, k = 3, mc[w].then)
  BY DEF WeenExpired
<1>3. mc[w].pc = "ween_expired"
  BY DEF WeenExpired, At
<1>4. mc[w].then \in {"find_assoc", "store_assoc", "retrieve_assoc", "print"}
  BY <1>1, <1>3 DEF Local
<1>5. /\ Goes(w)
      /\ mc'[w].pc = mc[w].then /\ mc'[w].is_closed = IF k = 3 THEN mc[w].is_closed ELSE TRUE
      /\ mc'[w].server = mc[w].server
      /\ mc'[w].handle = mc[w].handle /\ mc'[w].endpoint_set = mc[w].endpoint_set
      /\ mc'[w].row = mc[w].row /\ mc'[w].result = mc[w].result
  BY <1>1, <1>2, <1>4, TestResultGoes, ZenonT(60) DEF PC, LoginPC, ResponsePC
<1>6. /\ mc[w].began \in Int /\ mc[w].clock \in Int /\ now \in Int /\ rawtime \in Int
      /\ mc[w].began <= mc[w].clock /\ mc[w].clock <= now
      /\ mc[w].clock <= rawtime /\ rawtime <= now
      /\ \A a \in authentication_sessions : a.expires_on \in Int
  BY <1>1, <1>3, ClockAssumption
     DEF Local, Sound, Sample, TypeOK, Object, AuthenticationSession
<1>7. Local(mc'[w])
  BY <1>1, <1>3, <1>5, <1>6 DEF Goes, Local, LoginPC, ResponsePC
<1>8. authentication_sessions' \subseteq authentication_sessions
  BY <1>2
<1>9. ~mc'[w].is_closed => \A a \in authentication_sessions' : a.expires_on >= mc[w].began
  BY <1>2, <1>5, <1>6
<1>10. Sound(mc[w])'
  BY <1>1, <1>3, <1>4, <1>5, <1>6, <1>8, <1>9
     DEF WeenExpired, history, Goes, Sound, StartSound, ResponseSound,
         HasWeened, NonceSound, AnswerSound, Local
<1>11. /\ associations' \subseteq Association /\ response_nonces' \subseteq ResponseNonceRow
       /\ recorded' \subseteq Server \X ResponseNonce
       /\ UNCHANGED <<now, known, recorded, redeemed>>
  BY <1>1, <1>2 DEF TypeOK, WeenExpired, history
<1> QED
  BY <1>5, <1>7, <1>8, <1>10, <1>11, GoesInv

\* A call that ends, for whatever reason, changes no table.
LEMMA FinishInv ==
  ASSUME Inv, NEW w \in Worker, mc[w].pc # "none",
         NEW result \in Results \ {"redirect"}, Finish(w, result),
         UNCHANGED <<now, tables, known, history>>
  PROVE  Inv'
<1>1. TypeOK /\ Local(mc[w]) /\ Sound(mc[w])
  BY DEF Inv, TypeInv
<1>2. /\ Goes(w)
      /\ mc'[w].pc = "close" /\ mc'[w].result = result
      /\ mc'[w].server = mc[w].server
      /\ mc'[w].handle = mc[w].handle /\ mc'[w].endpoint_set = mc[w].endpoint_set
      /\ mc'[w].row = mc[w].row
  BY <1>1, FinishGoes
<1>3. mc[w].began \in Int /\ mc[w].clock \in Int /\ now \in Int
  BY <1>1, ClockAssumption DEF TypeOK, Object
<1>4. Local(mc'[w])
  BY <1>1, <1>2, <1>3 DEF Goes, Local, LoginPC, ResponsePC, Sound
<1>5. NonceSound(mc[w])' /\ AnswerSound(mc[w])' /\ ~HasWeened(mc'[w])
  BY <1>2 DEF NonceSound, AnswerSound, HasWeened
<1>6. Sound(mc[w])'
  BY <1>2, <1>5, SoundKept DEF tables, history
<1> QED
  BY <1>2, <1>4, <1>6, QuietInv

LEMMA FindAssocInv ==
  ASSUME Inv, NEW w \in Worker, FindAssoc(w)
  PROVE  Inv'
<1>1. TypeOK /\ Local(mc[w]) /\ Sound(mc[w])
  BY DEF Inv, TypeInv
<1> DEFINE rows == {a \in associations : a.server = mc[w].server}
           found == IF mc[w].task = "checkid" THEN "get_endpoint_uri" ELSE "insert_nonce"
           missing == IF mc[w].task = "checkid" THEN "associate" ELSE "close"
<1>2. Select(w, rows, TRUE, found, missing) /\ mc[w].pc = "find_assoc"
  BY DEF FindAssoc, At
<1>3. rows \in SUBSET Association /\ found \in PC /\ missing \in PC
  BY <1>1 DEF TypeOK, PC, LoginPC, ResponsePC
<1>4. PICK ok \in Outcome(w), row \in rows \cup {None} :
        Selected(w, rows, ok, row, found, missing)
  BY <1>1, <1>2, <1>3, SelectGoes
<1>5. /\ Goes(w)
      /\ mc'[w].pc = IF row = None THEN missing ELSE found
      /\ mc'[w].is_closed = IF ok THEN mc[w].is_closed ELSE TRUE
      /\ mc'[w].row = row
      /\ mc'[w].result = IF missing = "close" /\ row = None THEN "threw" ELSE mc[w].result
      /\ mc'[w].server = mc[w].server
      /\ mc'[w].handle = mc[w].handle /\ mc'[w].endpoint_set = mc[w].endpoint_set
      /\ row # None => row \in Association
  BY <1>3, <1>4 DEF Selected
<1>6. /\ mc[w].began \in Int /\ mc[w].clock \in Int /\ now \in Int
      /\ mc[w].task \in {"checkid", "id_res"}
  BY <1>1, <1>2, ClockAssumption DEF TypeOK, Object, Local
<1> HIDE DEF rows
<1>7. Local(mc'[w])
  BY <1>1, <1>2, <1>5, <1>6 DEF Goes, Local, LoginPC, ResponsePC, Sound
<1>8. HasWeened(mc'[w]) => HasWeened(mc[w])
  BY <1>2, <1>5 DEF Goes, HasWeened
<1>9. NonceSound(mc[w])' /\ AnswerSound(mc[w])'
  BY <1>1, <1>2, <1>5, NoneAssumption DEF Local, NonceSound, AnswerSound
<1>10. Sound(mc[w])'
  BY <1>5, <1>8, <1>9, SoundKept DEF FindAssoc, tables, history
<1> QED
  BY <1>5, <1>7, <1>10, QuietInv DEF FindAssoc

LEMMA BeginQueueingInv ==
  ASSUME Inv, NEW w \in Worker, BeginQueueing(w)
  PROVE  Inv'
<1>1. TypeOK /\ Local(mc[w]) /\ Sound(mc[w]) /\ mc[w].pc = "begin_queueing"
  BY DEF Inv, TypeInv, BeginQueueing, At
<1>2. PICK ok \in BOOLEAN : TestResult(w, ok, "discover")
  BY OutcomeType DEF BeginQueueing
<1>3. /\ Goes(w)
      /\ mc'[w].pc = "discover"
      /\ mc'[w].server = mc[w].server
      /\ mc'[w].handle = mc[w].handle /\ mc'[w].endpoint_set = mc[w].endpoint_set
      /\ mc'[w].row = mc[w].row /\ mc'[w].result = mc[w].result
  BY <1>1, <1>2, TestResultGoes DEF PC, LoginPC
<1>4. mc[w].began \in Int /\ mc[w].clock \in Int /\ now \in Int
  BY <1>1, ClockAssumption DEF TypeOK, Object
<1>5. Local(mc'[w])
  BY <1>1, <1>3, <1>4 DEF Goes, Local, LoginPC, ResponsePC, Sound
<1>6. NonceSound(mc[w])' /\ AnswerSound(mc[w])' /\ ~HasWeened(mc'[w])
  BY <1>1, <1>3, NoneAssumption
     DEF Goes, Local, LoginPC, NonceSound, AnswerSound, HasWeened
<1>7. authentication_sessions' \subseteq authentication_sessions
  BY DEF BeginQueueing
<1>8. Sound(mc[w])'
  BY <1>3, <1>6, <1>7, SoundKept DEF BeginQueueing, history
<1>9. recorded' \subseteq Server \X ResponseNonce /\ associations' \subseteq Association
      /\ response_nonces' \subseteq ResponseNonceRow
  BY <1>1 DEF TypeOK, BeginQueueing, history
<1> QED
  BY <1>3, <1>5, <1>7, <1>8, <1>9, GoesInv DEF BeginQueueing, history

LEMMA SetNormalizedIdInv ==
  ASSUME Inv, NEW w \in Worker, SetNormalizedId(w)
  PROVE  Inv'
<1>1. TypeOK /\ Local(mc[w]) /\ Sound(mc[w]) /\ mc[w].pc = "discover"
  BY DEF Inv, TypeInv, SetNormalizedId, At
<1>2. PICK ok \in BOOLEAN : TestResult(w, ok, "get_endpoint")
  BY OutcomeType DEF SetNormalizedId
<1>3. /\ Goes(w)
      /\ mc'[w].pc = "get_endpoint"
      /\ mc'[w].server = mc[w].server
      /\ mc'[w].handle = mc[w].handle /\ mc'[w].endpoint_set = mc[w].endpoint_set
      /\ mc'[w].row = mc[w].row /\ mc'[w].result = mc[w].result
  BY <1>1, <1>2, TestResultGoes DEF PC, LoginPC
<1>4. mc[w].began \in Int /\ mc[w].clock \in Int /\ now \in Int
  BY <1>1, ClockAssumption DEF TypeOK, Object
<1>5. Local(mc'[w])
  BY <1>1, <1>3, <1>4 DEF Goes, Local, LoginPC, ResponsePC, Sound
<1>6. NonceSound(mc[w])' /\ AnswerSound(mc[w])' /\ ~HasWeened(mc'[w])
  BY <1>1, <1>3, NoneAssumption
     DEF Goes, Local, LoginPC, NonceSound, AnswerSound, HasWeened
<1>7. Sound(mc[w])'
  BY <1>3, <1>6, SoundKept DEF SetNormalizedId, tables, history
<1> QED
  BY <1>3, <1>5, <1>7, QuietInv DEF SetNormalizedId

LEMMA TermType == Hour \in Nat /\ AssocTerm \subseteq Nat
  BY TermAssumption, ClockAssumption

LEMMA QueueEndpointInv ==
  ASSUME Inv, NEW w \in Worker, NEW uri \in Server, QueueEndpoint(w, uri)
  PROVE  Inv'
<1>1. /\ TypeOK /\ Local(mc[w]) /\ Sound(mc[w])
      /\ mc[w].pc = "discover" /\ mc[w].task = "checkid" /\ ~mc[w].endpoint_set
      /\ mc[w].server = None /\ mc[w].asnonceid \in Nonce
  BY DEF Inv, TypeInv, QueueEndpoint, At, Local, LoginPC
<1>2. PICK ok \in Outcome(w), rawtime \in Sample(w) :
        /\ authentication_sessions' = authentication_sessions \cup
            {a \in {[nonce |-> mc[w].asnonceid, uri |-> uri,
                     expires_on |-> ToInt(rawtime + Hour)]} : ok}
        /\ mc' = [mc EXCEPT ![w].clock = now, ![w].endpoint_set = TRUE,
                            ![w].is_closed = IF ok THEN @ ELSE TRUE]
  BY DEF QueueEndpoint
<1> DEFINE new == [mc[w] EXCEPT !.clock = now, !.endpoint_set = TRUE,
                     !.is_closed = IF ok THEN @ ELSE TRUE]
           a0 == [nonce |-> mc[w].asnonceid, uri |-> uri,
                  expires_on |-> ToInt(rawtime + Hour)]
<1>3. new \in Object
  BY <1>1, ObjectType, FieldUpdate, OutcomeType
<1>4. mc'[w] = new /\ mc' \in [Worker -> Object] /\ \A v \in Worker \ {w} : mc'[v] = mc[v]
  <2>1. mc' = [mc EXCEPT ![w] = new]
    BY <1>1, <1>2, ObjectType
  <2> QED
    BY <1>1, <1>3, <2>1, ObjectType, ObjectUpdate
<1>5. /\ Goes(w)
      /\ mc'[w].pc = "discover" /\ mc'[w].endpoint_set
      /\ mc'[w].server = mc[w].server /\ mc'[w].handle = mc[w].handle
      /\ mc'[w].row = mc[w].row /\ mc'[w].result = mc[w].result
  BY <1>1, <1>4, ObjectType DEF Goes, Object
<1>6. mc[w].began \in Int /\ mc[w].clock \in Int /\ now \in Int /\ rawtime \in Int
  BY <1>1, ClockAssumption DEF TypeOK, Object, Sample
<1>7. a0 \in AuthenticationSession
  BY <1>1, <1>6, TermType, ToIntType DEF AuthenticationSession
<1>8. /\ authentication_sessions' \subseteq authentication_sessions \cup {a0}
      /\ authentication_sessions \subseteq authentication_sessions'
      /\ a0.nonce = mc[w].asnonceid /\ a0.uri = uri
      /\ UNCHANGED <<now, associations, response_nonces, known, recorded, redeemed>>
  BY <1>2 DEF QueueEndpoint, history
<1> HIDE DEF a0
<1>9. Local(mc'[w])
  BY <1>1, <1>5, <1>6 DEF Goes, Local, LoginPC, ResponsePC, Sound
<1>10. TypeInv'
  BY <1>1, <1>5, <1>7, <1>8, <1>9 DEF Inv, TypeInv, TypeOK, Goes
<1>11. mc[w].asnonceid \notin redeemed
       /\ \A a \in authentication_sessions : a.nonce # mc[w].asnonceid
  BY <1>1 DEF Sound, StartSound
<1>12. Apart' /\ Seen' /\ OneRowPerNonce' /\ KilledStaysDead'
  BY <1>1, <1>5, <1>8, <1>11
     DEF Inv, Apart, Seen, OneRowPerNonce, KilledStaysDead, Goes
<1>13. Sound(mc[w])'
  BY <1>1, <1>5, <1>8, <1>11, <1>6, NoneAssumption
     DEF Goes, Local, Sound, StartSound, ResponseSound, HasWeened, NonceSound, AnswerSound
<1>14. \A v \in Worker \ {w} : Sound(mc[v])'
  BY <1>1, <1>5, <1>6, <1>8, OthersSound DEF Goes
<1> QED
  BY <1>10, <1>12, <1>13, <1>14 DEF Inv

LEMMA GetEndpointInv ==
  ASSUME Inv, NEW w \in Worker, GetEndpoint(w)
  PROVE  Inv'
<1>1. /\ TypeOK /\ Local(mc[w]) /\ Sound(mc[w])
      /\ mc[w].pc = "get_endpoint" /\ mc[w].task = "checkid"
      /\ mc[w].server = None /\ mc[w].asnonceid \in Nonce
      /\ UNCHANGED <<now, tables, known, history>>
  BY DEF Inv, TypeInv, GetEndpoint, At, Local, LoginPC
<1>2. CASE Finish(w, "threw")
  BY <1>1, <1>2, FinishInv, NoneAssumption DEF Results
<1>3. ASSUME NEW a \in Endpoints(w),
             mc' = [mc EXCEPT ![w].pc = "ween_expired", ![w].then = "find_assoc",
                              ![w].clock = now, ![w].server = a.uri]
      PROVE  Inv'
  <2> DEFINE new == [mc[w] EXCEPT !.pc = "ween_expired", !.then = "find_assoc",
                       !.clock = now, !.server = a.uri]
  <2>1. /\ a \in authentication_sessions /\ a.uri \in Server
        /\ a.nonce = mc[w].asnonceid
    BY <1>1 DEF Endpoints, TypeOK, AuthenticationSession
  <2>2. new \in Object
    BY <1>1, <2>1, ObjectType, FieldUpdate DEF PC, Thens
  <2>3. mc' = [mc EXCEPT ![w] = new]
    BY <1>1, <1>3, ObjectType
  <2>4. mc'[w] = new /\ mc' \in [Worker -> Object]
        /\ \A v \in Worker \ {w} : mc'[v] = mc[v]
    BY <1>1, <2>2, <2>3, ObjectType, ObjectUpdate
  <2>5. /\ Goes(w)
        /\ mc'[w].pc = "ween_expired" /\ mc'[w].then = "find_assoc"
        /\ mc'[w].endpoint_set = mc[w].endpoint_set
        /\ mc'[w].server = a.uri /\ mc'[w].handle = mc[w].handle
        /\ mc'[w].row = mc[w].row /\ mc'[w].result = mc[w].result
    BY <1>1, <2>4, ObjectType DEF Goes, Object
  <2>6. mc[w].began \in Int /\ mc[w].clock \in Int /\ now \in Int
    BY <1>1, ClockAssumption DEF TypeOK, Object
  <2>7. Local(mc'[w])
    BY <1>1, <2>1, <2>5, <2>6 DEF Goes, Local, LoginPC, ResponsePC, Sound
  <2>8. \A b \in authentication_sessions : b.nonce = mc[w].asnonceid => b = a
    BY <2>1 DEF Inv, OneRowPerNonce
  <2>9. Sound(mc[w])'
    BY <1>1, <2>1, <2>5, <2>6, <2>8, NoneAssumption
       DEF Goes, Local, tables, history, Sound, StartSound, ResponseSound, HasWeened,
           NonceSound, AnswerSound
  <2> QED
    BY <1>1, <2>5, <2>7, <2>9, QuietInv
<1> QED
  BY <1>2, <1>3 DEF GetEndpoint

LEMMA AssociateInv ==
  ASSUME Inv, NEW w \in Worker, NEW h \in Handle, Associate(w, h)
  PROVE  Inv'
<1>1. /\ TypeOK /\ Local(mc[w]) /\ Sound(mc[w])
      /\ mc[w].pc = "associate" /\ mc[w].task = "checkid"
      /\ UNCHANGED <<now, tables, known, history>>
  BY DEF Inv, TypeInv, Associate, At, Local, LoginPC
<1>2. mc' = [mc EXCEPT ![w].pc = "ween_expired", ![w].then = "store_assoc",
                       ![w].clock = now, ![w].handle = h]
  BY DEF Associate
<1> DEFINE new == [mc[w] EXCEPT !.pc = "ween_expired", !.then = "store_assoc",
                     !.clock = now, !.handle = h]
<1>3. new \in Object
  BY <1>1, ObjectType, FieldUpdate DEF PC, Thens
<1>4. mc'[w] = new /\ mc' \in [Worker -> Object] /\ \A v \in Worker \ {w} : mc'[v] = mc[v]
  <2>1. mc' = [mc EXCEPT ![w] = new]
    BY <1>1, <1>2, ObjectType
  <2> QED
    BY <1>1, <1>3, <2>1, ObjectType, ObjectUpdate
<1>5. /\ Goes(w)
      /\ mc'[w].pc = "ween_expired" /\ mc'[w].then = "store_assoc"
      /\ mc'[w].endpoint_set = mc[w].endpoint_set
      /\ mc'[w].server = mc[w].server /\ mc'[w].handle = h
      /\ mc'[w].row = mc[w].row /\ mc'[w].result = mc[w].result
  BY <1>1, <1>4, ObjectType DEF Goes, Object
<1>6. mc[w].began \in Int /\ mc[w].clock \in Int /\ now \in Int
  BY <1>1, ClockAssumption DEF TypeOK, Object
<1>7. Local(mc'[w])
  BY <1>1, <1>5, <1>6 DEF Goes, Local, LoginPC, ResponsePC, Sound
<1>8. NonceSound(mc[w])' /\ AnswerSound(mc[w])' /\ ~HasWeened(mc'[w])
  BY <1>1, <1>5, NoneAssumption DEF Goes, Local, NonceSound, AnswerSound, HasWeened
<1>9. Sound(mc[w])'
  BY <1>1, <1>5, <1>8, SoundKept DEF tables, history
<1> QED
  BY <1>1, <1>5, <1>7, <1>9, QuietInv

LEMMA StoreAssocInv ==
  ASSUME Inv, NEW w \in Worker, NEW expires_in \in AssocTerm, StoreAssoc(w, expires_in)
  PROVE  Inv'
<1>1. /\ TypeOK /\ Local(mc[w]) /\ Sound(mc[w])
      /\ mc[w].pc = "store_assoc" /\ mc[w].task = "checkid"
      /\ mc[w].server \in Server /\ mc[w].handle \in Handle
  BY DEF Inv, TypeInv, StoreAssoc, At, Local, LoginPC
<1>2. PICK ok \in Outcome(w), rawtime \in Sample(w) :
        /\ associations' = associations \cup
             {a \in {[server |-> mc[w].server, handle |-> mc[w].handle,
                      expires_on |-> ToInt(rawtime + expires_in)]} : ok}
        /\ TestResult(w, ok, "get_endpoint_uri")
  BY DEF StoreAssoc
<1>3. ok \in BOOLEAN
  BY OutcomeType
<1>4. /\ Goes(w)
      /\ mc'[w].pc = "get_endpoint_uri"
      /\ mc'[w].server = mc[w].server
      /\ mc'[w].handle = mc[w].handle /\ mc'[w].endpoint_set = mc[w].endpoint_set
      /\ mc'[w].row = mc[w].row /\ mc'[w].result = mc[w].result
  BY <1>1, <1>2, <1>3, TestResultGoes DEF PC, LoginPC
<1>5. mc[w].began \in Int /\ mc[w].clock \in Int /\ now \in Int /\ rawtime \in Int
  BY <1>1, ClockAssumption DEF TypeOK, Object, Sample
<1>6. Local(mc'[w])
  BY <1>1, <1>4, <1>5 DEF Goes, Local, LoginPC, ResponsePC, Sound
<1>7. NonceSound(mc[w])' /\ AnswerSound(mc[w])' /\ ~HasWeened(mc'[w])
  BY <1>1, <1>4, NoneAssumption DEF Goes, Local, NonceSound, AnswerSound, HasWeened
<1>8. Sound(mc[w])'
  BY <1>4, <1>7, SoundKept DEF StoreAssoc, history
<1>9. [server |-> mc[w].server, handle |-> mc[w].handle,
       expires_on |-> ToInt(rawtime + expires_in)] \in Association
  BY <1>1, <1>5, TermType, ToIntType DEF Association
<1>10. /\ associations' \subseteq Association
       /\ authentication_sessions' \subseteq authentication_sessions
       /\ recorded' \subseteq Server \X ResponseNonce
       /\ response_nonces' \subseteq ResponseNonceRow
  BY <1>1, <1>2, <1>9 DEF TypeOK, StoreAssoc, history
<1> QED
  BY <1>4, <1>6, <1>8, <1>10, GoesInv DEF StoreAssoc, history

LEMMA GetEndpointUriInv ==
  ASSUME Inv, NEW w \in Worker, GetEndpointUri(w)
  PROVE  Inv'
<1>1. /\ TypeOK /\ Local(mc[w]) /\ Sound(mc[w])
      /\ mc[w].pc = "get_endpoint_uri" /\ mc[w].task = "checkid"
      /\ mc[w].server \in Server
      /\ UNCHANGED <<now, tables, known, history>>
  BY DEF Inv, TypeInv, GetEndpointUri, At, Local, LoginPC
<1>2. CASE Finish(w, "threw")
  BY <1>1, <1>2, FinishInv, NoneAssumption DEF Results
<1>3. ASSUME NEW a \in Endpoints(w),
             mc' = [mc EXCEPT ![w].pc = "close", ![w].clock = now,
                              ![w].row = a, ![w].result = "redirect"]
      PROVE  Inv'
  <2> DEFINE new == [mc[w] EXCEPT !.pc = "close", !.clock = now, !.row = a,
                       !.result = "redirect"]
  <2>1. /\ a \in authentication_sessions /\ a \in AuthenticationSession
        /\ a.nonce = mc[w].asnonceid
    BY <1>1 DEF Endpoints, TypeOK
  <2>2. new \in Object
    BY <1>1, <2>1, ObjectType, FieldUpdate DEF PC, Results
  <2>3. mc' = [mc EXCEPT ![w] = new]
    BY <1>1, <1>3, ObjectType
  <2>4. mc'[w] = new /\ mc' \in [Worker -> Object]
        /\ \A v \in Worker \ {w} : mc'[v] = mc[v]
    BY <1>1, <2>2, <2>3, ObjectType, ObjectUpdate
  <2>5. /\ Goes(w)
        /\ mc'[w].pc = "close" /\ mc'[w].row = a /\ mc'[w].result = "redirect"
        /\ mc'[w].endpoint_set = mc[w].endpoint_set
        /\ mc'[w].server = mc[w].server /\ mc'[w].handle = mc[w].handle
    BY <1>1, <2>4, ObjectType DEF Goes, Object
  <2>6. mc[w].began \in Int /\ mc[w].clock \in Int /\ now \in Int
    BY <1>1, ClockAssumption DEF TypeOK, Object
  <2>7. Local(mc'[w])
    BY <1>1, <2>5, <2>6 DEF Goes, Local, LoginPC, ResponsePC, Sound
  <2>8. a.uri = mc[w].server
    BY <1>1, <2>1, NoneAssumption DEF Sound, StartSound
  <2>9. NonceSound(mc[w])' /\ AnswerSound(mc[w])' /\ ~HasWeened(mc'[w])
    BY <1>1, <2>1, <2>5, <2>8 DEF Goes, NonceSound, AnswerSound, HasWeened
  <2>10. Sound(mc[w])'
    BY <1>1, <2>5, <2>9, SoundKept DEF tables, history
  <2> QED
    BY <1>1, <2>5, <2>7, <2>10, QuietInv
<1> QED
  BY <1>2, <1>3 DEF GetEndpointUri

LEMMA RetrieveAssocInv ==
  ASSUME Inv, NEW w \in Worker, RetrieveAssoc(w)
  PROVE  Inv'
<1>1. /\ TypeOK /\ Local(mc[w]) /\ Sound(mc[w])
      /\ mc[w].pc = "retrieve_assoc" /\ mc[w].task = "id_res"
      /\ UNCHANGED <<now, tables, known, history>>
  BY DEF Inv, TypeInv, RetrieveAssoc, At, Local, ResponsePC
<1> DEFINE rows == {a \in associations : a.server = mc[w].server /\ a.handle = mc[w].handle}
<1>2. Select(w, rows, TRUE, "verify", "check_authentication")
  BY DEF RetrieveAssoc
<1>3. rows \in SUBSET Association
  BY <1>1 DEF TypeOK
<1> HIDE DEF rows
<1>4. PICK ok \in Outcome(w), row \in rows \cup {None} :
        Selected(w, rows, ok, row, "verify", "check_authentication")
  BY <1>1, <1>2, <1>3, SelectGoes DEF PC, ResponsePC
<1>5. /\ Goes(w)
      /\ mc'[w].pc \in {"verify", "check_authentication"}
      /\ mc'[w].is_closed = IF ok THEN mc[w].is_closed ELSE TRUE
      /\ mc'[w].result = mc[w].result /\ mc'[w].server = mc[w].server
      /\ mc'[w].handle = mc[w].handle /\ mc'[w].endpoint_set = mc[w].endpoint_set
  BY <1>4 DEF Selected
<1>6. mc[w].began \in Int /\ mc[w].clock \in Int /\ now \in Int
  BY <1>1, ClockAssumption DEF TypeOK, Object
<1>7. Local(mc'[w])
  BY <1>1, <1>5, <1>6 DEF Goes, Local, LoginPC, ResponsePC, Sound
<1>8. HasWeened(mc'[w]) => HasWeened(mc[w])
  BY <1>1, <1>5 DEF Goes, HasWeened
<1>9. NonceSound(mc[w])' /\ AnswerSound(mc[w])'
  BY <1>1, <1>5, NoneAssumption DEF Local, NonceSound, AnswerSound
<1>10. Sound(mc[w])'
  BY <1>1, <1>5, <1>8, <1>9, SoundKept DEF tables, history
<1> QED
  BY <1>1, <1>5, <1>7, <1>10, QuietInv

\* A step of id_res that asks the database nothing.
LEMMA IdResInv ==
  ASSUME Inv, NEW w \in Worker,
         UNCHANGED <<now, tables, known, history>>,
         \/ mc[w].pc \in ResponsePC /\ TestResult(w, TRUE, "check_nonce")
         \/ mc[w].pc = "id_res_end" /\ TestResult(w, TRUE, "session_exists")
  PROVE  Inv'
<1>1. /\ TypeOK /\ Local(mc[w]) /\ Sound(mc[w])
      /\ mc[w].pc \in ResponsePC /\ mc[w].task = "id_res"
  BY DEF Inv, TypeInv, Local, ResponsePC
<1>2. /\ Goes(w)
      /\ \/ mc'[w].pc = "check_nonce"
         \/ mc[w].pc = "id_res_end" /\ mc'[w].pc = "session_exists"
      /\ mc'[w].is_closed = mc[w].is_closed
      /\ mc'[w].server = mc[w].server
      /\ mc'[w].handle = mc[w].handle /\ mc'[w].endpoint_set = mc[w].endpoint_set
      /\ mc'[w].row = mc[w].row /\ mc'[w].result = mc[w].result
  BY <1>1, TestResultGoes DEF PC, ResponsePC
<1>3. mc[w].began \in Int /\ mc[w].clock \in Int /\ now \in Int
  BY <1>1, ClockAssumption DEF TypeOK, Object
<1>4. Local(mc'[w])
  BY <1>1, <1>2, <1>3 DEF Goes, Local, LoginPC, ResponsePC, Sound
<1>5. HasWeened(mc'[w]) => HasWeened(mc[w])
  BY <1>1, <1>2 DEF Goes, HasWeened, ResponsePC
<1>6. NonceSound(mc[w])' /\ AnswerSound(mc[w])'
  BY <1>1, <1>2, NoneAssumption
     DEF Goes, Local, ResponsePC, Sound, NonceSound, AnswerSound, history
<1>7. Sound(mc[w])'
  BY <1>1, <1>2, <1>5, <1>6, SoundKept DEF tables, history
<1> QED
  BY <1>2, <1>4, <1>7, QuietInv

LEMMA VerifyVerdictEndInv ==
  ASSUME Inv, NEW w \in Worker, VerifySignature(w) \/ Verdict(w) \/ EndIdRes(w)
  PROVE  Inv'
<1>1. /\ mc[w].pc \in {"verify", "check_authentication", "verdict", "id_res_end"}
      /\ UNCHANGED <<now, tables, known, history>>
      /\ \/ TestResult(w, TRUE, "check_nonce")
         \/ mc[w].pc = "id_res_end" /\ TestResult(w, TRUE, "session_exists")
         \/ Finish(w, "threw")
  BY DEF VerifySignature, Verdict, EndIdRes, At
<1>2. CASE Finish(w, "threw")
  BY <1>1, <1>2, FinishInv DEF Results
<1> QED
  BY <1>1, <1>2, IdResInv DEF ResponsePC

LEMMA InvalidateAssocInv ==
  ASSUME Inv, NEW w \in Worker, NEW h \in Handle, InvalidateAssoc(w, h)
  PROVE  Inv'
<1>1. /\ TypeOK /\ Local(mc[w]) /\ Sound(mc[w])
      /\ mc[w].pc = "check_authentication" /\ mc[w].task = "id_res"
  BY DEF Inv, TypeInv, InvalidateAssoc, At, Local, ResponsePC
<1>2. PICK ok \in BOOLEAN : TestResult(w, ok, "verdict")
  BY OutcomeType DEF InvalidateAssoc
<1>3. /\ Goes(w)
      /\ mc'[w].pc = "verdict" /\ (mc[w].is_closed => mc'[w].is_closed)
      /\ mc'[w].server = mc[w].server
      /\ mc'[w].handle = mc[w].handle /\ mc'[w].endpoint_set = mc[w].endpoint_set
      /\ mc'[w].row = mc[w].row /\ mc'[w].result = mc[w].result
  BY <1>1, <1>2, TestResultGoes DEF PC, ResponsePC
<1>4. mc[w].began \in Int /\ mc[w].clock \in Int /\ now \in Int
  BY <1>1, ClockAssumption DEF TypeOK, Object
<1>5. Local(mc'[w])
  BY <1>1, <1>3, <1>4 DEF Goes, Local, LoginPC, ResponsePC, Sound
<1>6. HasWeened(mc'[w]) => HasWeened(mc[w])
  BY <1>1, <1>3 DEF Goes, HasWeened
<1>7. NonceSound(mc[w])' /\ AnswerSound(mc[w])'
  BY <1>1, <1>3, NoneAssumption DEF Local, NonceSound, AnswerSound
<1>8. Sound(mc[w])'
  BY <1>3, <1>6, <1>7, SoundKept DEF InvalidateAssoc, history
<1>9. /\ associations' \subseteq Association
      /\ recorded' \subseteq Server \X ResponseNonce
      /\ response_nonces' \subseteq ResponseNonceRow
  BY <1>1 DEF TypeOK, InvalidateAssoc, history
<1> QED
  BY <1>3, <1>5, <1>8, <1>9, GoesInv DEF InvalidateAssoc, history

LEMMA CheckNonceInv ==
  ASSUME Inv, NEW w \in Worker, CheckNonce(w)
  PROVE  Inv'
<1>1. /\ TypeOK /\ Local(mc[w]) /\ Sound(mc[w])
      /\ mc[w].pc = "check_nonce" /\ mc[w].task = "id_res"
      /\ UNCHANGED <<now, tables, known, history>>
  BY DEF Inv, TypeInv, CheckNonce, At, Local, ResponsePC
<1>2. mc' = [mc EXCEPT ![w].pc = "ween_expired", ![w].then = "find_assoc", ![w].clock = now]
  BY DEF CheckNonce
<1> DEFINE new == [mc[w] EXCEPT !.pc = "ween_expired", !.then = "find_assoc", !.clock = now]
<1>3. new \in Object
  BY <1>1, ObjectType, FieldUpdate DEF PC, Thens
<1>4. mc'[w] = new /\ mc' \in [Worker -> Object] /\ \A v \in Worker \ {w} : mc'[v] = mc[v]
  <2>1. mc' = [mc EXCEPT ![w] = new]
    BY <1>1, <1>2, ObjectType
  <2> QED
    BY <1>1, <1>3, <2>1, ObjectType, ObjectUpdate
<1>5. /\ Goes(w)
      /\ mc'[w].pc = "ween_expired" /\ mc'[w].then = "find_assoc"
      /\ mc'[w].is_closed = mc[w].is_closed
      /\ mc'[w].endpoint_set = mc[w].endpoint_set
      /\ mc'[w].server = mc[w].server /\ mc'[w].handle = mc[w].handle
      /\ mc'[w].row = mc[w].row /\ mc'[w].result = mc[w].result
  BY <1>1, <1>4, ObjectType DEF Goes, Object
<1>6. mc[w].began \in Int /\ mc[w].clock \in Int /\ now \in Int
  BY <1>1, ClockAssumption DEF TypeOK, Object
<1>7. Local(mc'[w])
  BY <1>1, <1>5, <1>6 DEF Goes, Local, LoginPC, ResponsePC, Sound
<1>8. HasWeened(mc'[w]) => HasWeened(mc[w])
  BY <1>1, <1>5 DEF Goes, HasWeened
<1>9. NonceSound(mc[w])' /\ AnswerSound(mc[w])'
  BY <1>1, <1>5, NoneAssumption DEF Local, NonceSound, AnswerSound
<1>10. Sound(mc[w])'
  BY <1>1, <1>5, <1>8, <1>9, SoundKept DEF tables, history
<1> QED
  BY <1>1, <1>5, <1>7, <1>10, QuietInv

LEMMA InsertNonceInv ==
  ASSUME Inv, NEW w \in Worker, InsertNonce(w)
  PROVE  Inv'
<1>1. /\ TypeOK /\ Local(mc[w]) /\ Sound(mc[w])
      /\ mc[w].pc = "insert_nonce" /\ mc[w].task = "id_res"
      /\ mc[w].server \in Server /\ mc[w].response_nonce \in ResponseNonce
      /\ mc[w].row \in Association
  BY DEF Inv, TypeInv, InsertNonce, At, Local, ResponsePC
<1>2. PICK ok \in Outcome(w), rawtime \in Sample(w) :
        /\ response_nonces' = response_nonces \cup
             {r \in {[server |-> mc[w].server, response_nonce |-> mc[w].response_nonce,
                      expires_on |-> ToInt(mc[w].row.expires_on + rawtime)]} : ok}
        /\ recorded' = recorded \cup
             {r \in {<<mc[w].server, mc[w].response_nonce>>} : ok}
        /\ TestResult(w, ok, "id_res_end")
  BY DEF InsertNonce
<1>3. ok \in BOOLEAN
  BY OutcomeType
<1>4. /\ Goes(w)
      /\ mc'[w].pc = "id_res_end"
      /\ mc'[w].is_closed = IF ok THEN mc[w].is_closed ELSE TRUE
      /\ mc'[w].server = mc[w].server
      /\ mc'[w].handle = mc[w].handle /\ mc'[w].endpoint_set = mc[w].endpoint_set
      /\ mc'[w].row = mc[w].row /\ mc'[w].result = mc[w].result
  BY <1>1, <1>2, <1>3, TestResultGoes DEF PC, ResponsePC
<1>5. mc[w].began \in Int /\ mc[w].clock \in Int /\ now \in Int /\ rawtime \in Int
  BY <1>1, ClockAssumption DEF TypeOK, Object, Sample
<1>6. Local(mc'[w])
  BY <1>1, <1>4, <1>5 DEF Goes, Local, LoginPC, ResponsePC, Sound
<1>7. HasWeened(mc'[w]) => HasWeened(mc[w])
  BY <1>1, <1>4 DEF Goes, HasWeened
<1>8. NonceSound(mc[w])' /\ AnswerSound(mc[w])'
  BY <1>1, <1>2, <1>3, <1>4, NoneAssumption DEF Goes, Local, NonceSound, AnswerSound
<1>9. Sound(mc[w])'
  BY <1>4, <1>7, <1>8, SoundKept DEF InsertNonce
<1>10. [server |-> mc[w].server, response_nonce |-> mc[w].response_nonce,
        expires_on |-> ToInt(mc[w].row.expires_on + rawtime)] \in ResponseNonceRow
  BY <1>1, <1>5, ToIntType DEF Association, ResponseNonceRow
<1>11. /\ associations' \subseteq Association
       /\ authentication_sessions' \subseteq authentication_sessions
       /\ recorded \subseteq recorded'
       /\ recorded' \subseteq Server \X ResponseNonce
       /\ response_nonces' \subseteq ResponseNonceRow
  BY <1>1, <1>2, <1>10 DEF TypeOK, InsertNonce
<1> QED
  BY <1>4, <1>6, <1>9, <1>11, GoesInv DEF InsertNonce

LEMMA SessionExistsInv ==
  ASSUME Inv, NEW w \in Worker, SessionExists(w)
  PROVE  Inv'
<1>1. /\ TypeOK /\ Local(mc[w]) /\ Sound(mc[w])
      /\ mc[w].pc = "session_exists" /\ mc[w].task = "id_res"
      /\ mc[w].result = None
      /\ UNCHANGED <<now, tables, known, history>>
  BY DEF Inv, TypeInv, SessionExists, At, Local, ResponsePC
<1>2. mc[w].began \in Int /\ mc[w].clock \in Int /\ now \in Int
  BY <1>1, ClockAssumption DEF TypeOK, Object
<1>3. ASSUME NEW ok \in BOOLEAN,
             mc' = [mc EXCEPT ![w].pc = "close", ![w].clock = now,
                              ![w].is_closed = IF ok THEN @ ELSE TRUE,
                              ![w].result = "unknown"]
      PROVE  Inv'
  <2> DEFINE new == [mc[w] EXCEPT !.pc = "close", !.clock = now,
                       !.is_closed = IF ok THEN @ ELSE TRUE, !.result = "unknown"]
  <2>1. new \in Object
    BY <1>1, ObjectType, FieldUpdate DEF PC, Results
  <2>2. mc' = [mc EXCEPT ![w] = new]
    BY <1>1, <1>3, ObjectType
  <2>3. mc'[w] = new /\ mc' \in [Worker -> Object]
        /\ \A v \in Worker \ {w} : mc'[v] = mc[v]
    BY <1>1, <2>1, <2>2, ObjectType, ObjectUpdate
  <2>4. /\ Goes(w)
        /\ mc'[w].pc = "close" /\ mc'[w].result = "unknown"
        /\ mc'[w].endpoint_set = mc[w].endpoint_set
        /\ mc'[w].server = mc[w].server /\ mc'[w].handle = mc[w].handle
    BY <1>1, <2>3, ObjectType DEF Goes, Object
  <2>5. Local(mc'[w])
    BY <1>1, <1>2, <2>4 DEF Goes, Local, LoginPC, ResponsePC, Sound
  <2>6. NonceSound(mc[w])' /\ AnswerSound(mc[w])' /\ ~HasWeened(mc'[w])
    BY <2>4 DEF NonceSound, AnswerSound, HasWeened
  <2>7. Sound(mc[w])'
    BY <1>1, <2>4, <2>6, SoundKept DEF tables, history
  <2> QED
    BY <1>1, <2>4, <2>5, <2>7, QuietInv
<1>4. ASSUME TRUE \in Outcome(w), NEW a \in Endpoints(w),
             mc' = [mc EXCEPT ![w].pc = "accepted", ![w].clock = now, ![w].row = a]
      PROVE  Inv'
  <2> DEFINE new == [mc[w] EXCEPT !.pc = "accepted", !.clock = now, !.row = a]
  <2>1. /\ a \in authentication_sessions /\ a \in AuthenticationSession
        /\ a.nonce = mc[w].asnonceid /\ ~mc[w].is_closed
    BY <1>1, <1>4, OutcomeType DEF Endpoints, TypeOK
  <2>2. new \in Object
    BY <1>1, <2>1, ObjectType, FieldUpdate DEF PC, ResponsePC
  <2>3. mc' = [mc EXCEPT ![w] = new]
    BY <1>1, <1>4, ObjectType
  <2>4. mc'[w] = new /\ mc' \in [Worker -> Object]
        /\ \A v \in Worker \ {w} : mc'[v] = mc[v]
    BY <1>1, <2>2, <2>3, ObjectType, ObjectUpdate
  <2>5. /\ Goes(w)
        /\ mc'[w].pc = "accepted" /\ mc'[w].row = a /\ mc'[w].result = mc[w].result
        /\ mc'[w].is_closed = mc[w].is_closed
        /\ mc'[w].endpoint_set = mc[w].endpoint_set
        /\ mc'[w].server = mc[w].server /\ mc'[w].handle = mc[w].handle
    BY <1>1, <2>4, ObjectType DEF Goes, Object
  <2>6. Local(mc'[w])
    BY <1>1, <1>2, <2>1, <2>5 DEF Goes, Local, LoginPC, ResponsePC, Sound
  <2>7. a.expires_on >= mc[w].began
        /\ <<mc[w].server, mc[w].response_nonce>> \in recorded
    BY <1>1, <2>1 DEF Sound, ResponseSound, HasWeened, NonceSound
  <2>8. NonceSound(mc[w])' /\ AnswerSound(mc[w])'
    BY <1>1, <2>5, <2>7, NoneAssumption DEF Goes, NonceSound, AnswerSound, history
  <2>9. HasWeened(mc'[w]) => HasWeened(mc[w])
    BY <1>1, <2>5 DEF Goes, HasWeened
  <2>10. Sound(mc[w])'
    BY <1>1, <2>5, <2>8, <2>9, SoundKept DEF tables, history
  <2> QED
    BY <1>1, <2>5, <2>6, <2>10, QuietInv
<1> QED
  BY <1>3, <1>4, OutcomeType DEF SessionExists

\* The calls that end here and change no table.
LEMMA EndInv ==
  ASSUME Inv, NEW w \in Worker,
         DiscoveryFails(w) \/ AssociateFails(w) \/ Refuse(w) \/ PrintRows(w)
  PROVE  Inv'
  BY FinishInv DEF DiscoveryFails, AssociateFails, Refuse, PrintRows, At, Results

LEMMA KillSessionInv ==
  ASSUME Inv, NEW w \in Worker, KillSession(w)
  PROVE  Inv'
<1>1. /\ TypeOK /\ Local(mc[w]) /\ Sound(mc[w])
      /\ mc[w].pc = "accepted" /\ mc[w].task = "id_res"
      /\ mc[w].asnonceid \in Nonce
      /\ UNCHANGED <<now, associations, response_nonces, known, recorded>>
  BY DEF Inv, TypeInv, KillSession, At, Local, ResponsePC
<1>2. mc[w].began \in Int /\ mc[w].clock \in Int /\ now \in Int
  BY <1>1, ClockAssumption DEF TypeOK, Object
<1>3. PICK ok \in Outcome(w) :
       /\ authentication_sessions' =
            {a \in authentication_sessions : ok => a.nonce # mc[w].asnonceid}
       /\ redeemed' = redeemed \cup {n \in {mc[w].asnonceid} : ok}
       /\ mc' = [mc EXCEPT ![w].pc = "close", ![w].clock = now,
                           ![w].is_closed = IF ok THEN @ ELSE TRUE,
                           ![w].result = "granted"]
  BY DEF KillSession
<1>4. ok \in BOOLEAN
  BY OutcomeType
<1> DEFINE new == [mc[w] EXCEPT !.pc = "close", !.clock = now,
                     !.is_closed = IF ok THEN @ ELSE TRUE, !.result = "granted"]
<1>5. new \in Object
  BY <1>1, <1>4, ObjectType, FieldUpdate DEF PC, Results
<1>6. mc'[w] = new /\ mc' \in [Worker -> Object] /\ \A v \in Worker \ {w} : mc'[v] = mc[v]
  <2>1. mc' = [mc EXCEPT ![w] = new]
    BY <1>1, <1>3, ObjectType
  <2> QED
    BY <1>1, <1>5, <2>1, ObjectType, ObjectUpdate
<1>7. /\ Goes(w)
      /\ mc'[w].pc = "close" /\ mc'[w].result = "granted"
      /\ mc'[w].endpoint_set = mc[w].endpoint_set
      /\ mc'[w].server = mc[w].server /\ mc'[w].handle = mc[w].handle
  BY <1>1, <1>6, ObjectType DEF Goes, Object
<1>8. Local(mc'[w])
  BY <1>1, <1>2, <1>7 DEF Goes, Local, LoginPC, ResponsePC, Sound
<1>9. /\ authentication_sessions' \subseteq authentication_sessions
      /\ redeemed' \subseteq redeemed \cup {mc[w].asnonceid}
      /\ \A a \in authentication_sessions' :
           a.nonce \in redeemed' => a.nonce \in redeemed
  BY <1>3
<1>10. TypeInv'
  BY <1>1, <1>7, <1>8, <1>9 DEF Inv, TypeInv, TypeOK, Goes
<1>11. Apart' /\ Seen' /\ OneRowPerNonce' /\ KilledStaysDead'
  BY <1>1, <1>7, <1>9 DEF Inv, Apart, Seen, OneRowPerNonce, KilledStaysDead, Goes
<1>12. Sound(mc[w])'
  BY <1>1, <1>2, <1>7
     DEF Goes, Sound, StartSound, ResponseSound, HasWeened, NonceSound, AnswerSound
<1>13. \A v \in Worker \ {w} : Sound(mc[v])'
  BY <1>1, <1>2, <1>7, <1>9, OthersSound DEF Goes
<1> QED
  BY <1>10, <1>11, <1>12, <1>13 DEF Inv

LEMMA CloseInv ==
  ASSUME Inv, NEW w \in Worker, Close(w)
  PROVE  Inv'
<1>1. /\ TypeOK /\ Local(mc[w]) /\ Sound(mc[w]) /\ mc[w].pc = "close"
      /\ UNCHANGED <<now, tables, known, history>>
      /\ mc' = [mc EXCEPT ![w].pc = "done", ![w].clock = now, ![w].is_closed = TRUE]
  BY DEF Inv, TypeInv, Close, At
<1> DEFINE new == [mc[w] EXCEPT !.pc = "done", !.clock = now, !.is_closed = TRUE]
<1>2. new \in Object
  BY <1>1, ObjectType, FieldUpdate DEF PC
<1>3. mc'[w] = new /\ mc' \in [Worker -> Object] /\ \A v \in Worker \ {w} : mc'[v] = mc[v]
  <2>1. mc' = [mc EXCEPT ![w] = new]
    BY <1>1, ObjectType
  <2> QED
    BY <1>1, <1>2, <2>1, ObjectType, ObjectUpdate
<1>4. /\ Goes(w)
      /\ mc'[w].pc = "done" /\ mc'[w].result = mc[w].result
      /\ mc'[w].endpoint_set = mc[w].endpoint_set /\ mc'[w].row = mc[w].row
      /\ mc'[w].server = mc[w].server /\ mc'[w].handle = mc[w].handle
  BY <1>1, <1>3, ObjectType DEF Goes, Object
<1>5. mc[w].began \in Int /\ mc[w].clock \in Int /\ now \in Int
  BY <1>1, ClockAssumption DEF TypeOK, Object
<1>6. Local(mc'[w])
  BY <1>1, <1>4, <1>5 DEF Goes, Local, LoginPC, ResponsePC, Sound
<1>7. NonceSound(mc[w])' /\ AnswerSound(mc[w])' /\ ~HasWeened(mc'[w])
  BY <1>1, <1>4 DEF Goes, Sound, NonceSound, AnswerSound, HasWeened
<1>8. Sound(mc[w])'
  BY <1>1, <1>4, <1>7, SoundKept DEF tables, history
<1> QED
  BY <1>1, <1>4, <1>6, <1>8, QuietInv

--------------------------------------------------------------------------------
(* Calls that begin and end, and the clock.                                *)

LEMMA NoCallType == NoCall \in Object /\ Local(NoCall)
<1>1. StartTime \in StartTime .. MaxTime
  BY ClockAssumption
<1> QED
  BY <1>1, NoneAssumption DEF NoCall, Object, Local, LoginPC, ResponsePC

\* The object a new call works with.
Begun(w, task, n, s, h, rn) ==
  /\ mc[w].pc = "none"
  /\ mc' \in [Worker -> Object]
  /\ \A v \in Worker \ {w} : mc'[v] = mc[v]
  /\ mc'[w].pc = "open" /\ mc'[w].task = task /\ mc'[w].asnonceid = n
  /\ mc'[w].server = s /\ mc'[w].handle = h /\ mc'[w].response_nonce = rn
  /\ mc'[w].began = now /\ mc'[w].clock = now
  /\ ~mc'[w].is_closed /\ ~mc'[w].endpoint_set
  /\ mc'[w].row = None /\ mc'[w].result = None /\ mc'[w].then = "none"
  /\ UNCHANGED <<now, tables, history>>

LEMMA BeginType ==
  ASSUME TypeOK, NEW w \in Worker, NEW task \in {"checkid", "id_res", "print"},
         NEW n \in Nonce \cup {None}, NEW s \in Server \cup {None},
         NEW h \in Handle \cup {None}, NEW rn \in ResponseNonce \cup {None},
         Begin(w, task, n, s, h, rn)
  PROVE  Begun(w, task, n, s, h, rn)
<1> DEFINE new == [NoCall EXCEPT !.pc = "open", !.task = task, !.asnonceid = n,
                     !.server = s, !.handle = h, !.response_nonce = rn,
                     !.began = now, !.clock = now, !.is_closed = FALSE]
<1>1. /\ mc[w].pc = "none" /\ UNCHANGED <<now, tables, history>>
      /\ mc' = [mc EXCEPT ![w] = new]
  BY DEF Begin, At
<1>2. new \in Object
  BY NoCallType, FieldUpdate, CallUpdate, ZenonT(60) DEF TypeOK, PC
<1>3. mc'[w] = new /\ mc' \in [Worker -> Object] /\ \A v \in Worker \ {w} : mc'[v] = mc[v]
  BY <1>1, <1>2, ObjectUpdate DEF TypeOK
<1> QED
  BY <1>1, <1>3 DEF NoCall, Begun

LEMMA StartLoginInv ==
  ASSUME Inv, NEW w \in Worker, NEW n \in Nonce, StartLogin(w, n)
  PROVE  Inv'
<1>1. TypeOK /\ now \in Int /\ n \notin known /\ known' = known \cup {n}
  BY ClockAssumption DEF Inv, TypeInv, TypeOK, StartLogin
<1>2. /\ mc[w].pc = "none"
      /\ mc' \in [Worker -> Object]
      /\ \A v \in Worker \ {w} : mc'[v] = mc[v]
      /\ mc'[w].pc = "open" /\ mc'[w].task = "checkid" /\ mc'[w].asnonceid = n
      /\ mc'[w].server = None /\ ~mc'[w].endpoint_set
      /\ mc'[w].began = now /\ mc'[w].clock = now /\ mc'[w].result = None
      /\ UNCHANGED <<now, tables, history>>
  BY <1>1, BeginType DEF StartLogin, Begun
<1>3. Local(mc'[w])
  BY <1>1, <1>2, NoneAssumption DEF Local, LoginPC, ResponsePC
<1>4. TypeInv'
  BY <1>1, <1>2, <1>3 DEF Inv, TypeInv, TypeOK, tables, history
<1>5. Apart'
  BY <1>1, <1>2 DEF Inv, Apart, Seen
<1>6. Seen' /\ OneRowPerNonce' /\ KilledStaysDead'
  BY <1>1, <1>2 DEF Inv, Seen, OneRowPerNonce, KilledStaysDead, tables, history
<1>7. Sound(mc[w])'
  BY <1>1, <1>2, NoneAssumption
     DEF Inv, Seen, tables, history, Sound, StartSound, ResponseSound, HasWeened,
         NonceSound, AnswerSound
<1>8. \A v \in Worker \ {w} : Sound(mc[v])'
  BY <1>1, <1>2, OthersSound DEF tables, history
<1> QED
  BY <1>4, <1>5, <1>6, <1>7, <1>8 DEF Inv

LEMMA ReceiveResponseInv ==
  ASSUME Inv, NEW w \in Worker, NEW n \in Nonce, NEW s \in Server, NEW h \in Handle,
         NEW rn \in ResponseNonce, ReceiveResponse(w, n, s, h, rn)
  PROVE  Inv'
<1>1. /\ TypeOK /\ now \in Int /\ known' = known \cup {n}
      /\ \A v \in Worker : mc[v].task = "checkid" => mc[v].asnonceid # n
  BY ClockAssumption DEF Inv, TypeInv, TypeOK, ReceiveResponse
<1>2. /\ mc[w].pc = "none"
      /\ mc' \in [Worker -> Object]
      /\ \A v \in Worker \ {w} : mc'[v] = mc[v]
      /\ mc'[w].pc = "open" /\ mc'[w].task = "id_res" /\ mc'[w].asnonceid = n
      /\ mc'[w].server = s /\ mc'[w].handle = h /\ mc'[w].response_nonce = rn
      /\ ~mc'[w].endpoint_set
      /\ mc'[w].began = now /\ mc'[w].clock = now /\ mc'[w].result = None
      /\ UNCHANGED <<now, tables, history>>
  BY <1>1, BeginType DEF ReceiveResponse, Begun
<1>3. Local(mc'[w])
  BY <1>1, <1>2, NoneAssumption DEF Local, LoginPC, ResponsePC
<1>4. TypeInv'
  BY <1>1, <1>2, <1>3 DEF Inv, TypeInv, TypeOK, tables, history
<1>5. Apart'
  BY <1>1, <1>2 DEF Inv, Apart
<1>6. Seen' /\ OneRowPerNonce' /\ KilledStaysDead'
  BY <1>1, <1>2 DEF Inv, Seen, OneRowPerNonce, KilledStaysDead, tables, history
<1>7. Sound(mc[w])'
  BY <1>1, <1>2, NoneAssumption
     DEF Sound, StartSound, ResponseSound, HasWeened, NonceSound, AnswerSound
<1>8. \A v \in Worker \ {w} : Sound(mc[v])'
  BY <1>1, <1>2, OthersSound DEF tables, history
<1> QED
  BY <1>4, <1>5, <1>6, <1>7, <1>8 DEF Inv

LEMMA PrintTablesInv ==
  ASSUME Inv, NEW w \in Worker, PrintTables(w)
  PROVE  Inv'
<1>1. TypeOK /\ now \in Int /\ known' = known
  BY ClockAssumption DEF Inv, TypeInv, TypeOK, PrintTables
<1>2. /\ mc[w].pc = "none"
      /\ mc' \in [Worker -> Object]
      /\ \A v \in Worker \ {w} : mc'[v] = mc[v]
      /\ mc'[w].pc = "open" /\ mc'[w].task = "print" /\ ~mc'[w].endpoint_set
      /\ mc'[w].began = now /\ mc'[w].clock = now /\ mc'[w].result = None
      /\ UNCHANGED <<now, tables, history>>
  BY <1>1, BeginType DEF PrintTables, Begun
<1>3. Local(mc'[w])
  BY <1>1, <1>2, NoneAssumption DEF Local, LoginPC, ResponsePC
<1>4. TypeInv'
  BY <1>1, <1>2, <1>3 DEF Inv, TypeInv, TypeOK, tables, history
<1>5. Apart' /\ Seen' /\ OneRowPerNonce' /\ KilledStaysDead'
  BY <1>1, <1>2 DEF Inv, Apart, Seen, OneRowPerNonce, KilledStaysDead, tables, history
<1>6. Sound(mc[w])'
  BY <1>1, <1>2, NoneAssumption
     DEF Sound, StartSound, ResponseSound, HasWeened, NonceSound, AnswerSound
<1>7. \A v \in Worker \ {w} : Sound(mc[v])'
  BY <1>1, <1>2, OthersSound DEF tables, history
<1> QED
  BY <1>4, <1>5, <1>6, <1>7 DEF Inv

\* The object is gone, wherever the call had got to.
LEMMA ReturnInv ==
  ASSUME Inv, NEW w \in Worker, Return(w) \/ Crash(w)
  PROVE  Inv'
<1>1. TypeOK /\ now \in Int
  BY ClockAssumption DEF Inv, TypeInv, TypeOK
<1>2. /\ mc' = [mc EXCEPT ![w] = NoCall]
      /\ UNCHANGED <<now, tables, known, history>>
  BY DEF Return, Crash
<1>3. /\ mc' \in [Worker -> Object] /\ mc'[w] = NoCall
      /\ \A v \in Worker \ {w} : mc'[v] = mc[v]
  BY <1>1, <1>2, NoCallType, ObjectUpdate DEF TypeOK
<1>4. TypeInv'
  BY <1>1, <1>2, <1>3, NoCallType DEF Inv, TypeInv, TypeOK, tables, history
<1>5. mc'[w].task \notin {"checkid", "id_res"}
  BY <1>3, NoneAssumption DEF NoCall
<1>6. Apart' /\ Seen' /\ OneRowPerNonce' /\ KilledStaysDead'
  BY <1>2, <1>3, <1>5 DEF Inv, Apart, Seen, OneRowPerNonce, KilledStaysDead, tables, history
<1>7. Sound(mc[w])'
  <2>1. StartTime <= now
    BY <1>1, ClockAssumption DEF TypeOK
  <2> QED
    BY <1>1, <1>2, <1>3, <1>5, <2>1, NoneAssumption
       DEF NoCall, Sound, StartSound, ResponseSound, HasWeened, NonceSound, AnswerSound
<1>8. \A v \in Worker \ {w} : Sound(mc[v])'
  BY <1>1, <1>2, <1>3, OthersSound DEF tables, history
<1> QED
  BY <1>4, <1>6, <1>7, <1>8 DEF Inv

LEMMA TickInv ==
  ASSUME Inv, Tick
  PROVE  Inv'
<1>1. /\ now \in StartTime .. MaxTime /\ now < MaxTime /\ now' = now + 1
      /\ UNCHANGED <<tables, known, mc, history>>
  BY DEF Inv, TypeInv, TypeOK, Tick
<1>2. now \in Int /\ now' \in StartTime .. MaxTime
  BY <1>1, ClockAssumption
<1>3. TypeInv'
  BY <1>1, <1>2 DEF Inv, TypeInv, TypeOK, tables, history
<1>4. Apart' /\ Seen' /\ OneRowPerNonce' /\ KilledStaysDead'
  BY <1>1 DEF Inv, Apart, Seen, OneRowPerNonce, KilledStaysDead, tables, history
<1>5. \A w \in Worker : Sound(mc[w])'
  <2> TAKE w \in Worker
  <2>1. Sound(mc[w]) /\ mc[w].clock \in Int
    BY ClockAssumption DEF Inv, TypeInv, TypeOK, Object
  <2> QED
    BY <1>1, <1>2, <2>1
       DEF tables, history, Sound, StartSound, ResponseSound, NonceSound, AnswerSound
<1> QED
  BY <1>3, <1>4, <1>5 DEF Inv

LEMMA InitInv == Init => Inv
<1> SUFFICES ASSUME Init PROVE Inv
  OBVIOUS
<1>1. StartTime \in StartTime .. MaxTime
  BY ClockAssumption
<1>2. mc \in [Worker -> Object] /\ \A w \in Worker : mc[w] = NoCall
  BY NoCallType DEF Init
<1>3. TypeInv
  BY <1>1, <1>2, NoCallType DEF Init, TypeInv, TypeOK
<1>4. NoCall.task \notin {"checkid", "id_res"}
  BY NoneAssumption DEF NoCall
<1>5. Apart /\ Seen /\ OneRowPerNonce /\ KilledStaysDead
  BY <1>2, <1>4 DEF Init, Apart, Seen, OneRowPerNonce, KilledStaysDead
<1>6. \A w \in Worker : Sound(mc[w])
  BY <1>1, <1>2, <1>4, NoneAssumption
     DEF Init, NoCall, Sound, StartSound, ResponseSound, HasWeened, NonceSound, AnswerSound
<1> QED
  BY <1>3, <1>5, <1>6 DEF Inv

LEMMA StatementInv ==
  ASSUME Inv, NEW w \in Worker, Statement(w)
  PROVE  Inv'
<1>1. CASE LoginStep(w)
  BY <1>1, BeginQueueingInv, QueueEndpointInv, SetNormalizedIdInv, EndInv, GetEndpointInv,
     AssociateInv, StoreAssocInv, GetEndpointUriInv DEF LoginStep
<1>2. CASE ResponseStep(w)
  BY <1>2, RetrieveAssocInv, VerifyVerdictEndInv, InvalidateAssocInv, CheckNonceInv,
     InsertNonceInv, SessionExistsInv DEF ResponseStep
<1> QED
  BY <1>1, <1>2, OpenInv, WeenExpiredInv, FindAssocInv, EndInv, CloseInv DEF Statement

LEMMA StepInv == Inv /\ [Next]_vars => Inv'
<1> SUFFICES ASSUME Inv, [Next]_vars PROVE Inv'
  OBVIOUS
<1>1. ASSUME NEW w \in Worker, Call(w) PROVE Inv'
  BY <1>1, StartLoginInv, ReceiveResponseInv, PrintTablesInv DEF Call
<1>2. ASSUME NEW w \in Worker, Statement(w) PROVE Inv'
  BY <1>2, StatementInv
<1>3. ASSUME NEW w \in Worker, Decide(w) PROVE Inv'
  BY <1>3, EndInv, KillSessionInv DEF Decide
<1>4. ASSUME NEW w \in Worker, Return(w) \/ Crash(w) PROVE Inv'
  BY <1>4, ReturnInv
<1>5. CASE UNCHANGED vars
  BY <1>5 DEF vars, tables, history, Inv, TypeInv, TypeOK, Apart, Seen, OneRowPerNonce,
              KilledStaysDead, Sound, StartSound, ResponseSound, NonceSound, AnswerSound
<1> QED
  BY <1>1, <1>2, <1>3, <1>4, <1>5, TickInv DEF Next

--------------------------------------------------------------------------------
(* The theorems.                                                           *)

\* Every variable keeps its type: no statement, failure or crash leaves an object
\* or a row with a value of another kind.
THEOREM TypeCorrect == Spec => []TypeOK
  BY InitInv, StepInv, InvImplies, PTL DEF Spec

\* No response is accepted whose nonce was not recorded first, however many
\* workers there are and whichever statements fail.  Its row may be gone by then:
\* that the row stays is what the run of MCMoidConsumerNonce refutes.
THEOREM AcceptedIsRecorded == Spec => []AcceptedNonceRecorded
  BY InitInv, StepInv, InvImplies, PTL DEF Spec

\* No response is accepted for an attempt whose hour was over when it arrived,
\* although session_exists does not look at the clock.
THEOREM AcceptedIsFresh == Spec => []NoStaleLogin
  BY InitInv, StepInv, InvImplies, PTL DEF Spec

\* An attempt that kill_session has deleted never comes back.
THEOREM RedeemedOnce == Spec => []KilledStaysDead
  BY InitInv, StepInv, InvImplies, PTL DEF Spec

\* The two get_endpoint of a login answer the same endpoint, and every row that
\* is registered for the login is for that one.
THEOREM OneEndpoint == Spec => []OneEndpointPerLogin
  BY InitInv, StepInv, InvImplies, PTL DEF Spec

LEMMA WeenExpiredDrops ==
  ASSUME Inv, NEW w \in Worker, WeenExpired(w)
  PROVE  /\ \A a \in authentication_sessions \ authentication_sessions' : a.expires_on < now
         /\ \A a \in associations \ associations' : a.expires_on < now
<1>1. PICK rawtime \in Sample(w) :
        /\ \A a \in authentication_sessions \ authentication_sessions' : rawtime > a.expires_on
        /\ \A a \in associations \ associations' : rawtime > a.expires_on
  BY DEF WeenExpired
<1>2. /\ now \in Int /\ rawtime \in Int /\ rawtime <= now
      /\ \A a \in authentication_sessions \cup associations : a.expires_on \in Int
  BY ClockAssumption
     DEF Inv, TypeInv, TypeOK, Object, Sample, AuthenticationSession, Association
<1> QED
  BY <1>1, <1>2

\* start_authentication_session finds nothing to delete: its nonce is new.
LEMMA BeginQueueingDrops ==
  ASSUME Inv, NEW w \in Worker, BeginQueueing(w)
  PROVE  UNCHANGED <<authentication_sessions, associations>>
<1>1. StartSound(mc[w]) /\ mc[w].task = "checkid" /\ ~mc[w].endpoint_set
  BY DEF Inv, TypeInv, Local, LoginPC, Sound, BeginQueueing, At
<1>2. \A a \in authentication_sessions : a.nonce # mc[w].asnonceid
  BY <1>1 DEF StartSound
<1> QED
  BY <1>2 DEF BeginQueueing

\* The rows another handler needs are left alone: an attempt goes when it has
\* expired or its own response is accepted, an association when it has expired or
\* its provider revokes it.
THEOREM NothingDroppedEarly == Spec => DroppedOnlyWhenDue
<1> DEFINE Due ==
      /\ \A a \in authentication_sessions \ authentication_sessions' :
           \/ a.expires_on < now
           \/ \E w \in Worker : At(w, "accepted") /\ mc[w].asnonceid = a.nonce
      /\ \A a \in associations \ associations' :
           \/ a.expires_on < now
           \/ \E w \in Worker : At(w, "check_authentication") /\ mc[w].server = a.server
<1>1. Inv /\ [Next]_vars => [Due]_vars
  <2> SUFFICES ASSUME Inv, Next PROVE Due
    BY DEF vars
  <2>1. ASSUME UNCHANGED <<authentication_sessions, associations>> PROVE Due
    BY <2>1
  <2>2. CASE Tick
    BY <2>1, <2>2 DEF Tick, tables
  <2>3. ASSUME NEW w \in Worker, Call(w) \/ Return(w) \/ Crash(w) PROVE Due
    BY <2>1, <2>3 DEF Call, StartLogin, ReceiveResponse, PrintTables, Begin, Return, Crash,
                      tables
  <2>4. ASSUME NEW w \in Worker, WeenExpired(w) PROVE Due
    BY <2>4, WeenExpiredDrops
  <2>5. ASSUME NEW w \in Worker, LoginStep(w) PROVE Due
    <3>1. ASSUME NEW uri \in Server, QueueEndpoint(w, uri) PROVE Due
      BY <3>1 DEF QueueEndpoint
    <3>2. ASSUME NEW t \in AssocTerm, StoreAssoc(w, t) PROVE Due
      BY <3>2 DEF StoreAssoc
    <3>3. CASE BeginQueueing(w)
      BY <2>1, <3>3, BeginQueueingDrops
    <3> QED
      BY <2>1, <2>5, <3>1, <3>2, <3>3
         DEF LoginStep, SetNormalizedId, DiscoveryFails, GetEndpoint, AssociateFails,
             Associate, GetEndpointUri, tables
  <2>6. ASSUME NEW w \in Worker, ResponseStep(w) PROVE Due
    <3>1. ASSUME NEW h \in Handle, InvalidateAssoc(w, h) PROVE Due
      BY <3>1 DEF InvalidateAssoc
    <3> QED
      BY <2>1, <2>6, <3>1
         DEF ResponseStep, RetrieveAssoc, VerifySignature, Verdict, CheckNonce,
             InsertNonce, EndIdRes, SessionExists, tables
  <2>7. ASSUME NEW w \in Worker, KillSession(w) PROVE Due
    BY <2>7 DEF KillSession
  <2>8. ASSUME NEW w \in Worker,
               Open(w) \/ FindAssoc(w) \/ PrintRows(w) \/ Close(w) \/ Refuse(w)
        PROVE  Due
    BY <2>1, <2>8 DEF Open, FindAssoc, PrintRows, Close, Refuse, tables
  <2> QED
    BY <2>2, <2>3, <2>4, <2>5, <2>6, <2>7, <2>8 DEF Next, Statement, Decide
<1> QED
  BY InitInv, StepInv, <1>1, PTL DEF Spec, DroppedOnlyWhenDue

--------------------------------------------------------------------------------
(* MoidConsumer implements LoginAttempts, for every value of the constants *)
(* for which no expires_on overflows: each step of a handler is a step of  *)
(* the abstract specification or changes nothing it can see.               *)

AbsVisit == [w \in Worker |-> Abstract(mc[w])]

\* The call is under way: it has no answer yet.
Pending(c) == c.pc \notin {"none", "accepted", "close", "done"}

\* w's object serves the call it served before.
SameCall(w) ==
  /\ \A v \in Worker \ {w} : mc'[v] = mc[v]
  /\ mc'[w].task = mc[w].task /\ mc'[w].asnonceid = mc[w].asnonceid
  /\ mc'[w].began = mc[w].began

LEMMA VisitStep ==
  ASSUME NEW w \in Worker, \A v \in Worker \ {w} : mc'[v] = mc[v]
  PROVE  AbsVisit' = [AbsVisit EXCEPT ![w] = Abstract(mc'[w])]
<1>1. AbsVisit' = [v \in Worker |-> Abstract(mc'[v])]
  BY DEF AbsVisit
<1>2. \A v \in Worker \ {w} : Abstract(mc'[v]) = AbsVisit[v]
  BY DEF AbsVisit
<1> QED
  BY <1>1, <1>2 DEF AbsVisit

\* A visit for the call of c, in the given state.
View(c, phase, registered, uri, result) ==
  [phase |-> phase, task |-> c.task, nonce |-> c.asnonceid, began |-> c.began,
   registered |-> registered, uri |-> uri, result |-> result]

LEMMA ViewUpdate ==
  ASSUME NEW c, NEW phase, NEW registered, NEW uri, NEW result, NEW x
  PROVE  /\ [View(c, phase, registered, uri, result) EXCEPT !.phase = x]
              = View(c, x, registered, uri, result)
         /\ [View(c, phase, registered, uri, result) EXCEPT !.registered = x]
              = View(c, phase, x, uri, result)
         /\ [View(c, phase, registered, uri, result) EXCEPT !.uri = x]
              = View(c, phase, registered, x, result)
         /\ [View(c, phase, registered, uri, result) EXCEPT !.result = x]
              = View(c, phase, registered, uri, x)
  BY DEF View

LEMMA ViewEnded ==
  ASSUME NEW c, NEW phase, NEW registered, NEW uri, NEW result, NEW x
  PROVE  LA!Ended(View(c, phase, registered, uri, result), x)
           = View(c, "answered", registered, uri, x)
<1> DEFINE v == View(c, phase, registered, uri, result)
<1>1. LA!Ended(v, x) = [[v EXCEPT !.phase = "answered"] EXCEPT !.result = x]
  BY DEF LA!Ended
<1>2. [v EXCEPT !.phase = "answered"] = View(c, "answered", registered, uri, result)
  BY ViewUpdate
<1> HIDE DEF v
<1>3. LA!Ended(v, x) = [View(c, "answered", registered, uri, result) EXCEPT !.result = x]
  BY <1>1, <1>2
<1>4. [View(c, "answered", registered, uri, result) EXCEPT !.result = x]
        = View(c, "answered", registered, uri, x)
  BY DEF View
<1> QED
  BY <1>3, <1>4 DEF v

LEMMA AbstractPending ==
  ASSUME NEW c, Local(c), Pending(c)
  PROVE  Abstract(c) = View(c, "pending", c.endpoint_set, None, None)
<1>1. c.result = None /\ c.result # "redirect"
  BY NoneAssumption DEF Local, Pending
<1> QED
  BY <1>1 DEF Abstract, Pending, View

LEMMA AbstractAdmitted ==
  ASSUME NEW c, Local(c), c.pc = "accepted"
  PROVE  Abstract(c) = View(c, "admitted", c.endpoint_set, None, None)
<1>1. c.result = None /\ c.result # "redirect"
  BY NoneAssumption DEF Local
<1> QED
  BY <1>1 DEF Abstract, View

LEMMA AbstractAnswered ==
  ASSUME NEW c, c.pc = "close", c.result # "redirect"
  PROVE  Abstract(c) = View(c, "answered", c.endpoint_set, None, c.result)
  BY DEF Abstract, View

LEMMA AbstractPhase ==
  ASSUME NEW c
  PROVE  Abstract(c).phase = "idle" <=> c.pc = "none"
  BY DEF Abstract

LEMMA AbstractIdle == Abstract(NoCall) = LA!Idle
  BY NoneAssumption DEF Abstract, NoCall, LA!Idle

LEMMA InvLocal ==
  ASSUME Inv, NEW w \in Worker
  PROVE  /\ TypeOK /\ Local(mc[w]) /\ mc \in [Worker -> Object] /\ mc[w] \in Object
         /\ AbsVisit[w] = Abstract(mc[w])
  BY DEF Inv, TypeInv, TypeOK, AbsVisit

\* A step inside a call that nobody sees.
LEMMA Hidden ==
  ASSUME Inv, Inv', NEW w \in Worker, SameCall(w), Pending(mc[w]), Pending(mc'[w]),
         mc'[w].endpoint_set = mc[w].endpoint_set
  PROVE  AbsVisit' = AbsVisit
<1>1. Local(mc[w]) /\ Local(mc'[w])
  BY DEF Inv, TypeInv
<1>2. Abstract(mc'[w]) = Abstract(mc[w])
  BY <1>1, AbstractPending DEF SameCall, View
<1> QED
  BY <1>2 DEF AbsVisit, SameCall

\* A step that ends a call without sending the browser to its provider.
LEMMA Answered ==
  ASSUME Inv, NEW w \in Worker, SameCall(w), Pending(mc[w]) \/ mc[w].pc = "accepted",
         mc'[w].pc = "close", mc'[w].result # "redirect",
         mc'[w].endpoint_set = mc[w].endpoint_set
  PROVE  AbsVisit' = [AbsVisit EXCEPT ![w] = LA!Ended(@, mc'[w].result)]
<1>1. PICK phase : AbsVisit[w] = View(mc[w], phase, mc[w].endpoint_set, None, None)
  BY InvLocal, AbstractPending, AbstractAdmitted
<1>2. Abstract(mc'[w]) = View(mc[w], "answered", mc[w].endpoint_set, None, mc'[w].result)
  BY AbstractAnswered DEF SameCall, View
<1>3. Abstract(mc'[w]) = LA!Ended(AbsVisit[w], mc'[w].result)
  BY <1>1, <1>2, ViewEnded
<1> QED
  BY <1>3, VisitStep DEF SameCall

\* A step that ends a pending call with an error or a listing.
LEMMA Failed ==
  ASSUME Inv, NEW w \in Worker, SameCall(w), Pending(mc[w]),
         mc'[w].pc = "close", mc'[w].result \in {"threw", "unknown", "printed"},
         mc'[w].endpoint_set = mc[w].endpoint_set,
         UNCHANGED <<now, authentication_sessions, known, redeemed>>
  PROVE  LA!Fail(w)
<1>1. AbsVisit[w].phase = "pending"
  BY InvLocal, AbstractPending DEF View
<1>2. PICK r \in {"threw", "unknown", "printed"} :
        AbsVisit' = [AbsVisit EXCEPT ![w] = LA!Ended(@, r)]
  BY Answered
<1> QED
  BY <1>1, <1>2 DEF LA!Fail, AbsVisit

LEMMA FinishFails ==
  ASSUME Inv, NEW w \in Worker, Pending(mc[w]),
         NEW result \in {"threw", "printed"}, Finish(w, result),
         UNCHANGED <<now, tables, known, history>>
  PROVE  LA!Fail(w)
<1>1. /\ SameCall(w) /\ mc'[w].pc = "close" /\ mc'[w].result = result
      /\ mc'[w].endpoint_set = mc[w].endpoint_set
  BY InvLocal DEF Finish, Object, SameCall
<1> QED
  BY <1>1, Failed DEF tables, history

--------------------------------------------------------------------------------
(* The steps both kinds of call share.                                     *)

LEMMA OpenHidden ==
  ASSUME Inv, Inv', NEW w \in Worker, Open(w)
  PROVE  UNCHANGED <<now, authentication_sessions, known, redeemed, AbsVisit>>
<1>1. /\ SameCall(w) /\ mc'[w].endpoint_set = mc[w].endpoint_set
      /\ Pending(mc[w]) /\ Pending(mc'[w])
  BY InvLocal DEF Open, At, Object, SameCall, Pending
<1> QED
  BY <1>1, Hidden DEF Open, tables, history

LEMMA WeenExpiredRefines ==
  ASSUME Inv, Inv', NEW w \in Worker, WeenExpired(w)
  PROVE  LA!Purge
<1>1. PICK ok \in BOOLEAN : TestResult(w, ok, mc[w].then)
  BY DEF WeenExpired
<1>2. mc[w].then \in {"find_assoc", "store_assoc", "retrieve_assoc", "print"}
  BY InvLocal DEF WeenExpired, At, Local
<1>3. /\ SameCall(w) /\ mc'[w].endpoint_set = mc[w].endpoint_set
      /\ mc'[w].pc = mc[w].then
  BY <1>1, InvLocal DEF TestResult, Object, SameCall
<1>4. AbsVisit' = AbsVisit
  BY <1>2, <1>3, Hidden DEF WeenExpired, At, Pending
<1>5. authentication_sessions' = authentication_sessions \
                                 (authentication_sessions \ authentication_sessions')
  BY DEF WeenExpired
<1>6. \A a \in authentication_sessions \ authentication_sessions' : a.expires_on < now
  BY WeenExpiredDrops
<1> QED
  BY <1>4, <1>5, <1>6 DEF WeenExpired, history, LA!Purge, AbsVisit

LEMMA FindAssocRefines ==
  ASSUME Inv, Inv', NEW w \in Worker, FindAssoc(w)
  PROVE  \/ UNCHANGED <<now, authentication_sessions, known, redeemed, AbsVisit>>
         \/ LA!Fail(w)
<1> DEFINE rows == {a \in associations : a.server = mc[w].server}
           found == IF mc[w].task = "checkid" THEN "get_endpoint_uri" ELSE "insert_nonce"
           missing == IF mc[w].task = "checkid" THEN "associate" ELSE "close"
<1>0. PICK ok \in Outcome(w), row \in rows \cup {None} :
        Selected(w, rows, ok, row, found, missing)
  <2>1. Select(w, rows, TRUE, found, missing)
    BY DEF FindAssoc
  <2>2. rows \in SUBSET Association /\ found \in PC /\ missing \in PC
    BY InvLocal DEF TypeOK, PC, LoginPC, ResponsePC
  <2> QED
    BY <2>1, <2>2, InvLocal, SelectGoes
<1>1. /\ SameCall(w) /\ mc'[w].endpoint_set = mc[w].endpoint_set
      /\ \/ mc'[w].pc \in {"get_endpoint_uri", "insert_nonce", "associate"}
         \/ mc'[w].pc = "close" /\ mc'[w].result = "threw"
  BY <1>0 DEF Selected, Goes, SameCall
<1>2. Pending(mc[w]) /\ UNCHANGED <<now, authentication_sessions, known, redeemed>>
  BY DEF FindAssoc, At, Pending, tables, history
<1>3. CASE Pending(mc'[w])
  BY <1>1, <1>2, <1>3, Hidden
<1> QED
  BY <1>1, <1>2, <1>3, Failed DEF Pending

LEMMA PrintRowsRefines ==
  ASSUME Inv, NEW w \in Worker, PrintRows(w)
  PROVE  LA!Fail(w)
  BY FinishFails DEF PrintRows, At, Pending

LEMMA CloseHidden ==
  ASSUME Inv, NEW w \in Worker, Close(w)
  PROVE  UNCHANGED <<now, authentication_sessions, known, redeemed, AbsVisit>>
<1>1. /\ SameCall(w) /\ mc'[w].endpoint_set = mc[w].endpoint_set
      /\ mc[w].pc = "close" /\ mc'[w].pc = "done"
      /\ mc'[w].result = mc[w].result /\ mc'[w].row = mc[w].row
  BY InvLocal DEF Close, At, Object, SameCall
<1>2. Abstract(mc'[w]) = Abstract(mc[w])
  BY <1>1 DEF Abstract, SameCall
<1>3. AbsVisit' = AbsVisit
  BY <1>1, <1>2 DEF AbsVisit, SameCall
<1> QED
  BY <1>3 DEF Close, tables, history

--------------------------------------------------------------------------------
(* Starting a login.                                                       *)

LEMMA LoginHidden ==
  ASSUME Inv, Inv', NEW w \in Worker,
         \/ BeginQueueing(w) \/ SetNormalizedId(w)
         \/ \E h \in Handle : Associate(w, h)
         \/ \E t \in AssocTerm : StoreAssoc(w, t)
  PROVE  UNCHANGED <<now, authentication_sessions, known, redeemed, AbsVisit>>
<1>1. Pending(mc[w]) /\ UNCHANGED <<now, authentication_sessions, known, redeemed>>
  BY BeginQueueingDrops
     DEF BeginQueueing, SetNormalizedId, Associate, StoreAssoc, At, Pending, tables, history
<1>2. /\ SameCall(w) /\ mc'[w].endpoint_set = mc[w].endpoint_set
      /\ mc'[w].pc \in {"discover", "get_endpoint", "ween_expired", "get_endpoint_uri"}
  <2>1. ASSUME NEW ok \in BOOLEAN,
               NEW next \in {"discover", "get_endpoint", "get_endpoint_uri"},
               TestResult(w, ok, next)
        PROVE  <1>2
    BY <2>1, InvLocal DEF TestResult, Object, SameCall
  <2>2. ASSUME NEW h \in Handle, Associate(w, h)
        PROVE  <1>2
    BY <2>2, InvLocal DEF Associate, Object, SameCall
  <2> QED
    BY <2>1, <2>2, OutcomeType DEF BeginQueueing, SetNormalizedId, StoreAssoc
<1> QED
  BY <1>1, <1>2, Hidden DEF Pending

LEMMA QueueEndpointRefines ==
  ASSUME MaxTime + Hour <= IntMax, Inv, NEW w \in Worker, NEW uri \in Server,
         QueueEndpoint(w, uri)
  PROVE  LA!Register(w, uri)
<1>1. /\ TypeOK /\ mc[w] \in Object /\ mc[w].task = "checkid" /\ ~mc[w].endpoint_set
      /\ mc[w].pc = "discover"
      /\ AbsVisit[w] = View(mc[w], "pending", mc[w].endpoint_set, None, None)
  BY InvLocal, AbstractPending DEF QueueEndpoint, At, Local, LoginPC, Pending
<1>2. PICK ok \in Outcome(w), rawtime \in Sample(w) :
        /\ authentication_sessions' = authentication_sessions \cup
            {a \in {[nonce |-> mc[w].asnonceid, uri |-> uri,
                     expires_on |-> ToInt(rawtime + Hour)]} : ok}
        /\ mc' = [mc EXCEPT ![w].clock = now, ![w].endpoint_set = TRUE,
                            ![w].is_closed = IF ok THEN @ ELSE TRUE]
  BY DEF QueueEndpoint
<1>3. ok \in BOOLEAN
  BY OutcomeType
<1>4. /\ SameCall(w) /\ mc'[w].endpoint_set = TRUE
      /\ mc'[w].pc = mc[w].pc /\ mc'[w].result = mc[w].result
  BY <1>2, InvLocal DEF Object, SameCall
<1>5. Abstract(mc'[w]) = View(mc[w], "pending", mc'[w].endpoint_set, None, None)
  <2>1. mc'[w].result # "redirect" /\ mc'[w].result = None
    BY <1>1, <1>4, InvLocal, NoneAssumption DEF Local
  <2> QED
    BY <1>1, <1>4, <2>1 DEF Abstract, View, SameCall
<1>6. AbsVisit' = [AbsVisit EXCEPT ![w].registered = TRUE]
  <2>1. AbsVisit' = [AbsVisit EXCEPT ![w].registered = mc'[w].endpoint_set]
    <3>1. [View(mc[w], "pending", mc[w].endpoint_set, None, None)
             EXCEPT !.registered = mc'[w].endpoint_set]
            = View(mc[w], "pending", mc'[w].endpoint_set, None, None)
      BY DEF View
    <3> QED
      BY <1>1, <1>4, <1>5, <3>1, VisitStep DEF SameCall
  <2>2. mc'[w].endpoint_set = TRUE
    BY <1>4
  <2> QED
    BY <2>1, <2>2, Zenon
<1>7. /\ mc[w].began \in Int /\ mc[w].clock \in Int
      /\ now \in Int /\ now <= MaxTime /\ MaxTime \in Int /\ IntMax \in Int /\ Hour \in Int
      /\ mc[w].began <= mc[w].clock
  BY <1>1, ClockAssumption, TermType, InvLocal DEF TypeOK, Object, Local
<1>8. rawtime \in Int /\ mc[w].began <= rawtime /\ rawtime <= now
  BY <1>7 DEF Sample
<1>9. /\ ToInt(rawtime + Hour) = rawtime + Hour
      /\ rawtime + Hour \in (mc[w].began + Hour) .. (now + Hour)
  BY <1>7, <1>8, ToIntFits
<1>10. AbsVisit[w].phase = "pending" /\ AbsVisit[w].task = "checkid"
       /\ ~AbsVisit[w].registered
       /\ AbsVisit[w].began = mc[w].began /\ AbsVisit[w].nonce = mc[w].asnonceid
  BY <1>1 DEF View
<1>11. \/ \E e \in (AbsVisit[w].began + Hour) .. (now + Hour) :
            authentication_sessions' = authentication_sessions \cup
              {[nonce |-> AbsVisit[w].nonce, uri |-> uri, expires_on |-> e]}
       \/ authentication_sessions' = authentication_sessions
  <2>1. CASE ok
    BY <1>2, <1>9, <1>10, <2>1
  <2>2. CASE ~ok
    BY <1>2, <2>2
  <2> QED
    BY <1>3, <2>1, <2>2
<1> QED
  BY <1>6, <1>10, <1>11 DEF QueueEndpoint, history, LA!Register, AbsVisit

LEMMA GetEndpointRefines ==
  ASSUME Inv, Inv', NEW w \in Worker, GetEndpoint(w)
  PROVE  \/ UNCHANGED <<now, authentication_sessions, known, redeemed, AbsVisit>>
         \/ LA!Fail(w)
<1>1. Pending(mc[w]) /\ UNCHANGED <<now, tables, known, history>>
  BY DEF GetEndpoint, At, Pending
<1>2. CASE Finish(w, "threw")
  BY <1>1, <1>2, FinishFails
<1>3. CASE mc'[w].pc = "ween_expired" /\ SameCall(w)
           /\ mc'[w].endpoint_set = mc[w].endpoint_set
  BY <1>1, <1>3, Hidden DEF Pending, tables, history
<1>4. Finish(w, "threw") \/ (/\ mc'[w].pc = "ween_expired" /\ SameCall(w)
                             /\ mc'[w].endpoint_set = mc[w].endpoint_set)
  BY InvLocal DEF GetEndpoint, Object, SameCall
<1> QED
  BY <1>2, <1>3, <1>4

LEMMA GetEndpointUriRefines ==
  ASSUME Inv, NEW w \in Worker, GetEndpointUri(w)
  PROVE  LA!Redirect(w) \/ LA!Fail(w)
<1>1. Pending(mc[w]) /\ UNCHANGED <<now, tables, known, history>>
  BY DEF GetEndpointUri, At, Pending
<1>2. CASE Finish(w, "threw")
  BY <1>1, <1>2, FinishFails
<1>3. ASSUME NEW a \in Endpoints(w),
             mc' = [mc EXCEPT ![w].pc = "close", ![w].clock = now,
                              ![w].row = a, ![w].result = "redirect"]
      PROVE  LA!Redirect(w)
  <2>1. /\ AbsVisit[w] = View(mc[w], "pending", mc[w].endpoint_set, None, None)
        /\ mc[w].task = "checkid"
    BY <1>1, InvLocal, AbstractPending DEF GetEndpointUri, At, Local, LoginPC
  <2>2. /\ SameCall(w) /\ mc'[w].endpoint_set = mc[w].endpoint_set
        /\ mc'[w].pc = "close" /\ mc'[w].result = "redirect" /\ mc'[w].row = a
    BY <1>3, InvLocal DEF Object, SameCall
  <2>3. Abstract(mc'[w]) = View(mc[w], "answered", mc[w].endpoint_set, a.uri, "redirect")
    BY <2>2 DEF Abstract, View, SameCall
  <2>4. Abstract(mc'[w]) = [LA!Ended(AbsVisit[w], "redirect") EXCEPT !.uri = a.uri]
    <3>1. LA!Ended(AbsVisit[w], "redirect")
            = View(mc[w], "answered", mc[w].endpoint_set, None, "redirect")
      BY <2>1, ViewEnded
    <3>2. [View(mc[w], "answered", mc[w].endpoint_set, None, "redirect") EXCEPT !.uri = a.uri]
            = View(mc[w], "answered", mc[w].endpoint_set, a.uri, "redirect")
      BY DEF View
    <3> QED
      BY <2>3, <3>1, <3>2
  <2>5. AbsVisit' = [AbsVisit EXCEPT ![w] = [LA!Ended(@, "redirect") EXCEPT !.uri = a.uri]]
    BY <2>2, <2>4, VisitStep DEF SameCall
  <2>6. /\ AbsVisit[w].phase = "pending" /\ AbsVisit[w].task = "checkid"
        /\ AbsVisit[w].nonce = mc[w].asnonceid
    BY <2>1 DEF View
  <2>7. a \in authentication_sessions /\ a.nonce = AbsVisit[w].nonce
    BY <2>6 DEF Endpoints
  <2> QED
    BY <1>1, <2>5, <2>6, <2>7 DEF LA!Redirect, AbsVisit, tables, history
<1> QED
  BY <1>2, <1>3 DEF GetEndpointUri

--------------------------------------------------------------------------------
(* Validating a response.                                                  *)

LEMMA ResponseHidden ==
  ASSUME Inv, Inv', NEW w \in Worker,
         \/ RetrieveAssoc(w) \/ CheckNonce(w) \/ InsertNonce(w)
         \/ \E h \in Handle : InvalidateAssoc(w, h)
  PROVE  UNCHANGED <<now, authentication_sessions, known, redeemed, AbsVisit>>
<1>1. Pending(mc[w]) /\ UNCHANGED <<now, authentication_sessions, known, redeemed>>
  BY DEF RetrieveAssoc, CheckNonce, InsertNonce, InvalidateAssoc, At, Pending, tables, history
<1>2. /\ SameCall(w) /\ mc'[w].endpoint_set = mc[w].endpoint_set
      /\ mc'[w].pc \in {"verify", "check_authentication", "verdict", "ween_expired",
                        "id_res_end"}
  <2>1. CASE RetrieveAssoc(w)
    <3> DEFINE rows == {a \in associations : a.server = mc[w].server
                                             /\ a.handle = mc[w].handle}
    <3>1. Select(w, rows, TRUE, "verify", "check_authentication")
      BY <2>1 DEF RetrieveAssoc
    <3>2. rows \in SUBSET Association
      BY InvLocal DEF TypeOK
    <3>3. PICK ok \in Outcome(w), row \in rows \cup {None} :
            Selected(w, rows, ok, row, "verify", "check_authentication")
      BY <3>1, <3>2, InvLocal, SelectGoes DEF PC, ResponsePC
    <3> QED
      BY <3>3 DEF Selected, Goes, SameCall
  <2>2. CASE CheckNonce(w)
    BY <2>2, InvLocal DEF CheckNonce, Object, SameCall
  <2>3. ASSUME NEW ok \in BOOLEAN, NEW next \in {"verdict", "id_res_end"},
               TestResult(w, ok, next)
        PROVE  <1>2
    BY <2>3, InvLocal DEF TestResult, Object, SameCall
  <2> QED
    BY <2>1, <2>2, <2>3, OutcomeType DEF InsertNonce, InvalidateAssoc
<1> QED
  BY <1>1, <1>2, Hidden DEF Pending

LEMMA VerifyVerdictEndRefines ==
  ASSUME Inv, Inv', NEW w \in Worker, VerifySignature(w) \/ Verdict(w) \/ EndIdRes(w)
  PROVE  \/ UNCHANGED <<now, authentication_sessions, known, redeemed, AbsVisit>>
         \/ LA!Fail(w)
<1>1. /\ Pending(mc[w]) /\ UNCHANGED <<now, tables, known, history>>
      /\ \/ \E next \in {"check_nonce", "session_exists"} : TestResult(w, TRUE, next)
         \/ Finish(w, "threw")
  BY DEF VerifySignature, Verdict, EndIdRes, At, Pending
<1>2. ASSUME NEW next \in {"check_nonce", "session_exists"}, TestResult(w, TRUE, next)
      PROVE  UNCHANGED <<now, authentication_sessions, known, redeemed, AbsVisit>>
  <2>1. /\ SameCall(w) /\ mc'[w].endpoint_set = mc[w].endpoint_set /\ mc'[w].pc = next
    BY <1>2, InvLocal DEF TestResult, Object, SameCall
  <2> QED
    BY <1>1, <2>1, Hidden DEF Pending, tables, history
<1> QED
  BY <1>1, <1>2, FinishFails

LEMMA SessionExistsRefines ==
  ASSUME Inv, Inv', NEW w \in Worker, SessionExists(w)
  PROVE  LA!Admit(w) \/ LA!Fail(w)
<1>1. /\ Pending(mc[w]) /\ mc[w].task = "id_res"
      /\ UNCHANGED <<now, authentication_sessions, known, redeemed>>
      /\ AbsVisit[w] = View(mc[w], "pending", mc[w].endpoint_set, None, None)
  BY InvLocal, AbstractPending
     DEF SessionExists, At, Pending, Local, ResponsePC, tables, history
<1>2. ASSUME NEW ok \in BOOLEAN,
             mc' = [mc EXCEPT ![w].pc = "close", ![w].clock = now,
                              ![w].is_closed = IF ok THEN @ ELSE TRUE,
                              ![w].result = "unknown"]
      PROVE  LA!Fail(w)
  <2>1. /\ SameCall(w) /\ mc'[w].endpoint_set = mc[w].endpoint_set
        /\ mc'[w].pc = "close" /\ mc'[w].result = "unknown"
    BY <1>2, InvLocal DEF Object, SameCall
  <2> QED
    BY <1>1, <2>1, Failed
<1>3. ASSUME NEW a \in Endpoints(w),
             mc' = [mc EXCEPT ![w].pc = "accepted", ![w].clock = now, ![w].row = a]
      PROVE  LA!Admit(w)
  <2>1. /\ SameCall(w) /\ mc'[w].endpoint_set = mc[w].endpoint_set
        /\ mc'[w].pc = "accepted" /\ mc'[w].row = a
    BY <1>3, InvLocal DEF Object, SameCall
  <2>2. Abstract(mc'[w]) = View(mc[w], "admitted", mc[w].endpoint_set, None, None)
    <3>1. Local(mc'[w])
      BY DEF Inv, TypeInv
    <3> QED
      BY <2>1, <3>1, AbstractAdmitted DEF SameCall, View
  <2>3. [View(mc[w], "pending", mc[w].endpoint_set, None, None) EXCEPT !.phase = "admitted"]
          = View(mc[w], "admitted", mc[w].endpoint_set, None, None)
    BY DEF View
  <2>4. AbsVisit' = [AbsVisit EXCEPT ![w].phase = "admitted"]
    BY <1>1, <2>1, <2>2, <2>3, VisitStep DEF SameCall
  <2>5. /\ AbsVisit[w].phase = "pending" /\ AbsVisit[w].task = "id_res"
        /\ AbsVisit[w].nonce = mc[w].asnonceid /\ AbsVisit[w].began = mc[w].began
    BY <1>1 DEF View
  <2>6. a.expires_on >= mc[w].began
    BY <2>1 DEF Inv, Sound, AnswerSound, SameCall
  <2>7. a \in authentication_sessions /\ a.nonce = AbsVisit[w].nonce
        /\ a.expires_on >= AbsVisit[w].began
    BY <2>5, <2>6 DEF Endpoints
  <2> QED
    BY <1>1, <2>4, <2>5, <2>7 DEF LA!Admit, AbsVisit
<1> QED
  BY <1>2, <1>3, OutcomeType DEF SessionExists

LEMMA DecideRefines ==
  ASSUME Inv, NEW w \in Worker, Decide(w)
  PROVE  LA!Refuse(w) \/ LA!Grant(w)
<1>1. /\ mc[w].pc = "accepted" /\ UNCHANGED <<now, known>>
      /\ AbsVisit[w].phase = "admitted" /\ AbsVisit[w].nonce = mc[w].asnonceid
  <2>1. mc[w].pc = "accepted" /\ UNCHANGED <<now, known>>
    BY DEF Decide, Refuse, KillSession, At
  <2>2. AbsVisit[w] = View(mc[w], "admitted", mc[w].endpoint_set, None, None)
    BY <2>1, InvLocal, AbstractAdmitted
  <2> QED
    BY <2>1, <2>2 DEF View
<1>2. CASE Refuse(w)
  <2>1. /\ SameCall(w) /\ mc'[w].endpoint_set = mc[w].endpoint_set
        /\ mc'[w].pc = "close" /\ mc'[w].result = "refused"
    BY <1>2, InvLocal DEF Refuse, Finish, Object, SameCall
  <2>2. AbsVisit' = [AbsVisit EXCEPT ![w] = LA!Ended(@, "refused")]
    BY <1>1, <2>1, Answered
  <2> QED
    BY <1>1, <1>2, <2>2 DEF Refuse, LA!Refuse, AbsVisit, tables, history
<1>3. CASE KillSession(w)
  <2>1. PICK ok \in BOOLEAN :
         /\ authentication_sessions' =
              {a \in authentication_sessions : ok => a.nonce # mc[w].asnonceid}
         /\ redeemed' = redeemed \cup {n \in {mc[w].asnonceid} : ok}
         /\ mc' = [mc EXCEPT ![w].pc = "close", ![w].clock = now,
                             ![w].is_closed = IF ok THEN @ ELSE TRUE,
                             ![w].result = "granted"]
    BY <1>3, OutcomeType DEF KillSession
  <2>2. /\ SameCall(w) /\ mc'[w].endpoint_set = mc[w].endpoint_set
        /\ mc'[w].pc = "close" /\ mc'[w].result = "granted"
    BY <2>1, InvLocal DEF Object, SameCall
  <2>3. AbsVisit' = [AbsVisit EXCEPT ![w] = LA!Ended(@, "granted")]
    BY <1>1, <2>2, Answered
  <2>4. \/ /\ authentication_sessions' =
                {a \in authentication_sessions : a.nonce # AbsVisit[w].nonce}
           /\ redeemed' = redeemed \cup {AbsVisit[w].nonce}
        \/ UNCHANGED <<authentication_sessions, redeemed>>
    <3>1. CASE ok
      BY <1>1, <2>1, <3>1
    <3>2. CASE ~ok
      BY <2>1, <3>2
    <3> QED
      BY <3>1, <3>2
  <2> QED
    BY <1>1, <2>3, <2>4 DEF LA!Grant, AbsVisit
<1> QED
  BY <1>2, <1>3 DEF Decide

--------------------------------------------------------------------------------
(* Calls that begin and end, and the refinement.                           *)

LEMMA BeginRefines ==
  ASSUME Inv, Inv', NEW w \in Worker, NEW task \in {"checkid", "id_res", "print"},
         NEW n \in Nonce \cup {None}, NEW s \in Server \cup {None},
         NEW h \in Handle \cup {None}, NEW rn \in ResponseNonce \cup {None},
         Begin(w, task, n, s, h, rn)
  PROVE  LA!Enter(w, task, n)
<1>1. /\ mc[w].pc = "none" /\ \A v \in Worker \ {w} : mc'[v] = mc[v]
      /\ mc'[w].pc = "open" /\ mc'[w].task = task /\ mc'[w].asnonceid = n
      /\ mc'[w].began = now /\ ~mc'[w].endpoint_set /\ mc'[w] \in Object
      /\ UNCHANGED <<now, tables, history>>
  <2>1. TypeOK
    BY InvLocal
  <2>2. Begun(w, task, n, s, h, rn)
    BY <2>1, BeginType
  <2> QED
    BY <2>2 DEF Begun
<1> DEFINE b == mc'[w].endpoint_set
<1>2. b = FALSE
  <2>1. b \in BOOLEAN
    BY <1>1 DEF Object
  <2> QED
    BY <1>1, <2>1
<1>b. b = mc'[w].endpoint_set
  OBVIOUS
<1> HIDE DEF b
<1> DEFINE v == [phase |-> "pending", task |-> task, nonce |-> n, began |-> now,
                 registered |-> b, uri |-> None, result |-> None]
<1>3. Abstract(mc'[w]) = v
  <2>1. Local(mc'[w]) /\ Pending(mc'[w])
    BY <1>1 DEF Inv, TypeInv, Pending
  <2> QED
    BY <1>1, <1>b, <2>1, AbstractPending DEF View
<1>4. [LA!Idle EXCEPT !.phase = "pending", !.task = task, !.nonce = n, !.began = now] = v
  <2>1. LA!Idle = [phase |-> "idle", task |-> None, nonce |-> None, began |-> StartTime,
                   registered |-> b, uri |-> None, result |-> None]
    BY <1>2, Zenon DEF LA!Idle
  <2>2. [LA!Idle EXCEPT !.phase = "pending"]
          = [phase |-> "pending", task |-> None, nonce |-> None, began |-> StartTime,
             registered |-> b, uri |-> None, result |-> None]
    BY <2>1
  <2>3. [[phase |-> "pending", task |-> None, nonce |-> None, began |-> StartTime,
          registered |-> b, uri |-> None, result |-> None] EXCEPT !.task = task]
          = [phase |-> "pending", task |-> task, nonce |-> None, began |-> StartTime,
             registered |-> b, uri |-> None, result |-> None]
    OBVIOUS
  <2>4. [[phase |-> "pending", task |-> task, nonce |-> None, began |-> StartTime,
          registered |-> b, uri |-> None, result |-> None] EXCEPT !.nonce = n]
          = [phase |-> "pending", task |-> task, nonce |-> n, began |-> StartTime,
             registered |-> b, uri |-> None, result |-> None]
    OBVIOUS
  <2>5. [[phase |-> "pending", task |-> task, nonce |-> n, began |-> StartTime,
          registered |-> b, uri |-> None, result |-> None] EXCEPT !.began = now] = v
    OBVIOUS
  <2> QED
    BY <2>2, <2>3, <2>4, <2>5
<1>5. AbsVisit' = [AbsVisit EXCEPT ![w] =
                     [LA!Idle EXCEPT !.phase = "pending", !.task = task, !.nonce = n,
                                     !.began = now]]
  BY <1>1, <1>3, <1>4, VisitStep
<1>6. AbsVisit[w].phase = "idle"
  BY <1>1, InvLocal, AbstractPhase
<1> QED
  BY <1>1, <1>5, <1>6 DEF LA!Enter, AbsVisit, tables, history

LEMMA CallRefines ==
  ASSUME Inv, Inv', NEW w \in Worker, Call(w)
  PROVE  LA!Next
<1>1. ASSUME NEW n \in Nonce, StartLogin(w, n)
      PROVE  LA!StartLogin(w, n)
  BY <1>1, BeginRefines DEF StartLogin, LA!StartLogin
<1>2. ASSUME NEW n \in Nonce, NEW s \in Server, NEW h \in Handle, NEW rn \in ResponseNonce,
             ReceiveResponse(w, n, s, h, rn)
      PROVE  LA!ReceiveResponse(w, n)
  <2>1. \A v \in Worker : AbsVisit[v].task = mc[v].task /\ AbsVisit[v].nonce = mc[v].asnonceid
    BY DEF AbsVisit, Abstract
  <2>2. \A v \in Worker : AbsVisit[v].task = "checkid" => AbsVisit[v].nonce # n
    BY <1>2, <2>1 DEF ReceiveResponse
  <2> QED
    BY <1>2, <2>2, BeginRefines DEF ReceiveResponse, LA!ReceiveResponse, AbsVisit
<1>3. ASSUME PrintTables(w)
      PROVE  LA!PrintTables(w)
  BY <1>3, BeginRefines DEF PrintTables, LA!PrintTables
<1> QED
  BY <1>1, <1>2, <1>3 DEF Call, LA!Next

LEMMA ReturnRefines ==
  ASSUME Inv, NEW w \in Worker, Return(w) \/ Crash(w)
  PROVE  LA!Leave(w)
<1>1. /\ mc[w].pc # "none" /\ mc'[w] = NoCall
      /\ \A v \in Worker \ {w} : mc'[v] = mc[v]
      /\ UNCHANGED <<now, authentication_sessions, known, redeemed>>
  BY InvLocal DEF Return, Crash, At, tables, history
<1>2. AbsVisit' = [AbsVisit EXCEPT ![w] = LA!Idle]
  BY <1>1, VisitStep, AbstractIdle
<1>3. AbsVisit[w].phase # "idle"
  BY <1>1, InvLocal, AbstractPhase
<1> QED
  BY <1>1, <1>2, <1>3 DEF LA!Leave, AbsVisit

LEMMA StatementRefines ==
  ASSUME MaxTime + Hour <= IntMax, Inv, Inv', NEW w \in Worker, Statement(w)
  PROVE  \/ LA!Next
         \/ UNCHANGED <<now, authentication_sessions, known, redeemed, AbsVisit>>
<1>1. CASE LoginStep(w)
  <2>1. CASE DiscoveryFails(w) \/ AssociateFails(w)
    <3>1. LA!Fail(w)
      BY <2>1, FinishFails DEF DiscoveryFails, AssociateFails, At, Pending
    <3> QED
      BY <3>1 DEF LA!Next
  <2>2. ASSUME NEW uri \in Server, QueueEndpoint(w, uri) PROVE LA!Next
    BY <2>2, QueueEndpointRefines DEF LA!Next
  <2>3. CASE GetEndpoint(w)
    BY <2>3, GetEndpointRefines DEF LA!Next
  <2>4. CASE GetEndpointUri(w)
    BY <2>4, GetEndpointUriRefines DEF LA!Next
  <2> QED
    BY <1>1, <2>1, <2>2, <2>3, <2>4, LoginHidden DEF LoginStep
<1>2. CASE ResponseStep(w)
  <2>1. CASE SessionExists(w)
    BY <2>1, SessionExistsRefines DEF LA!Next
  <2>2. CASE VerifySignature(w) \/ Verdict(w) \/ EndIdRes(w)
    BY <2>2, VerifyVerdictEndRefines DEF LA!Next
  <2> QED
    BY <1>2, <2>1, <2>2, ResponseHidden DEF ResponseStep
<1>3. CASE WeenExpired(w)
  BY <1>3, WeenExpiredRefines DEF LA!Next
<1>4. CASE FindAssoc(w)
  BY <1>4, FindAssocRefines DEF LA!Next
<1>5. CASE PrintRows(w)
  BY <1>5, PrintRowsRefines DEF LA!Next
<1>6. CASE Open(w) \/ Close(w)
  BY <1>6, OpenHidden, CloseHidden
<1> QED
  BY <1>1, <1>2, <1>3, <1>4, <1>5, <1>6 DEF Statement

LEMMA InitRefines == Init => LA!Init
  BY AbstractIdle DEF Init, LA!Init

LEMMA StepRefines ==
  ASSUME MaxTime + Hour <= IntMax, Inv, Inv', [Next]_vars
  PROVE  [LA!Next]_(LA!vars)
<1>1. ASSUME UNCHANGED <<now, authentication_sessions, known, redeemed, AbsVisit>>
      PROVE  UNCHANGED LA!vars
  BY <1>1 DEF LA!vars, AbsVisit
<1>2. CASE Tick
  BY <1>2 DEF Tick, tables, history, LA!Next, LA!Tick
<1>3. ASSUME NEW w \in Worker, Call(w) PROVE LA!Next
  BY <1>3, CallRefines
<1>4. ASSUME NEW w \in Worker, Statement(w) PROVE [LA!Next]_(LA!vars)
  BY <1>1, <1>4, StatementRefines
<1>5. ASSUME NEW w \in Worker, Decide(w) PROVE LA!Next
  BY <1>5, DecideRefines DEF LA!Next
<1>6. ASSUME NEW w \in Worker, Return(w) \/ Crash(w) PROVE LA!Next
  BY <1>6, ReturnRefines DEF LA!Next
<1>7. CASE UNCHANGED vars
  BY <1>7 DEF vars, tables, history, LA!vars
<1> QED
  BY <1>2, <1>3, <1>4, <1>5, <1>6, <1>7 DEF Next

\* As long as no expiry overflows an int, the login attempts are what LoginAttempts
\* says, whatever the statements of the other handlers do in between and whichever
\* of them fail: an attempt is registered once, lives its hour, admits only responses
\* that arrived within it, and none after it was redeemed.
THEOREM Refinement ==
  ASSUME MaxTime + Hour <= IntMax
  PROVE  Spec => ImplementsAttempts
<1>1. Inv /\ Inv' /\ [Next]_vars => [LA!Next]_(LA!vars)
  BY StepRefines
<1> QED
  BY InitInv, StepInv, InitRefines, <1>1, PTL DEF Spec, ImplementsAttempts, LA!Spec

================================================================================
