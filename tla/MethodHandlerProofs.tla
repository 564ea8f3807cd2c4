-------------------------- MODULE MethodHandlerProofs --------------------------
(***************************************************************************)
(* Theorems about MethodHandler for every set of processes, browsers,      *)
(* places and directives, every clock and every pattern of failures, with  *)
(* the proofs TLAPS checks.  The invariant is in three layers: what a      *)
(* worker holds between its steps (Held), what the names of the logins are *)
(* worth (LoginInv) and what the sessions are worth (SessionInv).          *)
(***************************************************************************)
EXTENDS MethodHandler, AuthorizationProofs, TLAPS

--------------------------------------------------------------------------------
(* The first layer: types, and what a request has at each of its phases.   *)

Lease == [session_id : SessionId, payload : Payload, expires_on : Int]
Attempt == [nonce : Nonce, uri : Server, expires_on : Int]

Call ==
  [phase : {"idle", "pending", "answered"}, op : {"get", "store", None},
   session_id : SessionId \cup {None}, payload : Payload \cup {None},
   began : StartTime .. MaxTime, answer : Lease \cup {None}]

Visit ==
  [phase : {"idle", "pending", "admitted", "answered"},
   task : {"checkid", "id_res", None}, nonce : Nonce \cup {None},
   began : StartTime .. MaxTime, registered : BOOLEAN, uri : Server \cup {None},
   result : {"redirect", "granted", "refused", "threw", "unknown", "printed", None}]

Phases ==
  {"idle", "session", "dispatch", "starting", "validating", "accepted", "cookie",
   "storing", "answered"}

\* A request in each of its phases, with the calls it makes there.
Local(r, c, v) ==
  /\ r.phase # "idle" => r.browser \in Browser /\ r.place \in Place
  /\ r.reply # None => r.phase = "answered"
  /\ r.phase \in {"idle", "answered"} => r.kind = None
  /\ r.phase = "starting" => r.kind # "response" /\ r.nonce \in Nonce
  /\ r.phase \in {"validating", "accepted"} => r.kind = "response" /\ r.nonce \in Nonce
  /\ r.reply = "redirect" => r.nonce \in Nonce /\ r.uri \in Server
  /\ r.phase \in {"cookie", "storing"} \/ r.reply = "cookie" <=> r.cookie # None
  /\ c.op = "get" <=> r.phase = "session"
  /\ c.op = "store" <=> r.phase = "storing"
  /\ c.op = None <=> c.phase = "idle"
  /\ c.op = "store" => c.session_id = r.cookie.session_id /\ c.payload = Session(r)
  /\ c.op = "get" => c.session_id \in SessionId
  /\ v.task = "checkid" <=> r.phase = "starting"
  /\ v.task = "id_res" <=> r.phase \in {"validating", "accepted"}
  /\ v.task = None <=> v.phase = "idle"
  /\ v.phase = "admitted" => v.task = "id_res"
  /\ v.phase = "pending" => v.result = None
  /\ v.task # None => v.nonce = r.nonce
  /\ v.task = "checkid" /\ v.result = "redirect" => v.uri \in Server

TypeInv ==
  /\ TypeOK
  /\ call \in [Worker -> Call]
  /\ visit \in [Worker -> Visit]
  /\ attempts \subseteq Attempt
  /\ used \subseteq Nonce
  /\ \A w \in Worker : Local(req[w], call[w], visit[w])

--------------------------------------------------------------------------------
(* The second layer: the names of the logins.                              *)

\* The name of a login that worker with visit v is starting.
Starts(v) == IF v.task = "checkid" THEN {v.nonce} ELSE {}

\* The name of a login that came from a browser or is on its way to one.
Knows(r) ==
  IF r.nonce # None /\ (r.kind = "response" \/ r.reply = "redirect") THEN {r.nonce} ELSE {}

\* No browser knows the name of a login that is being started; only one endpoint
\* is registered for it, after queue_endpoint.
StartSound(v) ==
  /\ Starts(v) \subseteq used
  /\ \A a \in asked : a.nonce \notin Starts(v)
  /\ \A a \in attempts : a.nonce \in Starts(v) =>
       v.registered /\ (v.result = "redirect" => v.uri = a.uri)

\* An attempt whose name a browser knows is for a provider that the directives of
\* the place where the login began allow.
AskSound(r) ==
  /\ Knows(r) \subseteq used
  /\ \A a \in attempts : a.nonce \in Knows(r) => IdpAllowed(Config[r.place], a.uri)

AskedSound ==
  /\ \A q \in asked : q.nonce \in used
  /\ \A q \in asked, a \in attempts :
       a.nonce = q.nonce => IdpAllowed(Config[q.place], a.uri)

OneEndpoint ==
  /\ \A a \in attempts : a.nonce \in used
  /\ \A a1, a2 \in attempts : a1.nonce = a2.nonce => a1.uri = a2.uri

\* Two workers never start the same login, and none works on the response to a
\* login that is being started.
StartsApart ==
  \A u, w \in Worker :
    /\ Starts(visit[u]) \cap Knows(req[w]) = {}
    /\ u # w => Starts(visit[u]) \cap Starts(visit[w]) = {}

LoginInv ==
  /\ \A w \in Worker : StartSound(visit[w])
  /\ \A w \in Worker : AskSound(req[w])
  /\ AskedSound
  /\ OneEndpoint
  /\ StartsApart

--------------------------------------------------------------------------------
(* The third layer: the sessions.                                          *)

\* The username that a login of browser b at place p brings.
LoginName(p, b) ==
  IF Config[p].use_ax /\ Config[p].use_ax_username THEN Username(b) ELSE Empty

\* One of the granted logins in log, of browser b.
LoggedIn(log, l, b) ==
  /\ l \in log
  /\ l.browser = b
  /\ Config[l.place].use_auth_program => b \in Approved

\* The session s, of a row or of an answer, comes from a login of browser b.
Good(log, s, b) ==
  \E l \in log :
    /\ LoggedIn(log, l, b)
    /\ s.hostname = l.place.hostname
    /\ s.path = CookiePath(l.place)
    /\ s.identity = Identity(b)
    /\ s.username = LoginName(l.place, b)

\* The id in the cookie that a request is about to set, and the id it asks for.
Mints(r) == IF r.cookie # None THEN {r.cookie.session_id} ELSE {}
Asks(c) == IF c.op = "get" THEN {c.session_id} ELSE {}

\* The rows under the id of a cookie that has not been sent yet belong to the
\* browser it goes to and outlive it; no browser has the id.
MintSound(r) ==
  /\ Mints(r) \subseteq drawn
  /\ \A b \in Browser : \A k \in jar[b] : k.session_id \notin Mints(r)
  /\ \A l \in leases : l.session_id \in Mints(r) =>
       /\ Good(logins, l.payload, r.browser)
       /\ Lifespan # 0 => r.cookie.expires <= l.expires_on
  /\ r.cookie # None /\ Lifespan # 0 =>
       r.cookie.expires \in Int /\ r.cookie.expires <= now + Lifespan

\* The rows a request asks for, and the one it gets, belong to its browser.
CallSound(r, c) ==
  /\ Asks(c) \subseteq drawn
  /\ \A l \in leases : l.session_id \in Asks(c) => Good(logins, l.payload, r.browser)
  /\ c.op = "get" /\ c.answer # None => Good(logins, c.answer.payload, r.browser)
  /\ c.op = "store" /\ Lifespan # 0 => r.cookie.expires <= c.began + Lifespan

\* A request after its response was accepted, and a page that is served.
GrantSound(r) ==
  /\ r.phase \in {"accepted", "cookie", "storing"} =>
       /\ LoggedIn(logins, [browser |-> r.browser, place |-> r.place], r.browser)
       /\ r.username = LoginName(r.place, r.browser)
  /\ r.reply = "ok" =>
       /\ Authorized(Config[r.place].requires, "GET", r.user)
       /\ \E l \in logins :
            /\ LoggedIn(logins, l, r.browser)
            /\ \/ l.place = r.place
               \/ /\ l.place.hostname = r.place.hostname
                  /\ IsPrefix(CookiePath(l.place), r.place.path)
            /\ r.user = RemoteUser(Config[r.place], Identity(r.browser),
                                   LoginName(l.place, r.browser))

JarSound ==
  /\ \A b \in Browser : \A k \in jar[b] : k.session_id \in drawn
  /\ \A b \in Browser : \A k \in jar[b], l \in leases : k.session_id = l.session_id =>
       /\ Good(logins, l.payload, b)
       /\ Lifespan # 0 => k.expires \in Int /\ k.expires <= l.expires_on

\* Two workers never make cookies with the same id, and none asks for an id that
\* has not been sent yet.
MintsApart ==
  \A u, w \in Worker :
    /\ Mints(req[u]) \cap Asks(call[w]) = {}
    /\ u # w => Mints(req[u]) \cap Mints(req[w]) = {}

SessionInv ==
  /\ \A w \in Worker : MintSound(req[w])
  /\ \A w \in Worker : CallSound(req[w], call[w])
  /\ \A w \in Worker : GrantSound(req[w])
  /\ \A l \in leases : l.session_id \in drawn
  /\ JarSound
  /\ MintsApart

Inv == TypeInv /\ LoginInv /\ SessionInv

--------------------------------------------------------------------------------
(* What a step does to the records of its worker.                          *)

LEMMA Update ==
  ASSUME NEW S, NEW f \in [Worker -> S], NEW w \in Worker, NEW x \in S
  PROVE  LET g == [f EXCEPT ![w] = x]
         IN g \in [Worker -> S] /\ g[w] = x /\ \A u \in Worker \ {w} : g[u] = f[u]
  OBVIOUS

LEMMA NoRequestType == NoRequest \in Request
  BY DEF NoRequest, Request, Names

LEMMA AnsweredIs ==
  ASSUME NEW r \in Request, NEW reply \in {"ok", "denied", "redirect", "cookie", "form"}
  PROVE  LET a == Answered(r, reply)
         IN /\ a \in Request
            /\ a.phase = "answered" /\ a.reply = reply
            /\ a.browser = r.browser /\ a.place = r.place
            /\ a.kind = None /\ a.nonce = None /\ a.uri = None /\ a.cookie = None
            /\ a.username = Empty /\ a.user = Empty
  BY ZenonT(60) DEF Answered, NoRequest, Request, Names

LEMMA FieldUpdate ==
  ASSUME NEW r \in Request
  PROVE  /\ \A x \in Phases : [r EXCEPT !.phase = x] \in Request
         /\ \A x \in Nonce \cup {None} : [r EXCEPT !.nonce = x] \in Request
         /\ \A x \in Server \cup {None} : [r EXCEPT !.uri = x] \in Request
         /\ \A x \in Names : [r EXCEPT !.username = x] \in Request
         /\ \A x \in Cookie \cup {None} : [r EXCEPT !.cookie = x] \in Request
         /\ \A x \in Names : [r EXCEPT !.user = x] \in Request
<1>1. \A x \in Phases : [r EXCEPT !.phase = x] \in Request
  BY DEF Request, Phases
<1>2. \A x \in Nonce \cup {None} : [r EXCEPT !.nonce = x] \in Request
  BY DEF Request
<1>3. \A x \in Server \cup {None} : [r EXCEPT !.uri = x] \in Request
  BY DEF Request
<1>4. \A x \in Names : [r EXCEPT !.username = x] \in Request
  BY DEF Request
<1>5. \A x \in Cookie \cup {None} : [r EXCEPT !.cookie = x] \in Request
  BY DEF Request
<1>6. \A x \in Names : [r EXCEPT !.user = x] \in Request
  BY DEF Request
<1> QED
  BY <1>1, <1>2, <1>3, <1>4, <1>5, <1>6

ReqStep(w) ==
  /\ req' \in [Worker -> Request]
  /\ \A u \in Worker \ {w} : req'[u] = req[u]
CallStep(w) ==
  /\ call' \in [Worker -> Call]
  /\ \A u \in Worker \ {w} : call'[u] = call[u]
VisitStep(w) ==
  /\ visit' \in [Worker -> Visit]
  /\ \A u \in Worker \ {w} : visit'[u] = visit[u]

LEMMA ReqBecomes ==
  ASSUME TypeInv, NEW w \in Worker, NEW r \in Request, req' = [req EXCEPT ![w] = r]
  PROVE  ReqStep(w) /\ req'[w] = r
  BY Update DEF TypeInv, TypeOK, ReqStep

LEMMA CallBecomes ==
  ASSUME TypeInv, NEW w \in Worker, NEW c \in Call, call' = [call EXCEPT ![w] = c]
  PROVE  CallStep(w) /\ call'[w] = c
  BY Update DEF TypeInv, CallStep

LEMMA VisitBecomes ==
  ASSUME TypeInv, NEW w \in Worker, NEW v \in Visit, visit' = [visit EXCEPT ![w] = v]
  PROVE  VisitStep(w) /\ visit'[w] = v
  BY Update DEF TypeInv, VisitStep

LEMMA Unchanged ==
  ASSUME TypeInv, NEW w \in Worker
  PROVE  /\ req' = req => ReqStep(w)
         /\ call' = call => CallStep(w)
         /\ visit' = visit => VisitStep(w)
  BY DEF TypeInv, TypeOK, ReqStep, CallStep, VisitStep

LEMMA Clock == ASSUME TypeInv PROVE now \in StartTime .. MaxTime /\ now \in Int /\ StartTime \in StartTime .. MaxTime
  BY ClockAssumption DEF TypeInv, TypeOK

\* SessionLeases.

LEMMA AskGoes ==
  ASSUME TypeInv, NEW w \in Worker, NEW op \in {"get", "store"}, NEW id \in SessionId,
         NEW p \in Payload \cup {None}, SL!Ask(w, op, id, p)
  PROVE  /\ CallStep(w) /\ now' = now /\ leases' = leases
         /\ call[w].phase = "idle"
         /\ call'[w].phase = "pending" /\ call'[w].op = op /\ call'[w].session_id = id
         /\ call'[w].payload = p /\ call'[w].began = now /\ call'[w].answer = None
<1> DEFINE c == [phase |-> "pending", op |-> op, session_id |-> id, payload |-> p,
                 began |-> now, answer |-> None]
<1>1. c \in Call
  BY Clock DEF Call
<1>2. call' = [call EXCEPT ![w] = c]
  BY DEF SL!Ask
<1>3. CallStep(w) /\ call'[w] = c
  BY <1>1, <1>2, CallBecomes
<1> QED
  BY <1>3 DEF SL!Ask

LEMMA CallAnswered ==
  ASSUME NEW c \in Call, NEW a \in Lease \cup {None}
  PROVE  LET d == SL!Answered(c, a)
         IN /\ d \in Call /\ d.phase = "answered" /\ d.op = c.op
            /\ d.session_id = c.session_id /\ d.payload = c.payload
            /\ d.began = c.began /\ d.answer = a
  BY DEF SL!Answered, Call

LEMMA AnswerGoes ==
  ASSUME TypeInv, NEW w \in Worker, SL!Answer(w)
  PROVE  /\ CallStep(w) /\ now' = now /\ leases' = leases
         /\ call[w].phase = "pending" /\ call[w].op = "get"
         /\ call'[w].phase = "answered" /\ call'[w].op = "get"
         /\ call'[w].session_id = call[w].session_id
         /\ call'[w].payload = call[w].payload /\ call'[w].began = call[w].began
         /\ call'[w].answer # None =>
              /\ call'[w].answer \in leases
              /\ call'[w].answer.session_id = call[w].session_id
<1>1. PICK l \in leases \cup {None} :
        /\ l # None => l.session_id = call[w].session_id
        /\ call' = [call EXCEPT ![w] = SL!Answered(call[w], l)]
  BY DEF SL!Answer, TypeInv
<1>2. l \in Lease \cup {None} /\ call[w] \in Call
  BY DEF TypeInv, TypeOK, Lease
<1> DEFINE d == SL!Answered(call[w], l)
<1>3. /\ d \in Call /\ d.phase = "answered" /\ d.op = call[w].op
      /\ d.session_id = call[w].session_id /\ d.payload = call[w].payload
      /\ d.began = call[w].began /\ d.answer = l
  BY <1>2, CallAnswered
<1>4. CallStep(w) /\ call'[w] = d
  BY <1>1, <1>3, CallBecomes
<1> HIDE DEF d
<1> QED
  BY <1>1, <1>3, <1>4 DEF SL!Answer

LEMMA GrantGoes ==
  ASSUME TypeInv, NEW w \in Worker, SL!Grant(w)
  PROVE  /\ CallStep(w) /\ now' = now
         /\ call[w].phase = "pending" /\ call[w].op = "store"
         /\ call'[w].phase = "answered" /\ call'[w].op = "store"
         /\ call'[w].session_id = call[w].session_id
         /\ call'[w].payload = call[w].payload /\ call'[w].began = call[w].began
         /\ call'[w].answer = None
         /\ \/ leases' = leases
            \/ \E e \in (call[w].began + Term) .. (now + Term) :
                 leases' = leases \cup
                   {[session_id |-> call[w].session_id, payload |-> call[w].payload,
                     expires_on |-> e]}
<1> DEFINE d == SL!Answered(call[w], None)
<1>1. call[w] \in Call /\ None \in Lease \cup {None}
  BY DEF TypeInv
<1>2. /\ d \in Call /\ d.phase = "answered" /\ d.op = call[w].op
      /\ d.session_id = call[w].session_id /\ d.payload = call[w].payload
      /\ d.began = call[w].began /\ d.answer = None
  BY <1>1, CallAnswered
<1>3. call' = [call EXCEPT ![w] = d]
  BY DEF SL!Grant, TypeInv
<1>4. CallStep(w) /\ call'[w] = d
  BY <1>2, <1>3, CallBecomes
<1> HIDE DEF d
<1> QED
  BY <1>2, <1>4 DEF SL!Grant

LEMMA LeaveCall ==
  ASSUME TypeInv, NEW w \in Worker, SL!Leave(w)
  PROVE  /\ CallStep(w) /\ now' = now /\ leases' = leases
         /\ call'[w].phase = "idle" /\ call'[w].op = None /\ call'[w].answer = None
<1>1. SL!Idle \in Call
  BY Clock DEF SL!Idle, Call
<1>2. CallStep(w) /\ call'[w] = SL!Idle
  BY <1>1, CallBecomes DEF SL!Leave
<1> QED
  BY <1>2 DEF SL!Leave, SL!Idle

\* LoginAttempts.

LEMMA EnterGoes ==
  ASSUME TypeInv, NEW w \in Worker, NEW task \in {"checkid", "id_res"}, NEW n \in Nonce,
         LA!Enter(w, task, n)
  PROVE  /\ VisitStep(w) /\ now' = now /\ attempts' = attempts
         /\ visit[w].phase = "idle"
         /\ visit'[w].phase = "pending" /\ visit'[w].task = task /\ visit'[w].nonce = n
         /\ visit'[w].result = None
<1> DEFINE v == [LA!Idle EXCEPT !.phase = "pending", !.task = task, !.nonce = n, !.began = now]
<1>1. /\ v \in Visit
      /\ v.phase = "pending" /\ v.task = task /\ v.nonce = n /\ v.result = None
  BY Clock DEF LA!Idle, Visit
<1>2. visit' = [visit EXCEPT ![w] = v]
  BY DEF LA!Enter
<1>3. VisitStep(w) /\ visit'[w] = v
  BY <1>1, <1>2, VisitBecomes
<1> HIDE DEF v
<1> QED
  BY <1>1, <1>3 DEF LA!Enter

\* The visit has ended with a result; nothing else of it has changed.
EndsWith(v, d, result) ==
  /\ d \in Visit
  /\ d.phase = "answered" /\ d.result = result
  /\ d.task = v.task /\ d.nonce = v.nonce /\ d.registered = v.registered

LEMMA VisitEnded ==
  ASSUME NEW v \in Visit,
         NEW result \in {"redirect", "granted", "refused", "threw", "unknown", "printed"}
  PROVE  EndsWith(v, LA!Ended(v, result), result) /\ LA!Ended(v, result).uri = v.uri
<1> DEFINE v1 == [v EXCEPT !.phase = "answered"]
           v2 == [v1 EXCEPT !.result = result]
<1>1. /\ v1 \in Visit /\ v1.phase = "answered"
      /\ v1.task = v.task /\ v1.nonce = v.nonce /\ v1.registered = v.registered
      /\ v1.uri = v.uri
  BY DEF Visit
<1> HIDE DEF v1
<1>2. /\ v2 \in Visit /\ v2.phase = v1.phase /\ v2.result = result
      /\ v2.task = v1.task /\ v2.nonce = v1.nonce /\ v2.registered = v1.registered
      /\ v2.uri = v1.uri
  BY <1>1 DEF Visit
<1>3. LA!Ended(v, result) = v2
  BY DEF v1, LA!Ended
<1> HIDE DEF v2
<1> QED
  BY <1>1, <1>2, <1>3 DEF EndsWith

LEMMA RegisterGoes ==
  ASSUME TypeInv, NEW w \in Worker, NEW uri \in Server, LA!Register(w, uri)
  PROVE  /\ VisitStep(w) /\ now' = now /\ used' = used
         /\ visit[w].phase = "pending" /\ visit[w].task = "checkid"
         /\ ~visit[w].registered
         /\ visit'[w].phase = "pending" /\ visit'[w].task = "checkid"
         /\ visit'[w].nonce = visit[w].nonce /\ visit'[w].registered
         /\ visit'[w].uri = visit[w].uri /\ visit'[w].result = visit[w].result
         /\ \/ attempts' = attempts
            \/ \E e \in Int : attempts' = attempts \cup
                 {[nonce |-> visit[w].nonce, uri |-> uri, expires_on |-> e]}
<1> DEFINE v == [visit[w] EXCEPT !.registered = TRUE]
<1>1. visit[w] \in Visit
  BY DEF TypeInv
<1>2. v \in Visit
  BY <1>1 DEF Visit
<1>3. /\ v.registered
      /\ v.phase = visit[w].phase /\ v.task = visit[w].task /\ v.nonce = visit[w].nonce
      /\ v.uri = visit[w].uri /\ v.result = visit[w].result
  BY <1>1 DEF Visit
<1>4. visit' = [visit EXCEPT ![w] = v]
  BY DEF LA!Register
<1>5. VisitStep(w) /\ visit'[w] = v
  BY <1>2, <1>4, VisitBecomes
<1>6. \/ attempts' = attempts
      \/ \E e \in Int : attempts' = attempts \cup
           {[nonce |-> visit[w].nonce, uri |-> uri, expires_on |-> e]}
  <2>1. (visit[w].began + Hour) .. (now + Hour) \subseteq Int
    OBVIOUS
  <2> QED
    BY <2>1 DEF LA!Register
<1>7. /\ visit[w].phase = "pending" /\ visit[w].task = "checkid" /\ ~visit[w].registered
      /\ now' = now /\ used' = used
  BY DEF LA!Register
<1> HIDE DEF v
<1> QED
  BY <1>3, <1>5, <1>6, <1>7

LEMMA RedirectGoes ==
  ASSUME TypeInv, NEW w \in Worker, LA!Redirect(w)
  PROVE  /\ VisitStep(w) /\ now' = now /\ attempts' = attempts /\ used' = used
         /\ visit[w].phase = "pending" /\ visit[w].task = "checkid"
         /\ EndsWith(visit[w], visit'[w], "redirect")
         /\ \E a \in attempts : a.nonce = visit[w].nonce /\ visit'[w].uri = a.uri
<1>1. PICK a \in attempts :
        /\ a.nonce = visit[w].nonce
        /\ visit' = [visit EXCEPT ![w] = [LA!Ended(visit[w], "redirect") EXCEPT !.uri = a.uri]]
  BY DEF LA!Redirect, TypeInv
<1> DEFINE d == LA!Ended(visit[w], "redirect")
           v == [d EXCEPT !.uri = a.uri]
<1>2. EndsWith(visit[w], d, "redirect") /\ a.uri \in Server
  BY VisitEnded DEF TypeInv, Attempt
<1> HIDE DEF d
<1>3. v \in Visit /\ v.uri = a.uri /\ EndsWith(visit[w], v, "redirect")
  BY <1>2 DEF EndsWith, Visit
<1>4. visit' = [visit EXCEPT ![w] = v]
  BY <1>1 DEF d
<1>5. VisitStep(w) /\ visit'[w] = v
  BY <1>3, <1>4, VisitBecomes
<1> HIDE DEF v
<1> QED
  BY <1>1, <1>3, <1>5 DEF LA!Redirect

LEMMA AdmitGoes ==
  ASSUME TypeInv, NEW w \in Worker, LA!Admit(w)
  PROVE  /\ VisitStep(w) /\ now' = now /\ attempts' = attempts /\ used' = used
         /\ visit[w].phase = "pending" /\ visit[w].task = "id_res"
         /\ visit'[w].phase = "admitted" /\ visit'[w].task = "id_res"
         /\ visit'[w].nonce = visit[w].nonce
<1> DEFINE v == [visit[w] EXCEPT !.phase = "admitted"]
<1>1. /\ v \in Visit /\ v.phase = "admitted"
      /\ v.task = visit[w].task /\ v.nonce = visit[w].nonce
  BY DEF TypeInv, Visit
<1>2. visit' = [visit EXCEPT ![w] = v]
  BY DEF LA!Admit
<1>3. VisitStep(w) /\ visit'[w] = v
  BY <1>1, <1>2, VisitBecomes
<1> HIDE DEF v
<1> QED
  BY <1>1, <1>3 DEF LA!Admit

LEMMA EndGoes ==
  ASSUME TypeInv, NEW w \in Worker,
         NEW result \in {"redirect", "granted", "refused", "threw", "unknown", "printed"},
         visit' = [visit EXCEPT ![w] = LA!Ended(@, result)]
  PROVE  VisitStep(w) /\ EndsWith(visit[w], visit'[w], result)
<1> DEFINE d == LA!Ended(visit[w], result)
<1>1. d \in Visit /\ EndsWith(visit[w], d, result)
  BY VisitEnded DEF TypeInv, EndsWith
<1>2. visit' = [visit EXCEPT ![w] = d]
  BY DEF TypeInv
<1> HIDE DEF d
<1> QED
  BY <1>1, <1>2, VisitBecomes

LEMMA RefuseGoes ==
  ASSUME TypeInv, NEW w \in Worker, LA!Refuse(w)
  PROVE  /\ VisitStep(w) /\ now' = now /\ attempts' = attempts /\ used' = used
         /\ visit[w].phase = "admitted"
         /\ EndsWith(visit[w], visit'[w], "refused")
  BY EndGoes DEF LA!Refuse

LEMMA RedeemGoes ==
  ASSUME TypeInv, NEW w \in Worker, LA!Grant(w)
  PROVE  /\ VisitStep(w) /\ now' = now /\ attempts' \subseteq attempts /\ used' = used
         /\ visit[w].phase = "admitted"
         /\ EndsWith(visit[w], visit'[w], "granted")
  BY EndGoes DEF LA!Grant

LEMMA FailGoes ==
  ASSUME TypeInv, NEW w \in Worker, LA!Fail(w)
  PROVE  /\ VisitStep(w) /\ now' = now /\ attempts' = attempts /\ used' = used
         /\ visit[w].phase = "pending"
         /\ \E result \in {"threw", "unknown", "printed"} :
              EndsWith(visit[w], visit'[w], result)
<1>1. PICK result \in {"threw", "unknown", "printed"} :
        visit' = [visit EXCEPT ![w] = LA!Ended(@, result)]
  BY DEF LA!Fail
<1>2. VisitStep(w) /\ EndsWith(visit[w], visit'[w], result)
  BY <1>1, EndGoes
<1> QED
  BY <1>2 DEF LA!Fail

LEMMA LeaveVisit ==
  ASSUME TypeInv, NEW w \in Worker, LA!Leave(w)
  PROVE  /\ VisitStep(w) /\ now' = now /\ attempts' = attempts /\ used' = used
         /\ visit'[w].phase = "idle" /\ visit'[w].task = None
<1>1. LA!Idle \in Visit
  BY Clock DEF LA!Idle, Visit
<1>2. VisitStep(w) /\ visit'[w] = LA!Idle
  BY <1>1, VisitBecomes DEF LA!Leave
<1> QED
  BY <1>2 DEF LA!Leave, LA!Idle

\* The requests.

\* The request is answered.
Shown(r, d, reply) ==
  /\ d \in Request
  /\ d.phase = "answered" /\ d.reply = reply
  /\ d.browser = r.browser /\ d.place = r.place /\ d.kind = None

\* The request goes on to phase p with everything else as it was.
Moved(r, d, p) ==
  /\ d \in Request
  /\ d.phase = p
  /\ d.browser = r.browser /\ d.place = r.place /\ d.kind = r.kind
  /\ d.nonce = r.nonce /\ d.uri = r.uri /\ d.username = r.username
  /\ d.cookie = r.cookie /\ d.reply = r.reply /\ d.user = r.user

LEMMA ShowInputGoes ==
  ASSUME TypeInv, NEW w \in Worker, ShowInput(w)
  PROVE  /\ ReqStep(w) /\ Shown(req[w], req'[w], "form")
         /\ req'[w].nonce = None /\ req'[w].cookie = None
<1> DEFINE a == Answered(req[w], "form")
<1>1. /\ a \in Request /\ Shown(req[w], a, "form")
      /\ a.nonce = None /\ a.cookie = None
  BY AnsweredIs DEF TypeInv, TypeOK, Shown
<1>2. req' = [req EXCEPT ![w] = a]
  BY DEF ShowInput, TypeInv, TypeOK
<1> HIDE DEF a
<1> QED
  BY <1>1, <1>2, ReqBecomes

LEMMA OkGoes ==
  ASSUME TypeInv, NEW w \in Worker, NEW user \in Names, Ok(w, user)
  PROVE  /\ ReqStep(w)
         /\ Shown(req[w], req'[w], "ok") \/ Shown(req[w], req'[w], "denied")
         /\ req'[w].nonce = None /\ req'[w].cookie = None /\ req'[w].user = user
         /\ req'[w].reply = "ok" <=> Authorized(Conf(w).requires, "GET", user)
<1> DEFINE reply == IF Authorized(Conf(w).requires, "GET", user) THEN "ok" ELSE "denied"
           a == Answered(req[w], reply)
           d == [a EXCEPT !.user = user]
<1>1. /\ reply \in {"ok", "denied"}
      /\ reply = "ok" <=> Authorized(Conf(w).requires, "GET", user)
  OBVIOUS
<1>2. req' = [req EXCEPT ![w] = d]
  BY DEF Ok, TypeInv, TypeOK
<1> HIDE DEF reply
<1>3. Shown(req[w], a, reply) /\ a.nonce = None /\ a.cookie = None
  BY <1>1, AnsweredIs DEF TypeInv, TypeOK, Shown
<1> HIDE DEF a
<1>4. /\ Shown(req[w], d, reply) /\ d.nonce = None /\ d.cookie = None /\ d.user = user
      /\ d \in Request
  BY <1>3 DEF Shown, Request
<1>5. ReqStep(w) /\ req'[w] = d
  BY <1>2, <1>4, ReqBecomes
<1> HIDE DEF d
<1> QED
  BY <1>1, <1>4, <1>5 DEF Shown

LEMMA PhaseMoves ==
  ASSUME NEW r \in Request, NEW p \in Phases
  PROVE  Moved(r, [r EXCEPT !.phase = p], p) /\ [r EXCEPT !.phase = p] \in Request
  BY FieldUpdate DEF Moved, Request

LEMMA PhaseGoes ==
  ASSUME TypeInv, NEW w \in Worker, NEW p \in Phases, req' = [req EXCEPT ![w].phase = p]
  PROVE  ReqStep(w) /\ Moved(req[w], req'[w], p)
<1> DEFINE d == [req[w] EXCEPT !.phase = p]
<1>1. Moved(req[w], d, p) /\ d \in Request
  BY PhaseMoves DEF TypeInv, TypeOK
<1>2. req' = [req EXCEPT ![w] = d]
  OBVIOUS
<1> HIDE DEF d
<1> QED
  BY <1>1, <1>2, ReqBecomes

LEMMA StartGoes ==
  ASSUME TypeInv, NEW w \in Worker, NEW n \in Nonce,
         req' = [req EXCEPT ![w].phase = "starting", ![w].nonce = n]
  PROVE  /\ ReqStep(w)
         /\ req'[w].phase = "starting" /\ req'[w].nonce = n
         /\ req'[w].browser = req[w].browser /\ req'[w].place = req[w].place
         /\ req'[w].kind = req[w].kind /\ req'[w].cookie = req[w].cookie
         /\ req'[w].reply = req[w].reply
<1> DEFINE c == [req[w] EXCEPT !.phase = "starting"]
           d == [c EXCEPT !.nonce = n]
<1>1. Moved(req[w], c, "starting") /\ c \in Request
  BY PhaseMoves DEF TypeInv, TypeOK, Phases
<1>2. req' = [req EXCEPT ![w] = d]
  BY DEF TypeInv, TypeOK
<1> HIDE DEF c
<1>3. /\ d \in Request
      /\ d.nonce = n /\ d.phase = c.phase /\ d.browser = c.browser /\ d.place = c.place
      /\ d.kind = c.kind /\ d.cookie = c.cookie /\ d.reply = c.reply
  BY <1>1, FieldUpdate DEF Request
<1> HIDE DEF d
<1> QED
  BY <1>1, <1>2, <1>3, ReqBecomes DEF Moved

LEMMA AcceptGoes ==
  ASSUME TypeInv, NEW w \in Worker, NEW name \in Names,
         req' = [req EXCEPT ![w].phase = "accepted", ![w].username = name]
  PROVE  /\ ReqStep(w)
         /\ req'[w].phase = "accepted" /\ req'[w].username = name
         /\ req'[w].browser = req[w].browser /\ req'[w].place = req[w].place
         /\ req'[w].kind = req[w].kind /\ req'[w].nonce = req[w].nonce
         /\ req'[w].cookie = req[w].cookie /\ req'[w].reply = req[w].reply
<1> DEFINE c == [req[w] EXCEPT !.phase = "accepted"]
           d == [c EXCEPT !.username = name]
<1>1. Moved(req[w], c, "accepted") /\ c \in Request
  BY PhaseMoves DEF TypeInv, TypeOK, Phases
<1>2. req' = [req EXCEPT ![w] = d]
  BY DEF TypeInv, TypeOK
<1> HIDE DEF c
<1>3. /\ d \in Request
      /\ d.username = name /\ d.phase = c.phase /\ d.browser = c.browser
      /\ d.place = c.place /\ d.kind = c.kind /\ d.nonce = c.nonce
      /\ d.cookie = c.cookie /\ d.reply = c.reply
  BY <1>1, FieldUpdate DEF Request
<1> HIDE DEF d
<1> QED
  BY <1>1, <1>2, <1>3, ReqBecomes DEF Moved

LEMMA MintGoes ==
  ASSUME TypeInv, NEW w \in Worker, NEW k \in Cookie,
         req' = [req EXCEPT ![w].phase = "cookie", ![w].cookie = k]
  PROVE  /\ ReqStep(w)
         /\ req'[w].phase = "cookie" /\ req'[w].cookie = k
         /\ req'[w].browser = req[w].browser /\ req'[w].place = req[w].place
         /\ req'[w].kind = req[w].kind /\ req'[w].nonce = req[w].nonce
         /\ req'[w].username = req[w].username /\ req'[w].reply = req[w].reply
<1> DEFINE c == [req[w] EXCEPT !.phase = "cookie"]
           d == [c EXCEPT !.cookie = k]
<1>1. Moved(req[w], c, "cookie") /\ c \in Request
  BY PhaseMoves DEF TypeInv, TypeOK, Phases
<1>2. req' = [req EXCEPT ![w] = d]
  BY DEF TypeInv, TypeOK
<1> HIDE DEF c
<1>3. /\ d \in Request
      /\ d.cookie = k /\ d.phase = c.phase /\ d.browser = c.browser
      /\ d.place = c.place /\ d.kind = c.kind /\ d.nonce = c.nonce
      /\ d.username = c.username /\ d.reply = c.reply
  BY <1>1, FieldUpdate DEF Request
<1> HIDE DEF d
<1> QED
  BY <1>1, <1>2, <1>3, ReqBecomes DEF Moved

LEMMA WithCookieGoes ==
  ASSUME TypeInv, NEW w \in Worker, req[w].cookie \in Cookie,
         req' = [req EXCEPT ![w] = WithCookie(req[w], req[w].cookie)]
  PROVE  /\ ReqStep(w) /\ Shown(req[w], req'[w], "cookie")
         /\ req'[w].nonce = None /\ req'[w].cookie = req[w].cookie
<1> DEFINE a == Answered(req[w], "cookie")
           d == [a EXCEPT !.cookie = req[w].cookie]
<1>1. Shown(req[w], a, "cookie") /\ a.nonce = None
  BY AnsweredIs DEF TypeInv, TypeOK, Shown
<1>2. req' = [req EXCEPT ![w] = d]
  BY DEF WithCookie
<1> HIDE DEF a
<1>3. /\ Shown(req[w], d, "cookie") /\ d.nonce = None /\ d.cookie = req[w].cookie
      /\ d \in Request
  BY <1>1 DEF Shown, Request
<1> HIDE DEF d
<1> QED
  BY <1>2, <1>3, ReqBecomes

LEMMA RedirectShown ==
  ASSUME TypeInv, NEW w \in Worker, NEW n \in Nonce, NEW uri \in Server,
         req' = [req EXCEPT ![w] = [Answered(@, "redirect") EXCEPT !.nonce = n, !.uri = uri]]
  PROVE  /\ ReqStep(w) /\ Shown(req[w], req'[w], "redirect")
         /\ req'[w].nonce = n /\ req'[w].uri = uri /\ req'[w].cookie = None
<1> DEFINE a == Answered(req[w], "redirect")
           c == [a EXCEPT !.nonce = n]
           d == [c EXCEPT !.uri = uri]
<1>1. Shown(req[w], a, "redirect") /\ a.cookie = None
  BY AnsweredIs DEF TypeInv, TypeOK, Shown
<1>2. req' = [req EXCEPT ![w] = d]
  BY DEF TypeInv, TypeOK
<1> HIDE DEF a
<1>3. Shown(req[w], c, "redirect") /\ c.cookie = None /\ c.nonce = n
  BY <1>1 DEF Shown, Request
<1> HIDE DEF c
<1>4. /\ Shown(req[w], d, "redirect") /\ d.cookie = None /\ d.nonce = n /\ d.uri = uri
      /\ d \in Request
  BY <1>3 DEF Shown, Request
<1> HIDE DEF d
<1> QED
  BY <1>2, <1>4, ReqBecomes

LEMMA IdleGoes ==
  ASSUME TypeInv, NEW w \in Worker, req' = [req EXCEPT ![w] = NoRequest]
  PROVE  /\ ReqStep(w) /\ req'[w].phase = "idle" /\ req'[w].kind = None
         /\ req'[w].nonce = None /\ req'[w].cookie = None /\ req'[w].reply = None
<1>1. ReqStep(w) /\ req'[w] = NoRequest
  BY NoRequestType, ReqBecomes
<1> QED
  BY <1>1 DEF NoRequest

LEMMA ReceiveGoes ==
  ASSUME TypeInv, NEW w \in Worker, NEW b \in Browser, NEW p \in Place,
         NEW kind \in {"plain", "identifier", "cancel", "response"},
         NEW nonce \in Nonce \cup {None}, NEW cookie \in SessionId \cup {None},
         Receive(w, b, p, kind, nonce, cookie)
  PROVE  /\ ReqStep(w) /\ CallStep(w)
         /\ req[w].phase = "idle"
         /\ req'[w].browser = b /\ req'[w].place = p /\ req'[w].kind = kind
         /\ req'[w].nonce = nonce /\ req'[w].cookie = None /\ req'[w].reply = None
         /\ now' = now /\ leases' = leases
         /\ \/ /\ cookie # None /\ req'[w].phase = "session"
               /\ call'[w].phase = "pending" /\ call'[w].op = "get"
               /\ call'[w].session_id = cookie /\ call'[w].answer = None
            \/ /\ req'[w].phase = "dispatch"
               /\ call' = call
<1> DEFINE phase == IF cookie # None /\ Config[p].use_cookie THEN "session" ELSE "dispatch"
           r == [NoRequest EXCEPT !.browser = b, !.place = p, !.kind = kind, !.nonce = nonce,
                                  !.phase = phase]
<1>1. phase \in {"session", "dispatch"}
  OBVIOUS
<1>2. req' = [req EXCEPT ![w] = r]
  BY DEF Receive
<1>a. phase = "session" <=> cookie # None /\ Config[p].use_cookie
  OBVIOUS
<1> HIDE DEF phase
<1>3. /\ r \in Request
      /\ r.phase = phase /\ r.browser = b /\ r.place = p /\ r.kind = kind
      /\ r.nonce = nonce /\ r.cookie = None /\ r.reply = None
  BY <1>1 DEF NoRequest, Request, Names
<1> HIDE DEF r
<1>4. ReqStep(w) /\ req'[w] = r
  BY <1>2, <1>3, ReqBecomes
<1>5. CASE cookie # None /\ Config[p].use_cookie
  <2>1. SL!Ask(w, "get", cookie, None) /\ cookie \in SessionId
    BY <1>5 DEF Receive
  <2>2. /\ CallStep(w) /\ now' = now /\ leases' = leases
        /\ call'[w].phase = "pending" /\ call'[w].op = "get"
        /\ call'[w].session_id = cookie /\ call'[w].answer = None
    BY <2>1, AskGoes
  <2> QED
    BY <1>3, <1>4, <1>5, <1>a, <2>2 DEF Receive
<1>6. CASE ~(cookie # None /\ Config[p].use_cookie)
  <2>1. now' = now /\ leases' = leases /\ call' = call
    BY <1>6 DEF Receive, slVars
  <2> QED
    BY <1>1, <1>3, <1>4, <1>6, <1>a, <2>1, Unchanged DEF Receive
<1> QED
  BY <1>5, <1>6

--------------------------------------------------------------------------------
(* The layers under a step of one worker.                                  *)

\* The tables, the browsers and the history are of their types.
StoresOK ==
  /\ now \in StartTime .. MaxTime
  /\ leases \subseteq Lease
  /\ asked \subseteq [browser : Browser, nonce : Nonce, place : Place, uri : Server]
  /\ jar \in [Browser -> SUBSET Cookie]
  /\ drawn \subseteq SessionId
  /\ logins \subseteq [browser : Browser, place : Place]
  /\ attempts \subseteq Attempt
  /\ used \subseteq Nonce

LEMMA TypeInvStores == TypeInv => StoresOK
  BY DEF TypeInv, TypeOK, StoresOK, Lease

LEMMA StoresKept ==
  ASSUME TypeInv, now' = now, leases' \subseteq leases, attempts' \subseteq attempts,
         used' = used, asked' \subseteq asked, jar' = jar, drawn' = drawn, logins' = logins
  PROVE  StoresOK'
  BY TypeInvStores DEF StoresOK

LEMMA TypeStep ==
  ASSUME TypeInv, NEW w \in Worker, ReqStep(w), CallStep(w), VisitStep(w),
         Local(req'[w], call'[w], visit'[w]), StoresOK'
  PROVE  TypeInv'
<1>1. \A u \in Worker : Local(req'[u], call'[u], visit'[u])
  <2> TAKE u \in Worker
  <2>1. CASE u = w
    BY <2>1
  <2>2. CASE u # w
    <3>1. Local(req[u], call[u], visit[u])
      BY DEF TypeInv
    <3>2. req'[u] = req[u] /\ call'[u] = call[u] /\ visit'[u] = visit[u]
      BY <2>2 DEF ReqStep, CallStep, VisitStep
    <3> QED
      BY <3>1, <3>2
  <2> QED
    BY <2>1, <2>2
<1>2. TypeOK'
  BY DEF StoresOK, ReqStep, TypeOK, Lease
<1>3. call' \in [Worker -> Call] /\ visit' \in [Worker -> Visit]
  BY DEF CallStep, VisitStep
<1>4. attempts' \subseteq Attempt /\ used' \subseteq Nonce
  BY DEF StoresOK
<1> QED
  BY <1>1, <1>2, <1>3, <1>4 DEF TypeInv

\* A visit that becomes d starts nothing that v did not start as well.
StartsNoMore(v, d) ==
  d.task = "checkid" =>
    /\ v.task = "checkid" /\ d.nonce = v.nonce /\ d.registered = v.registered
    /\ d.result = "redirect" => v.result = "redirect" /\ d.uri = v.uri

\* A request that becomes d knows nothing that r did not know as well.
KnowsNoMore(r, d) ==
  d.nonce # None /\ (d.kind = "response" \/ d.reply = "redirect") =>
    /\ d.nonce = r.nonce /\ d.place = r.place
    /\ r.kind = "response" \/ r.reply = "redirect"

LEMMA LoginQuiet ==
  ASSUME LoginInv, NEW w \in Worker, ReqStep(w), VisitStep(w),
         StartsNoMore(visit[w], visit'[w]), KnowsNoMore(req[w], req'[w]),
         attempts' \subseteq attempts, used' = used, asked' \subseteq asked
  PROVE  LoginInv'
<1>1. ASSUME NEW u \in Worker
      PROVE  StartsNoMore(visit[u], visit'[u]) /\ KnowsNoMore(req[u], req'[u])
  <2>1. CASE u = w
    BY <2>1
  <2>2. CASE u # w
    <3>1. visit'[u] = visit[u] /\ req'[u] = req[u]
      BY <2>2 DEF ReqStep, VisitStep
    <3> QED
      BY <3>1 DEF StartsNoMore, KnowsNoMore
  <2> QED
    BY <2>1, <2>2
<1>2. ASSUME NEW u \in Worker
      PROVE  Starts(visit'[u]) \subseteq Starts(visit[u]) /\ Knows(req'[u]) \subseteq Knows(req[u])
  BY <1>1 DEF StartsNoMore, KnowsNoMore, Starts, Knows
<1>3. ASSUME NEW u \in Worker
      PROVE  StartSound(visit[u])'
  <2>1. StartSound(visit[u])
    BY DEF LoginInv
  <2>2. /\ Starts(visit'[u]) \subseteq used'
        /\ \A a \in asked' : a.nonce \notin Starts(visit'[u])
    BY <1>2, <2>1 DEF StartSound
  <2>3. ASSUME NEW a \in attempts', a.nonce \in Starts(visit'[u])
        PROVE  visit'[u].registered /\ (visit'[u].result = "redirect" => visit'[u].uri = a.uri)
    <3>1. a.nonce \in Starts(visit[u]) /\ a \in attempts
      BY <1>2, <2>3
    <3>2. visit[u].registered /\ (visit[u].result = "redirect" => visit[u].uri = a.uri)
      BY <2>1, <3>1 DEF StartSound
    <3>3. visit'[u].task = "checkid"
      BY <2>3 DEF Starts
    <3> QED
      BY <1>1, <3>2, <3>3 DEF StartsNoMore
  <2> QED
    BY <2>2, <2>3 DEF StartSound
<1>4. ASSUME NEW u \in Worker
      PROVE  AskSound(req[u])'
  <2>1. AskSound(req[u])
    BY DEF LoginInv
  <2>2. ASSUME NEW a \in attempts', a.nonce \in Knows(req'[u])
        PROVE  IdpAllowed(Config[req'[u].place], a.uri)
    <3>1. a.nonce \in Knows(req[u]) /\ a \in attempts
      BY <1>2, <2>2
    <3>2. req'[u].place = req[u].place
      BY <1>1, <2>2 DEF KnowsNoMore, Knows
    <3> QED
      BY <2>1, <3>1, <3>2 DEF AskSound
  <2> QED
    BY <1>2, <2>1, <2>2 DEF AskSound
<1>5. AskedSound'
  BY DEF LoginInv, AskedSound
<1>6. OneEndpoint'
  BY DEF LoginInv, OneEndpoint
<1>7. StartsApart'
  <2>1. SUFFICES ASSUME NEW u \in Worker, NEW x \in Worker
                 PROVE  /\ Starts(visit'[u]) \cap Knows(req'[x]) = {}
                        /\ u # x => Starts(visit'[u]) \cap Starts(visit'[x]) = {}
    BY DEF StartsApart
  <2>2. /\ Starts(visit[u]) \cap Knows(req[x]) = {}
        /\ u # x => Starts(visit[u]) \cap Starts(visit[x]) = {}
    BY DEF LoginInv, StartsApart
  <2> QED
    BY <1>2, <2>2
<1> QED
  BY <1>3, <1>4, <1>5, <1>6, <1>7 DEF LoginInv

LEMMA GoodKept ==
  ASSUME NEW log, NEW more, log \subseteq more, NEW s, NEW b, Good(log, s, b)
  PROVE  Good(more, s, b)
  BY DEF Good, LoggedIn

\* A request that becomes d is about to set no cookie that r was not as well.
MintsNoMore(r, d) ==
  d.cookie # None => d.cookie = r.cookie /\ d.browser = r.browser

\* The ids of the cookies of browser b.
Ids(b) == {k.session_id : k \in jar[b]}

LEMMA MintsQuiet ==
  ASSUME SessionInv, NEW u \in Worker, MintsNoMore(req[u], req'[u]),
         now' \in Int, now \in Int, now <= now', Lifespan \in Int,
         leases' \subseteq leases, \A b \in Browser : jar'[b] \subseteq jar[b],
         drawn \subseteq drawn', logins \subseteq logins'
  PROVE  MintSound(req[u])' /\ Mints(req'[u]) \subseteq Mints(req[u])
<1>1. MintSound(req[u])
  BY DEF SessionInv
<1>2. Mints(req'[u]) \subseteq Mints(req[u])
  BY DEF Mints, MintsNoMore
<1>3. /\ Mints(req'[u]) \subseteq drawn'
      /\ \A b \in Browser : \A k \in jar'[b] : k.session_id \notin Mints(req'[u])
  BY <1>1, <1>2 DEF MintSound
<1>4. ASSUME NEW l \in leases', l.session_id \in Mints(req'[u])
      PROVE  /\ Good(logins', l.payload, req'[u].browser)
             /\ Lifespan # 0 => req'[u].cookie.expires <= l.expires_on
  <2>1. req'[u].cookie = req[u].cookie /\ req'[u].browser = req[u].browser
    BY <1>4 DEF Mints, MintsNoMore
  <2>2. /\ Good(logins, l.payload, req[u].browser)
        /\ Lifespan # 0 => req[u].cookie.expires <= l.expires_on
    BY <1>1, <1>2, <1>4 DEF MintSound
  <2> QED
    BY <2>1, <2>2, GoodKept
<1>5. ASSUME req'[u].cookie # None, Lifespan # 0
      PROVE  req'[u].cookie.expires \in Int /\ req'[u].cookie.expires <= now' + Lifespan
  <2>1. req'[u].cookie = req[u].cookie
    BY <1>5 DEF MintsNoMore
  <2>2. req[u].cookie.expires \in Int /\ req[u].cookie.expires <= now + Lifespan
    BY <1>1, <1>5, <2>1 DEF MintSound
  <2> QED
    BY <2>1, <2>2
<1> QED
  BY <1>2, <1>3, <1>4, <1>5 DEF MintSound

LEMMA JarQuiet ==
  ASSUME SessionInv, leases' \subseteq leases,
         \A b \in Browser : jar'[b] \subseteq jar[b],
         drawn \subseteq drawn', logins \subseteq logins'
  PROVE  JarSound' /\ \A l \in leases' : l.session_id \in drawn'
<1>1. JarSound /\ \A l \in leases : l.session_id \in drawn
  BY DEF SessionInv
<1>2. \A b \in Browser : \A k \in jar'[b] : k.session_id \in drawn'
  BY <1>1 DEF JarSound
<1>3. ASSUME NEW b \in Browser, NEW k \in jar'[b], NEW l \in leases',
             k.session_id = l.session_id
      PROVE  /\ Good(logins', l.payload, b)
             /\ Lifespan # 0 => k.expires \in Int /\ k.expires <= l.expires_on
  <2>1. /\ Good(logins, l.payload, b)
        /\ Lifespan # 0 => k.expires \in Int /\ k.expires <= l.expires_on
    BY <1>1, <1>3 DEF JarSound
  <2> QED
    BY <2>1, GoodKept
<1> QED
  BY <1>1, <1>2, <1>3 DEF JarSound

\* A call keeps on asking for what it asked for, or asks for an id that the
\* browser has; an answer is kept or is a row that was asked for.
AsksNoMore(r, c, s, d) ==
  d.op = "get" =>
    /\ \/ c.op = "get" /\ d.session_id = c.session_id /\ s.browser = r.browser
       \/ d.session_id \in Ids(s.browser) /\ d.answer = None /\ s.browser \in Browser
    /\ d.answer # None =>
         d.answer = c.answer \/ (d.answer \in leases /\ d.answer.session_id = c.session_id)

LEMMA CallQuiet ==
  ASSUME SessionInv, NEW u \in Worker, AsksNoMore(req[u], call[u], req'[u], call'[u]),
         leases' \subseteq leases, drawn \subseteq drawn', logins \subseteq logins',
         call'[u].op = "store" /\ Lifespan # 0 =>
           req'[u].cookie.expires <= call'[u].began + Lifespan
  PROVE  CallSound(req[u], call[u])'
<1>1. CallSound(req[u], call[u]) /\ JarSound
  BY DEF SessionInv
<1>2. CASE call'[u].op # "get"
  BY <1>2 DEF CallSound, Asks
<1>3. CASE /\ call'[u].op = "get" /\ call[u].op = "get"
           /\ call'[u].session_id = call[u].session_id
           /\ req'[u].browser = req[u].browser
  <2>1. Asks(call[u]) = {call[u].session_id} /\ Asks(call'[u]) = {call[u].session_id}
    BY <1>3 DEF Asks
  <2>2. Asks(call'[u]) \subseteq drawn'
    BY <1>1, <2>1 DEF CallSound
  <2>3. ASSUME NEW l \in leases', l.session_id \in Asks(call'[u])
        PROVE  Good(logins', l.payload, req'[u].browser)
    <3>1. Good(logins, l.payload, req[u].browser)
      BY <1>1, <2>1, <2>3 DEF CallSound
    <3> QED
      BY <1>3, <3>1, GoodKept
  <2>4. ASSUME call'[u].answer # None
        PROVE  Good(logins', call'[u].answer.payload, req'[u].browser)
    <3>1. Good(logins, call'[u].answer.payload, req[u].browser)
      <4>1. CASE call'[u].answer = call[u].answer
        BY <1>1, <1>3, <2>4, <4>1 DEF CallSound
      <4>2. CASE call'[u].answer \in leases /\ call'[u].answer.session_id = call[u].session_id
        BY <1>1, <2>1, <4>2 DEF CallSound
      <4> QED
        BY <1>3, <2>4, <4>1, <4>2 DEF AsksNoMore
    <3> QED
      BY <1>3, <3>1, GoodKept
  <2> QED
    BY <1>3, <2>2, <2>3, <2>4 DEF CallSound
<1>4. CASE /\ call'[u].op = "get" /\ call'[u].answer = None
           /\ call'[u].session_id \in Ids(req'[u].browser) /\ req'[u].browser \in Browser
  <2>1. Asks(call'[u]) = {call'[u].session_id}
    BY <1>4 DEF Asks
  <2>2. PICK k \in jar[req'[u].browser] : call'[u].session_id = k.session_id
    BY <1>4 DEF Ids
  <2>3. Asks(call'[u]) \subseteq drawn'
    BY <1>1, <1>4, <2>1, <2>2 DEF JarSound
  <2>4. ASSUME NEW l \in leases', l.session_id \in Asks(call'[u])
        PROVE  Good(logins', l.payload, req'[u].browser)
    <3>1. Good(logins, l.payload, req'[u].browser)
      BY <1>1, <1>4, <2>1, <2>2, <2>4 DEF JarSound
    <3> QED
      BY <3>1, GoodKept
  <2> QED
    BY <1>4, <2>3, <2>4 DEF CallSound
<1> QED
  BY <1>2, <1>3, <1>4 DEF AsksNoMore

\* What a request was granted stays granted.
GrantsNoMore(r, d) ==
  /\ d.phase \in {"accepted", "cookie", "storing"} =>
       /\ r.phase \in {"accepted", "cookie", "storing"}
       /\ d.browser = r.browser /\ d.place = r.place /\ d.username = r.username
  /\ d.reply = "ok" =>
       r.reply = "ok" /\ d.browser = r.browser /\ d.place = r.place /\ d.user = r.user

LEMMA GrantQuiet ==
  ASSUME SessionInv, NEW u \in Worker, GrantsNoMore(req[u], req'[u]), logins \subseteq logins'
  PROVE  GrantSound(req[u])'
<1>1. GrantSound(req[u])
  BY DEF SessionInv
<1>2. \A l, b : LoggedIn(logins, l, b) => LoggedIn(logins', l, b)
  BY DEF LoggedIn
<1>3. ASSUME req'[u].phase \in {"accepted", "cookie", "storing"}
      PROVE  /\ LoggedIn(logins', [browser |-> req'[u].browser, place |-> req'[u].place],
                         req'[u].browser)
             /\ req'[u].username = LoginName(req'[u].place, req'[u].browser)
  BY <1>1, <1>2, <1>3 DEF GrantSound, GrantsNoMore
<1>4. ASSUME req'[u].reply = "ok"
      PROVE  /\ Authorized(Config[req'[u].place].requires, "GET", req'[u].user)
             /\ \E l \in logins' :
                  /\ LoggedIn(logins', l, req'[u].browser)
                  /\ \/ l.place = req'[u].place
                     \/ /\ l.place.hostname = req'[u].place.hostname
                        /\ IsPrefix(CookiePath(l.place), req'[u].place.path)
                  /\ req'[u].user = RemoteUser(Config[req'[u].place], Identity(req'[u].browser),
                                               LoginName(l.place, req'[u].browser))
  BY <1>1, <1>2, <1>4 DEF GrantSound, GrantsNoMore
<1> QED
  BY <1>3, <1>4 DEF GrantSound

\* A store is asked for only with a cookie that does not outlive the session.
StoreInTime(r, c) ==
  c.op = "store" /\ Lifespan # 0 => r.cookie.expires <= c.began + Lifespan

LEMMA NoMoreThanBefore ==
  ASSUME NEW w \in Worker, NEW u \in Worker, u # w, ReqStep(w), CallStep(w), SessionInv
  PROVE  /\ MintsNoMore(req[u], req'[u])
         /\ AsksNoMore(req[u], call[u], req'[u], call'[u])
         /\ StoreInTime(req'[u], call'[u])
         /\ GrantsNoMore(req[u], req'[u])
<1>1. req'[u] = req[u] /\ call'[u] = call[u]
  BY DEF ReqStep, CallStep
<1>2. CallSound(req[u], call[u])
  BY DEF SessionInv
<1>3. StoreInTime(req[u], call[u])
  BY <1>2 DEF CallSound, StoreInTime
<1>4. MintsNoMore(req[u], req[u])
  BY DEF MintsNoMore
<1>5. AsksNoMore(req[u], call[u], req[u], call[u])
  BY DEF AsksNoMore
<1>6. GrantsNoMore(req[u], req[u])
  BY DEF GrantsNoMore
<1> QED
  BY <1>1, <1>3, <1>4, <1>5, <1>6

LEMMA SessionQuiet ==
  ASSUME TypeInv, SessionInv, NEW w \in Worker, ReqStep(w), CallStep(w),
         now' \in Int, now <= now',
         leases' \subseteq leases, \A b \in Browser : jar'[b] \subseteq jar[b],
         drawn \subseteq drawn', logins \subseteq logins',
         MintsNoMore(req[w], req'[w]), AsksNoMore(req[w], call[w], req'[w], call'[w]),
         StoreInTime(req'[w], call'[w]), GrantSound(req[w])'
  PROVE  SessionInv'
<1>1. ASSUME NEW u \in Worker
      PROVE  /\ MintsNoMore(req[u], req'[u])
             /\ AsksNoMore(req[u], call[u], req'[u], call'[u])
             /\ StoreInTime(req'[u], call'[u])
             /\ u # w => GrantsNoMore(req[u], req'[u])
  BY NoMoreThanBefore
<1>2. now \in Int /\ Lifespan \in Int
  BY Clock, ClockAssumption
<1>3. ASSUME NEW u \in Worker
      PROVE  MintSound(req[u])' /\ Mints(req'[u]) \subseteq Mints(req[u])
  BY <1>1, <1>2, MintsQuiet
<1>4. ASSUME NEW u \in Worker
      PROVE  CallSound(req[u], call[u])'
  <2>1. call'[u].op = "store" /\ Lifespan # 0 =>
          req'[u].cookie.expires <= call'[u].began + Lifespan
    BY <1>1 DEF StoreInTime
  <2> QED
    BY <1>1, <2>1, CallQuiet
<1>5. ASSUME NEW u \in Worker
      PROVE  GrantSound(req[u])'
  <2>1. CASE u = w
    BY <2>1
  <2>2. CASE u # w
    BY <1>1, <2>2, GrantQuiet
  <2> QED
    BY <2>1, <2>2
<1>6. JarSound' /\ \A l \in leases' : l.session_id \in drawn'
  BY JarQuiet
<1>7. ASSUME NEW u \in Worker, NEW x \in Worker
      PROVE  /\ Mints(req'[u]) \cap Asks(call'[x]) = {}
             /\ u # x => Mints(req'[u]) \cap Mints(req'[x]) = {}
  <2>1. /\ Mints(req[u]) \cap Asks(call[x]) = {}
        /\ u # x => Mints(req[u]) \cap Mints(req[x]) = {}
    BY DEF SessionInv, MintsApart
  <2>2. MintSound(req[u])
    BY DEF SessionInv
  <2>3. Mints(req[u]) \cap Asks(call'[x]) = {}
    <3>1. CASE call'[x].op = "get" /\ call'[x].session_id \in Ids(req'[x].browser)
                                   /\ req'[x].browser \in Browser
      BY <2>2, <3>1 DEF MintSound, Ids, Asks
    <3>2. CASE call'[x].op = "get" /\ call[x].op = "get" /\ call'[x].session_id = call[x].session_id
      BY <2>1, <3>2 DEF Asks
    <3>3. CASE call'[x].op # "get"
      BY <3>3 DEF Asks
    <3> QED
      BY <1>1, <3>1, <3>2, <3>3 DEF AsksNoMore
  <2> QED
    BY <1>3, <2>1, <2>3
<1>8. MintsApart'
  BY <1>7 DEF MintsApart
<1> QED
  BY <1>3, <1>4, <1>5, <1>6, <1>8 DEF SessionInv

\* A step of w that is quiet for both layers and leaves no login or page behind.
LEMMA SessionSame ==
  ASSUME TypeInv, SessionInv, NEW w \in Worker, ReqStep(w), CallStep(w),
         now' = now, leases' \subseteq leases, jar' = jar, drawn' = drawn, logins' = logins,
         MintsNoMore(req[w], req'[w]), AsksNoMore(req[w], call[w], req'[w], call'[w]),
         StoreInTime(req'[w], call'[w]), GrantsNoMore(req[w], req'[w])
  PROVE  SessionInv'
<1>1. now' \in Int /\ now <= now' /\ \A b \in Browser : jar'[b] \subseteq jar[b]
  BY Clock
<1>2. GrantSound(req[w])'
  BY GrantQuiet
<1> QED
  BY <1>1, <1>2, SessionQuiet

--------------------------------------------------------------------------------
(* Every step preserves the invariant.                                     *)

LEMMA Here ==
  ASSUME TypeInv, NEW w \in Worker
  PROVE  /\ Local(req[w], call[w], visit[w])
         /\ req[w] \in Request /\ call[w] \in Call /\ visit[w] \in Visit
         /\ req[w].phase \notin {"starting", "validating", "accepted"} =>
              visit[w].task = None /\ visit[w].phase = "idle"
         /\ req[w].phase \notin {"session", "storing"} =>
              call[w].op = None /\ call[w].phase = "idle"
         /\ req[w].phase # "answered" => req[w].reply = None
<1>1. /\ Local(req[w], call[w], visit[w])
      /\ req[w] \in Request /\ call[w] \in Call /\ visit[w] \in Visit
  BY DEF TypeInv, TypeOK
<1>2. call[w].op \in {"get", "store", None} /\ visit[w].task \in {"checkid", "id_res", None}
  BY <1>1 DEF Call, Visit
<1> QED
  BY <1>1, <1>2 DEF Local

LEMMA StayQuiet ==
  ASSUME NEW r, NEW c, NEW v
  PROVE  StartsNoMore(v, v) /\ KnowsNoMore(r, r) /\ MintsNoMore(r, r) /\ GrantsNoMore(r, r)
         /\ AsksNoMore(r, c, r, c)
  BY DEF StartsNoMore, KnowsNoMore, MintsNoMore, GrantsNoMore, AsksNoMore

\* has_valid_session.

LEMMA SessionReadStep ==
  ASSUME Inv, NEW w \in Worker, SessionRead(w)
  PROVE  Inv'
<1> USE DEF Inv
<1>1. /\ req' = req /\ visit' = visit /\ now' = now /\ leases' = leases
      /\ attempts' = attempts /\ used' = used
      /\ asked' = asked /\ jar' = jar /\ drawn' = drawn /\ logins' = logins
  BY AnswerGoes DEF SessionRead, laVars, browserVars
<1>2. /\ CallStep(w)
      /\ call[w].op = "get" /\ call'[w].phase = "answered" /\ call'[w].op = "get"
      /\ call'[w].session_id = call[w].session_id
      /\ call'[w].answer # None =>
           call'[w].answer \in leases /\ call'[w].answer.session_id = call[w].session_id
  BY AnswerGoes DEF SessionRead
<1>3. ReqStep(w) /\ VisitStep(w) /\ StoresOK'
  BY <1>1, Unchanged, StoresKept
<1>4. TypeInv'
  <2>1. Local(req'[w], call'[w], visit'[w])
    BY <1>1, <1>2, Here, SentinelAssumption DEF Local
  <2> QED
    BY <1>2, <1>3, <2>1, TypeStep
<1>5. LoginInv'
  BY <1>1, <1>3, StayQuiet, LoginQuiet
<1>6. SessionInv'
  <2>1. AsksNoMore(req[w], call[w], req'[w], call'[w]) /\ StoreInTime(req'[w], call'[w])
    BY <1>1, <1>2 DEF AsksNoMore, StoreInTime
  <2> QED
    BY <1>1, <1>2, <1>3, <2>1, StayQuiet, SessionSame
<1> QED
  BY <1>4, <1>5, <1>6

\* A session that the handler accepts makes it serve the page that its login
\* gives a right to.
LEMMA ValidSession ==
  ASSUME Inv, NEW w \in Worker,
         call[w].op = "get", call[w].answer # None,
         Covers(call[w].answer.payload, req[w].place),
         Ok(w, RemoteUser(Conf(w), call[w].answer.payload.identity,
                          call[w].answer.payload.username)),
         logins' = logins
  PROVE  GrantSound(req[w])'
<1> DEFINE s == call[w].answer.payload
           user == RemoteUser(Conf(w), s.identity, s.username)
<1>1. call[w].answer \in Lease
  BY Here DEF Inv, Call
<1>2. user \in Names
  BY <1>1 DEF Lease, Payload, RemoteUser
<1>3. /\ Shown(req[w], req'[w], "ok") \/ Shown(req[w], req'[w], "denied")
      /\ req'[w].user = user
      /\ req'[w].reply = "ok" => Authorized(Conf(w).requires, "GET", user)
  BY <1>2, OkGoes DEF Inv
<1>4. Good(logins, s, req[w].browser)
  BY DEF Inv, SessionInv, CallSound
<1>5. PICK l \in logins :
        /\ LoggedIn(logins, l, req[w].browser)
        /\ s.hostname = l.place.hostname
        /\ s.path = CookiePath(l.place)
        /\ s.identity = Identity(req[w].browser)
        /\ s.username = LoginName(l.place, req[w].browser)
  BY <1>4 DEF Good
<1>6. /\ l.place.hostname = req[w].place.hostname
      /\ IsPrefix(CookiePath(l.place), req[w].place.path)
  BY <1>5 DEF Covers
<1>7. user = RemoteUser(Config[req[w].place], Identity(req[w].browser),
                        LoginName(l.place, req[w].browser))
  BY <1>5 DEF Conf
<1>8. /\ req'[w].phase = "answered"
      /\ req'[w].browser = req[w].browser /\ req'[w].place = req[w].place
  BY <1>3 DEF Shown
<1> HIDE DEF user
<1> QED
  BY <1>3, <1>5, <1>6, <1>7, <1>8 DEF GrantSound, Conf

LEMMA HasValidSessionStep ==
  ASSUME Inv, NEW w \in Worker, HasValidSession(w)
  PROVE  Inv'
<1> USE DEF Inv
<1>1. /\ visit' = visit /\ now' = now /\ leases' = leases
      /\ attempts' = attempts /\ used' = used
      /\ asked' = asked /\ jar' = jar /\ drawn' = drawn /\ logins' = logins
  BY LeaveCall DEF HasValidSession, laVars, browserVars
<1>2. CallStep(w) /\ call'[w].phase = "idle" /\ call'[w].op = None
  BY LeaveCall DEF HasValidSession
<1>3. VisitStep(w) /\ StoresOK'
  BY <1>1, Unchanged, StoresKept
<1>4. req[w].phase = "session" /\ call[w].op = "get"
  BY Here DEF HasValidSession, Local
<1> DEFINE s == call[w].answer
           user == RemoteUser(Conf(w), s.payload.identity, s.payload.username)
<1>5. \/ /\ s # None /\ Covers(s.payload, req[w].place)
         /\ Ok(w, user)
      \/ req' = [req EXCEPT ![w].phase = "dispatch"]
  BY DEF HasValidSession
<1>6. CASE s # None /\ Covers(s.payload, req[w].place) /\ Ok(w, user)
  <2>1. user \in Names
    <3>1. s \in Lease
      BY <1>6, Here DEF Call
    <3> QED
      BY <3>1 DEF Lease, Payload, RemoteUser
  <2>2. /\ ReqStep(w)
        /\ Shown(req[w], req'[w], "ok") \/ Shown(req[w], req'[w], "denied")
        /\ req'[w].nonce = None /\ req'[w].cookie = None
    BY <1>6, <2>1, OkGoes
  <2>3. GrantSound(req[w])'
    BY <1>1, <1>4, <1>6, ValidSession
  <2>4. TypeInv'
    <3>1. Local(req'[w], call'[w], visit'[w])
      BY <1>1, <1>2, <1>4, <2>2, Here, SentinelAssumption DEF Local, Shown
    <3> QED
      BY <1>2, <1>3, <2>2, <3>1, TypeStep
  <2>5. LoginInv'
    <3>1. KnowsNoMore(req[w], req'[w])
      BY <2>2 DEF KnowsNoMore
    <3> QED
      BY <1>1, <1>3, <2>2, <3>1, StayQuiet, LoginQuiet
  <2>6. SessionInv'
    <3>1. MintsNoMore(req[w], req'[w])
      BY <2>2 DEF MintsNoMore
    <3>2. AsksNoMore(req[w], call[w], req'[w], call'[w]) /\ StoreInTime(req'[w], call'[w])
      BY <1>2, SentinelAssumption DEF AsksNoMore, StoreInTime
    <3>3. now' \in Int /\ now <= now' /\ \A b \in Browser : jar'[b] \subseteq jar[b]
      BY <1>1, Clock
    <3> QED
      BY <1>1, <1>2, <2>2, <2>3, <3>1, <3>2, <3>3, SessionQuiet
  <2> QED
    BY <2>4, <2>5, <2>6
<1>7. CASE req' = [req EXCEPT ![w].phase = "dispatch"]
  <2>1. ReqStep(w) /\ Moved(req[w], req'[w], "dispatch")
    BY <1>7, PhaseGoes DEF Phases
  <2>2. TypeInv'
    <3>1. Local(req'[w], call'[w], visit'[w])
      BY <1>1, <1>2, <1>4, <2>1, Here, SentinelAssumption DEF Local, Moved
    <3> QED
      BY <1>2, <1>3, <2>1, <3>1, TypeStep
  <2>3. LoginInv'
    <3>1. KnowsNoMore(req[w], req'[w])
      BY <2>1 DEF KnowsNoMore, Moved
    <3> QED
      BY <1>1, <1>3, <2>1, <3>1, StayQuiet, LoginQuiet
  <2>4. SessionInv'
    <3>1. MintsNoMore(req[w], req'[w]) /\ GrantsNoMore(req[w], req'[w])
      BY <2>1 DEF MintsNoMore, GrantsNoMore, Moved
    <3>2. AsksNoMore(req[w], call[w], req'[w], call'[w]) /\ StoreInTime(req'[w], call'[w])
      BY <1>2, SentinelAssumption DEF AsksNoMore, StoreInTime
    <3> QED
      BY <1>1, <1>2, <2>1, <3>1, <3>2, SessionSame
  <2> QED
    BY <2>2, <2>3, <2>4
<1> QED
  BY <1>5, <1>6, <1>7

\* start_authentication_session.

\* A step that shows the form, or another answer without a nonce or a cookie, and
\* ends what the worker asked of the managers.
LEMMA AnswerStep ==
  ASSUME Inv, NEW w \in Worker, ReqStep(w), CallStep(w), VisitStep(w),
         NEW reply \in {"form", "ok", "denied"}, Shown(req[w], req'[w], reply),
         req'[w].nonce = None, req'[w].cookie = None,
         req[w].phase # "idle",
         call'[w].op = None, call'[w].phase = "idle",
         visit'[w].task = None, visit'[w].phase = "idle",
         now' = now, leases' = leases, attempts' = attempts, used' = used,
         asked' = asked, jar' = jar, drawn' = drawn, logins' = logins,
         reply = "ok" => GrantSound(req[w])'
  PROVE  Inv'
<1> USE DEF Inv
<1>1. StoresOK'
  BY StoresKept
<1>2. TypeInv'
  <2>1. Local(req'[w], call'[w], visit'[w])
    BY Here, SentinelAssumption DEF Local, Shown
  <2> QED
    BY <1>1, <2>1, TypeStep
<1>3. LoginInv'
  <2>1. KnowsNoMore(req[w], req'[w]) /\ StartsNoMore(visit[w], visit'[w])
    BY SentinelAssumption DEF KnowsNoMore, StartsNoMore
  <2> QED
    BY <2>1, LoginQuiet
<1>4. SessionInv'
  <2>1. MintsNoMore(req[w], req'[w])
    BY DEF MintsNoMore
  <2>2. AsksNoMore(req[w], call[w], req'[w], call'[w]) /\ StoreInTime(req'[w], call'[w])
    BY SentinelAssumption DEF AsksNoMore, StoreInTime
  <2>3. GrantSound(req[w])'
    <3>1. CASE reply = "ok"
      BY <3>1
    <3>2. CASE reply # "ok"
      <4>1. GrantsNoMore(req[w], req'[w])
        BY <3>2 DEF GrantsNoMore, Shown
      <4> QED
        BY <4>1, GrantQuiet
    <3> QED
      BY <3>1, <3>2
  <2>4. now' \in Int /\ now <= now' /\ \A b \in Browser : jar'[b] \subseteq jar[b]
    BY Clock
  <2> QED
    BY <2>1, <2>2, <2>3, <2>4, SessionQuiet
<1> QED
  BY <1>2, <1>3, <1>4

LEMMA DeclineStep ==
  ASSUME Inv, NEW w \in Worker, Decline(w)
  PROVE  Inv'
<1>1. /\ ReqStep(w) /\ Shown(req[w], req'[w], "form")
      /\ req'[w].nonce = None /\ req'[w].cookie = None
  BY ShowInputGoes DEF Inv, Decline
<1>2. /\ call' = call /\ visit' = visit /\ now' = now /\ leases' = leases
      /\ attempts' = attempts /\ used' = used
      /\ asked' = asked /\ jar' = jar /\ drawn' = drawn /\ logins' = logins
  BY DEF Decline, dbVars, browserVars
<1>3. CallStep(w) /\ VisitStep(w)
  BY <1>2, Unchanged DEF Inv
<1>4. req[w].phase = "dispatch"
  BY DEF Decline
<1>5. /\ call'[w].op = None /\ call'[w].phase = "idle"
      /\ visit'[w].task = None /\ visit'[w].phase = "idle"
  BY <1>2, <1>4, Here DEF Inv
<1> QED
  BY <1>1, <1>2, <1>3, <1>4, <1>5, AnswerStep

LEMMA StartAuthenticationStep ==
  ASSUME Inv, NEW w \in Worker, NEW n \in Nonce, StartAuthentication(w, n)
  PROVE  Inv'
<1> USE DEF Inv
<1>1. /\ ReqStep(w)
      /\ req'[w].phase = "starting" /\ req'[w].nonce = n
      /\ req'[w].browser = req[w].browser /\ req'[w].place = req[w].place
      /\ req'[w].kind = req[w].kind /\ req'[w].cookie = req[w].cookie
      /\ req'[w].reply = req[w].reply
  BY StartGoes DEF StartAuthentication
<1>2. /\ VisitStep(w) /\ now' = now /\ attempts' = attempts
      /\ visit'[w].phase = "pending" /\ visit'[w].task = "checkid" /\ visit'[w].nonce = n
      /\ visit'[w].result = None
      /\ n \notin used /\ used' = used \cup {n}
  BY EnterGoes DEF StartAuthentication, LA!StartLogin
<1>3. /\ call' = call /\ leases' = leases
      /\ asked' = asked /\ jar' = jar /\ drawn' = drawn /\ logins' = logins
  BY DEF StartAuthentication, slVars, browserVars
<1>4. req[w].phase = "dispatch" /\ req[w].kind # "response"
  BY DEF StartAuthentication
<1>5. /\ CallStep(w) /\ StoresOK'
  <2>1. CallStep(w)
    BY <1>3, Unchanged
  <2>2. StoresOK'
    BY <1>2, <1>3, TypeInvStores DEF StoresOK
  <2> QED
    BY <2>1, <2>2
<1>6. TypeInv'
  <2>1. Local(req'[w], call'[w], visit'[w])
    BY <1>1, <1>2, <1>3, <1>4, Here, SentinelAssumption DEF Local
  <2> QED
    BY <1>1, <1>2, <1>5, <2>1, TypeStep
<1>7. LoginInv'
  <2>1. Starts(visit'[w]) = {n} /\ Knows(req'[w]) = {}
    BY <1>1, <1>2, <1>4, Here, SentinelAssumption DEF Starts, Knows
  <2>2. ASSUME NEW u \in Worker, u # w
        PROVE  visit'[u] = visit[u] /\ req'[u] = req[u]
    BY <1>1, <1>2, <2>2 DEF VisitStep, ReqStep
  <2>3. /\ \A q \in asked : q.nonce # n
        /\ \A a \in attempts : a.nonce # n
    BY <1>2 DEF LoginInv, AskedSound, OneEndpoint
  <2>4. \A u \in Worker : n \notin Starts(visit[u]) /\ n \notin Knows(req[u])
    BY <1>2 DEF LoginInv, StartSound, AskSound
  <2>5. ASSUME NEW u \in Worker
        PROVE  StartSound(visit[u])'
    <3>1. CASE u = w
      BY <1>2, <1>3, <2>1, <2>3, <3>1 DEF StartSound
    <3>2. CASE u # w
      BY <1>2, <1>3, <2>2, <3>2 DEF LoginInv, StartSound
    <3> QED
      BY <3>1, <3>2
  <2>6. ASSUME NEW u \in Worker
        PROVE  AskSound(req[u])'
    <3>1. CASE u = w
      BY <2>1, <3>1 DEF AskSound
    <3>2. CASE u # w
      BY <1>2, <2>2, <3>2 DEF LoginInv, AskSound
    <3> QED
      BY <3>1, <3>2
  <2>7. AskedSound' /\ OneEndpoint'
    BY <1>2, <1>3 DEF LoginInv, AskedSound, OneEndpoint
  <2>8. StartsApart'
    <3>1. SUFFICES ASSUME NEW u \in Worker, NEW x \in Worker
                   PROVE  /\ Starts(visit'[u]) \cap Knows(req'[x]) = {}
                          /\ u # x => Starts(visit'[u]) \cap Starts(visit'[x]) = {}
      BY DEF StartsApart
    <3>2. /\ Starts(visit[u]) \cap Knows(req[x]) = {}
          /\ u # x => Starts(visit[u]) \cap Starts(visit[x]) = {}
      BY DEF LoginInv, StartsApart
    <3>3. CASE u = w /\ x = w
      BY <2>1, <3>3
    <3>4. CASE u = w /\ x # w
      BY <2>1, <2>2, <2>4, <3>4
    <3>5. CASE u # w /\ x = w
      BY <2>1, <2>2, <2>4, <3>5
    <3>6. CASE u # w /\ x # w
      BY <2>2, <3>2, <3>6
    <3> QED
      BY <3>3, <3>4, <3>5, <3>6
  <2> QED
    BY <2>5, <2>6, <2>7, <2>8 DEF LoginInv
<1>8. SessionInv'
  <2>1. MintsNoMore(req[w], req'[w]) /\ GrantsNoMore(req[w], req'[w])
    BY <1>1, <1>4, Here, SentinelAssumption DEF MintsNoMore, GrantsNoMore
  <2>2. AsksNoMore(req[w], call[w], req'[w], call'[w]) /\ StoreInTime(req'[w], call'[w])
    BY <1>3, <1>4, Here, SentinelAssumption DEF AsksNoMore, StoreInTime
  <2> QED
    BY <1>1, <1>2, <1>3, <1>5, <2>1, <2>2, SessionSame
<1> QED
  BY <1>6, <1>7, <1>8

\* A redirect to the provider is shown: the name of the login is no longer the
\* worker's alone, but what is registered for it has been looked at.
LEMMA StartedRedirects ==
  ASSUME Inv, NEW w \in Worker, ReqStep(w), VisitStep(w),
         visit[w].task = "checkid", visit[w].result = "redirect",
         visit[w].nonce = req[w].nonce,
         IdpAllowed(Config[req[w].place], visit[w].uri),
         req'[w].nonce = req[w].nonce, req'[w].place = req[w].place,
         visit'[w].task = None,
         attempts' = attempts, used' = used, asked' = asked
  PROVE  LoginInv'
<1> USE DEF Inv
<1>1. Starts(visit'[w]) = {} /\ Starts(visit[w]) = {req[w].nonce}
  BY SentinelAssumption DEF Starts
<1>2. Knows(req'[w]) \subseteq Starts(visit[w])
  BY <1>1 DEF Knows
<1>3. ASSUME NEW u \in Worker, u # w
      PROVE  visit'[u] = visit[u] /\ req'[u] = req[u]
  BY <1>3 DEF VisitStep, ReqStep
<1>4. ASSUME NEW u \in Worker
      PROVE  StartSound(visit[u])'
  <2>1. CASE u = w
    BY <1>1, <2>1 DEF StartSound
  <2>2. CASE u # w
    BY <1>3, <2>2 DEF LoginInv, StartSound
  <2> QED
    BY <2>1, <2>2
<1>5. ASSUME NEW u \in Worker
      PROVE  AskSound(req[u])'
  <2>1. CASE u = w
    <3>1. StartSound(visit[w])
      BY DEF LoginInv
    <3>2. Knows(req'[w]) \subseteq used'
      BY <1>2, <3>1 DEF StartSound
    <3>3. ASSUME NEW a \in attempts', a.nonce \in Knows(req'[w])
          PROVE  IdpAllowed(Config[req'[w].place], a.uri)
      <4>1. visit[w].uri = a.uri
        BY <1>2, <3>1, <3>3 DEF StartSound
      <4> QED
        BY <4>1
    <3> QED
      BY <2>1, <3>2, <3>3 DEF AskSound
  <2>2. CASE u # w
    BY <1>3, <2>2 DEF LoginInv, AskSound
  <2> QED
    BY <2>1, <2>2
<1>6. AskedSound' /\ OneEndpoint'
  BY DEF LoginInv, AskedSound, OneEndpoint
<1>7. StartsApart'
  <2>1. SUFFICES ASSUME NEW u \in Worker, NEW x \in Worker
                 PROVE  /\ Starts(visit'[u]) \cap Knows(req'[x]) = {}
                        /\ u # x => Starts(visit'[u]) \cap Starts(visit'[x]) = {}
    BY DEF StartsApart
  <2>2. /\ Starts(visit[u]) \cap Knows(req[x]) = {}
        /\ u # x => Starts(visit[u]) \cap Starts(visit[x]) = {}
    BY DEF LoginInv, StartsApart
  <2>3. CASE u = w
    BY <1>1, <2>3
  <2>4. CASE u # w /\ x = w
    BY <1>1, <1>2, <1>3, <2>2, <2>4
  <2>5. CASE u # w /\ x # w
    BY <1>3, <2>2, <2>5
  <2> QED
    BY <2>3, <2>4, <2>5
<1> QED
  BY <1>4, <1>5, <1>6, <1>7 DEF LoginInv

LEMMA StartedStep ==
  ASSUME Inv, NEW w \in Worker, Started(w)
  PROVE  Inv'
<1> USE DEF Inv
<1>1. /\ VisitStep(w) /\ now' = now /\ attempts' = attempts /\ used' = used
      /\ visit'[w].phase = "idle" /\ visit'[w].task = None
  BY LeaveVisit DEF Started
<1>2. /\ call' = call /\ leases' = leases
      /\ asked' = asked /\ jar' = jar /\ drawn' = drawn /\ logins' = logins
  BY DEF Started, slVars, browserVars
<1>3. CallStep(w) /\ StoresOK'
  BY <1>1, <1>2, Unchanged, StoresKept
<1>4. /\ req[w].phase = "starting" /\ visit[w].task = "checkid"
      /\ visit[w].nonce = req[w].nonce /\ req[w].nonce \in Nonce
      /\ req[w].cookie = None
      /\ call'[w].op = None /\ call'[w].phase = "idle"
  <2>1. req[w].phase = "starting"
    BY DEF Started
  <2> QED
    BY <1>2, <2>1, Here, SentinelAssumption DEF Local
<1>5. CASE visit[w].result = "redirect" /\ IdpAllowed(Conf(w), visit[w].uri)
  <2>1. visit[w].uri \in Server
    BY <1>4, <1>5, Here DEF Local
  <2>2. req' = [req EXCEPT ![w] = [Answered(@, "redirect") EXCEPT !.nonce = req[w].nonce,
                                                                  !.uri = visit[w].uri]]
    BY <1>5 DEF Started
  <2>3. /\ ReqStep(w) /\ Shown(req[w], req'[w], "redirect")
        /\ req'[w].nonce = req[w].nonce /\ req'[w].uri = visit[w].uri
        /\ req'[w].cookie = None
    BY <1>4, <2>1, <2>2, RedirectShown
  <2>4. TypeInv'
    <3>1. Local(req'[w], call'[w], visit'[w])
      BY <1>1, <1>4, <2>1, <2>3, Here, SentinelAssumption DEF Local, Shown
    <3> QED
      BY <1>1, <1>3, <2>3, <3>1, TypeStep
  <2>5. LoginInv'
    <3>1. IdpAllowed(Config[req[w].place], visit[w].uri)
      BY <1>5 DEF Conf
    <3>2. req'[w].place = req[w].place
      BY <2>3 DEF Shown
    <3> QED
      BY <1>1, <1>2, <1>4, <1>5, <2>3, <3>1, <3>2, StartedRedirects
  <2>6. SessionInv'
    <3>1. MintsNoMore(req[w], req'[w]) /\ GrantsNoMore(req[w], req'[w])
      BY <2>3 DEF MintsNoMore, GrantsNoMore, Shown
    <3>2. AsksNoMore(req[w], call[w], req'[w], call'[w]) /\ StoreInTime(req'[w], call'[w])
      BY <1>4, SentinelAssumption DEF AsksNoMore, StoreInTime
    <3> QED
      BY <1>1, <1>2, <1>3, <2>3, <3>1, <3>2, SessionSame
  <2> QED
    BY <2>4, <2>5, <2>6
<1>6. CASE ~(visit[w].result = "redirect" /\ IdpAllowed(Conf(w), visit[w].uri))
  <2>1. /\ ReqStep(w) /\ Shown(req[w], req'[w], "form")
        /\ req'[w].nonce = None /\ req'[w].cookie = None
    BY <1>6, ShowInputGoes DEF Started
  <2> QED
    BY <1>1, <1>2, <1>3, <1>4, <2>1, AnswerStep
<1> QED
  BY <1>5, <1>6

\* What MoidConsumer does for the handler.

LEMMA SessionApart ==
  ASSUME TypeInv, SessionInv, NEW w \in Worker, req' = req, call' = call, now' = now,
         leases' \subseteq leases, jar' = jar, drawn' = drawn, logins' = logins
  PROVE  SessionInv' /\ ReqStep(w) /\ CallStep(w)
<1>1. ReqStep(w) /\ CallStep(w)
  BY Unchanged
<1>2. StoreInTime(req'[w], call'[w])
  BY DEF SessionInv, CallSound, StoreInTime
<1> QED
  BY <1>1, <1>2, StayQuiet, SessionSame

LEMMA RegisterStep ==
  ASSUME Inv, NEW w \in Worker, NEW uri \in Server, LA!Register(w, uri),
         UNCHANGED <<slVars, req, browserVars, drawn, logins>>
  PROVE  Inv'
<1> USE DEF Inv
<1>1. /\ VisitStep(w) /\ now' = now /\ used' = used
      /\ visit[w].task = "checkid" /\ ~visit[w].registered
      /\ visit'[w].phase = "pending" /\ visit'[w].task = "checkid"
      /\ visit'[w].nonce = visit[w].nonce /\ visit'[w].registered
      /\ visit'[w].uri = visit[w].uri /\ visit'[w].result = visit[w].result
      /\ \/ attempts' = attempts
         \/ \E e \in Int : attempts' = attempts \cup
              {[nonce |-> visit[w].nonce, uri |-> uri, expires_on |-> e]}
  BY RegisterGoes
<1>2. /\ req' = req /\ call' = call /\ leases' = leases
      /\ asked' = asked /\ jar' = jar /\ drawn' = drawn /\ logins' = logins
  BY DEF slVars, browserVars
<1>3. SessionInv' /\ ReqStep(w) /\ CallStep(w)
  BY <1>1, <1>2, SessionApart
<1>4. /\ Local(req[w], call[w], visit[w]) /\ visit[w].nonce \in Nonce
      /\ visit[w].phase = "pending"
  BY <1>1, Here, RegisterGoes, SentinelAssumption DEF Local
<1>5. /\ attempts' \subseteq Attempt
      /\ \A a \in attempts' : a \in attempts \/ (a.nonce = visit[w].nonce /\ a.uri = uri)
  BY <1>1, <1>4 DEF TypeInv, Attempt
<1>6. TypeInv'
  <2>1. Local(req'[w], call'[w], visit'[w])
    BY <1>1, <1>2, <1>4, SentinelAssumption DEF Local
  <2>2. StoresOK'
    BY <1>1, <1>2, <1>5, TypeInvStores DEF StoresOK
  <2> QED
    BY <1>1, <1>3, <2>1, <2>2, TypeStep
<1>7. \A a \in attempts : a.nonce # visit[w].nonce
  BY <1>1 DEF LoginInv, StartSound, Starts
<1>8. visit[w].nonce \in used /\ \A q \in asked : q.nonce # visit[w].nonce
  BY <1>1 DEF LoginInv, StartSound, Starts
<1>9. \A u \in Worker :
        /\ visit[w].nonce \notin Knows(req[u])
        /\ u # w => visit[w].nonce \notin Starts(visit[u])
  BY <1>1 DEF LoginInv, StartsApart, Starts
<1>10. \A u \in Worker : u # w => visit'[u] = visit[u]
  BY <1>1 DEF VisitStep
<1>11. Starts(visit'[w]) = Starts(visit[w]) /\ Starts(visit[w]) = {visit[w].nonce}
  BY <1>1 DEF Starts
<1>12. ASSUME NEW u \in Worker
       PROVE  StartSound(visit[u])'
  <2>1. StartSound(visit[u])
    BY DEF LoginInv
  <2>2. CASE u = w
    <3>1. ASSUME NEW a \in attempts', a.nonce \in Starts(visit'[w])
          PROVE  visit'[w].registered /\ (visit'[w].result = "redirect" => visit'[w].uri = a.uri)
      <4>1. visit[w].result # "redirect"
        BY <1>1, <1>4, Here, SentinelAssumption DEF Local
      <4> QED
        BY <1>1, <4>1
    <3> QED
      BY <1>1, <1>2, <1>11, <2>1, <2>2, <3>1 DEF StartSound
  <2>3. CASE u # w
    BY <1>1, <1>2, <1>5, <1>9, <1>10, <2>1, <2>3 DEF StartSound
  <2> QED
    BY <2>2, <2>3
<1>13. ASSUME NEW u \in Worker
       PROVE  AskSound(req[u])'
  <2>1. AskSound(req[u])
    BY DEF LoginInv
  <2> QED
    BY <1>1, <1>2, <1>5, <1>9, <2>1 DEF AskSound
<1>14. AskedSound'
  BY <1>1, <1>2, <1>5, <1>8 DEF LoginInv, AskedSound
<1>15. OneEndpoint'
  BY <1>1, <1>5, <1>7, <1>8 DEF LoginInv, OneEndpoint
<1>16. StartsApart'
  <2>1. SUFFICES ASSUME NEW u \in Worker, NEW x \in Worker
                 PROVE  /\ Starts(visit'[u]) \cap Knows(req'[x]) = {}
                        /\ u # x => Starts(visit'[u]) \cap Starts(visit'[x]) = {}
    BY DEF StartsApart
  <2>2. /\ Starts(visit[u]) \cap Knows(req[x]) = {}
        /\ u # x => Starts(visit[u]) \cap Starts(visit[x]) = {}
    BY DEF LoginInv, StartsApart
  <2>3. Starts(visit'[u]) = Starts(visit[u]) /\ Starts(visit'[x]) = Starts(visit[x])
    BY <1>10, <1>11
  <2> QED
    BY <1>2, <2>2, <2>3
<1>17. LoginInv'
  BY <1>12, <1>13, <1>14, <1>15, <1>16 DEF LoginInv
<1> QED
  BY <1>3, <1>6, <1>17

LEMMA RedirectStep ==
  ASSUME Inv, NEW w \in Worker, LA!Redirect(w),
         UNCHANGED <<slVars, req, browserVars, drawn, logins>>
  PROVE  Inv'
<1> USE DEF Inv
<1>1. PICK a \in attempts : a.nonce = visit[w].nonce /\ visit'[w].uri = a.uri
  BY RedirectGoes
<1>2. /\ VisitStep(w) /\ now' = now /\ attempts' = attempts /\ used' = used
      /\ visit[w].phase = "pending" /\ visit[w].task = "checkid"
      /\ visit'[w].phase = "answered" /\ visit'[w].task = "checkid"
      /\ visit'[w].nonce = visit[w].nonce /\ visit'[w].registered = visit[w].registered
  BY RedirectGoes DEF EndsWith
<1>3. /\ req' = req /\ call' = call /\ leases' = leases
      /\ asked' = asked /\ jar' = jar /\ drawn' = drawn /\ logins' = logins
  BY DEF slVars, browserVars
<1>4. SessionInv' /\ ReqStep(w) /\ CallStep(w)
  BY <1>2, <1>3, SessionApart
<1>5. TypeInv'
  <2>1. visit'[w].uri \in Server
    BY <1>1 DEF TypeInv, Attempt
  <2>2. Local(req'[w], call'[w], visit'[w])
    BY <1>2, <1>3, <2>1, Here, SentinelAssumption DEF Local
  <2>3. StoresOK'
    BY <1>2, <1>3, StoresKept
  <2> QED
    BY <1>2, <1>4, <2>2, <2>3, TypeStep
<1>6. \A u \in Worker : u # w => visit'[u] = visit[u]
  BY <1>2 DEF VisitStep
<1>7. Starts(visit'[w]) = Starts(visit[w]) /\ Starts(visit[w]) = {visit[w].nonce}
  BY <1>2 DEF Starts
<1>8. ASSUME NEW u \in Worker
      PROVE  StartSound(visit[u])'
  <2>1. StartSound(visit[u])
    BY DEF LoginInv
  <2>2. CASE u = w
    <3>1. ASSUME NEW d \in attempts', d.nonce \in Starts(visit'[w])
          PROVE  visit'[w].registered /\ visit'[w].uri = d.uri
      <4>1. visit[w].registered
        BY <1>2, <1>7, <2>1, <2>2, <3>1 DEF StartSound
      <4>2. a.uri = d.uri
        BY <1>1, <1>2, <1>7, <3>1 DEF LoginInv, OneEndpoint
      <4> QED
        BY <1>1, <1>2, <4>1, <4>2
    <3> QED
      BY <1>2, <1>3, <1>7, <2>1, <2>2, <3>1 DEF StartSound
  <2>3. CASE u # w
    BY <1>2, <1>3, <1>6, <2>1, <2>3 DEF StartSound
  <2> QED
    BY <2>2, <2>3
<1>9. \A u \in Worker : Starts(visit'[u]) = Starts(visit[u])
  BY <1>6, <1>7
<1>10. \A u \in Worker : AskSound(req[u])'
  BY <1>2, <1>3 DEF LoginInv, AskSound
<1>11. AskedSound' /\ OneEndpoint'
  BY <1>2, <1>3 DEF LoginInv, AskedSound, OneEndpoint
<1>12. StartsApart'
  BY <1>3, <1>9 DEF LoginInv, StartsApart
<1>13. LoginInv'
  BY <1>8, <1>10, <1>11, <1>12 DEF LoginInv
<1> QED
  BY <1>4, <1>5, <1>13

\* A step that only takes the visit of a worker on, other than to a redirect.
LEMMA VisitMoves ==
  ASSUME Inv, NEW w \in Worker, VisitStep(w),
         visit[w].phase \in {"pending", "admitted"},
         visit'[w].phase \in {"admitted", "answered"}, visit'[w].task = visit[w].task,
         visit'[w].nonce = visit[w].nonce,
         visit'[w].phase = "admitted" => visit[w].task = "id_res",
         visit'[w].task = "checkid" =>
           visit'[w].registered = visit[w].registered /\ visit'[w].result # "redirect",
         now' = now, attempts' \subseteq attempts, used' = used,
         UNCHANGED <<slVars, req, browserVars, drawn, logins>>
  PROVE  Inv'
<1> USE DEF Inv
<1>1. /\ req' = req /\ call' = call /\ leases' = leases
      /\ asked' = asked /\ jar' = jar /\ drawn' = drawn /\ logins' = logins
  BY DEF slVars, browserVars
<1>2. SessionInv' /\ ReqStep(w) /\ CallStep(w)
  BY <1>1, SessionApart
<1>3. TypeInv'
  <2>1. Local(req'[w], call'[w], visit'[w])
    BY <1>1, Here, SentinelAssumption DEF Local
  <2>2. StoresOK'
    BY <1>1, StoresKept
  <2> QED
    BY <1>2, <2>1, <2>2, TypeStep
<1>4. LoginInv'
  <2>1. StartsNoMore(visit[w], visit'[w])
    BY DEF StartsNoMore
  <2> QED
    BY <1>1, <1>2, <2>1, StayQuiet, LoginQuiet
<1> QED
  BY <1>2, <1>3, <1>4

LEMMA ConsumerStepStep ==
  ASSUME Inv, NEW w \in Worker, ConsumerStep(w)
  PROVE  Inv'
<1>1. UNCHANGED <<slVars, req, browserVars, drawn, logins>>
  BY DEF ConsumerStep
<1>2. CASE \E uri \in Server : LA!Register(w, uri)
  BY <1>1, <1>2, RegisterStep
<1>3. CASE LA!Redirect(w)
  BY <1>1, <1>3, RedirectStep
<1>4. CASE LA!Admit(w)
  <2>1. /\ VisitStep(w) /\ now' = now /\ attempts' = attempts /\ used' = used
        /\ visit[w].phase = "pending" /\ visit[w].task = "id_res"
        /\ visit'[w].phase = "admitted" /\ visit'[w].task = "id_res"
        /\ visit'[w].nonce = visit[w].nonce
    BY <1>4, AdmitGoes DEF Inv
  <2> QED
    BY <1>1, <2>1, VisitMoves
<1>5. CASE LA!Fail(w)
  <2>1. /\ VisitStep(w) /\ now' = now /\ attempts' = attempts /\ used' = used
        /\ visit[w].phase = "pending"
        /\ visit'[w].phase = "answered" /\ visit'[w].result # "redirect"
        /\ visit'[w].task = visit[w].task /\ visit'[w].nonce = visit[w].nonce
        /\ visit'[w].registered = visit[w].registered
    BY <1>5, FailGoes DEF Inv, EndsWith
  <2> QED
    BY <1>1, <2>1, VisitMoves
<1> QED
  BY <1>2, <1>3, <1>4, <1>5 DEF ConsumerStep

\* validate_authentication_session.

LEMMA ValidateStep ==
  ASSUME Inv, NEW w \in Worker, ValidateAuthentication(w)
  PROVE  Inv'
<1> USE DEF Inv
<1>1. /\ req[w].phase = "dispatch" /\ req[w].kind = "response"
      /\ req[w].nonce # None /\ req[w].nonce \in Nonce
  BY Here DEF ValidateAuthentication, Request
<1>2. ReqStep(w) /\ Moved(req[w], req'[w], "validating")
  BY PhaseGoes DEF ValidateAuthentication, Phases
<1>3. /\ VisitStep(w) /\ now' = now /\ attempts' = attempts
      /\ visit'[w].phase = "pending" /\ visit'[w].task = "id_res"
      /\ visit'[w].nonce = req[w].nonce /\ visit'[w].result = None
      /\ used' = used \cup {req[w].nonce}
  BY <1>1, EnterGoes DEF ValidateAuthentication, LA!ReceiveResponse
<1>4. used' = used
  BY <1>1, <1>3 DEF LoginInv, AskSound, Knows
<1>5. /\ call' = call /\ leases' = leases
      /\ asked' = asked /\ jar' = jar /\ drawn' = drawn /\ logins' = logins
  BY DEF ValidateAuthentication, slVars, browserVars
<1>6. CallStep(w) /\ StoresOK'
  BY <1>3, <1>4, <1>5, Unchanged, StoresKept
<1>7. TypeInv'
  <2>1. Local(req'[w], call'[w], visit'[w])
    BY <1>1, <1>2, <1>3, <1>5, Here, SentinelAssumption DEF Local, Moved
  <2> QED
    BY <1>2, <1>3, <1>6, <2>1, TypeStep
<1>8. LoginInv'
  <2>1. StartsNoMore(visit[w], visit'[w])
    BY <1>3 DEF StartsNoMore
  <2>2. KnowsNoMore(req[w], req'[w])
    BY <1>1, <1>2 DEF KnowsNoMore, Moved
  <2> QED
    BY <1>2, <1>3, <1>4, <1>5, <2>1, <2>2, LoginQuiet
<1>9. SessionInv'
  <2>1. MintsNoMore(req[w], req'[w]) /\ GrantsNoMore(req[w], req'[w])
    BY <1>2 DEF MintsNoMore, GrantsNoMore, Moved
  <2>2. AsksNoMore(req[w], call[w], req'[w], call'[w]) /\ StoreInTime(req'[w], call'[w])
    BY <1>1, <1>5, Here, SentinelAssumption DEF AsksNoMore, StoreInTime
  <2> QED
    BY <1>2, <1>3, <1>5, <1>6, <2>1, <2>2, SessionSame
<1> QED
  BY <1>7, <1>8, <1>9

LEMMA NotValidatedStep ==
  ASSUME Inv, NEW w \in Worker, NotValidated(w)
  PROVE  Inv'
<1>1. /\ ReqStep(w) /\ Shown(req[w], req'[w], "form")
      /\ req'[w].nonce = None /\ req'[w].cookie = None
  BY ShowInputGoes DEF Inv, NotValidated
<1>2. /\ VisitStep(w) /\ now' = now /\ attempts' = attempts /\ used' = used
      /\ visit'[w].phase = "idle" /\ visit'[w].task = None
  BY LeaveVisit DEF Inv, NotValidated
<1>3. /\ call' = call /\ leases' = leases
      /\ asked' = asked /\ jar' = jar /\ drawn' = drawn /\ logins' = logins
  BY DEF NotValidated, slVars, browserVars
<1>4. req[w].phase = "validating" /\ CallStep(w)
  BY <1>3, Unchanged DEF NotValidated, Inv
<1>5. call'[w].op = None /\ call'[w].phase = "idle"
  BY <1>3, <1>4, Here DEF Inv
<1> QED
  BY <1>1, <1>2, <1>3, <1>4, <1>5, AnswerStep

LEMMA UnauthorizedStep ==
  ASSUME Inv, NEW w \in Worker, Unauthorized(w)
  PROVE  Inv'
<1>1. UNCHANGED <<slVars, req, browserVars, drawn, logins>> /\ req[w].phase = "validating"
  BY DEF Unauthorized
<1>2. /\ VisitStep(w) /\ now' = now /\ attempts' = attempts /\ used' = used
      /\ visit[w].phase = "admitted"
      /\ visit'[w].phase = "answered" /\ visit'[w].task = visit[w].task
      /\ visit'[w].nonce = visit[w].nonce
  BY RefuseGoes DEF Inv, Unauthorized, EndsWith
<1>3. visit[w].task = "id_res"
  BY <1>2, Here DEF Inv, Local
<1> QED
  BY <1>1, <1>2, <1>3, VisitMoves

\* A user who is accepted has the username that a login at that place brings, and
\* the program, if there is one, has accepted the identity.
LEMMA AcceptedName ==
  ASSUME NEW c, NEW b, NEW ax \in AxOutcome, AxAccepted(c, ax)
  PROVE  AxUsername(c, b, ax) = IF c.use_ax /\ c.use_ax_username THEN Username(b) ELSE Empty
  BY DEF AxAccepted, AxUsername, AxOutcome

LEMMA AcceptedByProgram ==
  ASSUME NEW b, "id_accepted" \in ExecAuth(b)
  PROVE  b \in Approved
  BY DEF ExecAuth

LEMMA AcceptStep ==
  ASSUME Inv, NEW w \in Worker, Accept(w)
  PROVE  Inv'
<1> USE DEF Inv
<1>1. req[w].phase = "validating" /\ req[w].browser \in Browser /\ req[w].place \in Place
  BY Here DEF Accept, Local
<1>2. PICK ax \in AxOutcome :
        /\ AxAccepted(Conf(w), ax)
        /\ req' = [req EXCEPT ![w].phase = "accepted",
                     ![w].username = AxUsername(Conf(w), req[w].browser, ax)]
  BY DEF Accept
<1>3. AxUsername(Conf(w), req[w].browser, ax) = LoginName(req[w].place, req[w].browser)
  BY <1>2, AcceptedName DEF LoginName, Conf
<1>4. LoginName(req[w].place, req[w].browser) \in Names
  BY <1>1 DEF LoginName, Names
<1>5. /\ ReqStep(w)
      /\ req'[w].phase = "accepted"
      /\ req'[w].username = LoginName(req[w].place, req[w].browser)
      /\ req'[w].browser = req[w].browser /\ req'[w].place = req[w].place
      /\ req'[w].kind = req[w].kind /\ req'[w].nonce = req[w].nonce
      /\ req'[w].cookie = req[w].cookie /\ req'[w].reply = req[w].reply
  BY <1>2, <1>3, <1>4, AcceptGoes
<1>6. /\ VisitStep(w) /\ now' = now /\ attempts' \subseteq attempts /\ used' = used
      /\ visit[w].phase = "admitted"
      /\ visit'[w].phase = "answered" /\ visit'[w].task = visit[w].task
      /\ visit'[w].nonce = visit[w].nonce
  BY RedeemGoes DEF Accept, EndsWith
<1>7. /\ call' = call /\ leases' = leases
      /\ asked' = asked /\ jar' = jar /\ drawn' = drawn
      /\ logins' = logins \cup {[browser |-> req[w].browser, place |-> req[w].place]}
  BY DEF Accept, slVars, browserVars
<1>8. CallStep(w) /\ StoresOK'
  <2>1. CallStep(w)
    BY <1>7, Unchanged
  <2>2. StoresOK'
    BY <1>1, <1>6, <1>7, TypeInvStores DEF StoresOK
  <2> QED
    BY <2>1, <2>2
<1>9. TypeInv'
  <2>1. Local(req'[w], call'[w], visit'[w])
    BY <1>1, <1>5, <1>6, <1>7, Here, SentinelAssumption DEF Local
  <2> QED
    BY <1>5, <1>6, <1>8, <2>1, TypeStep
<1>10. LoginInv'
  <2>1. visit[w].task = "id_res"
    BY <1>6, Here DEF Local
  <2>2. StartsNoMore(visit[w], visit'[w])
    BY <1>6, <2>1 DEF StartsNoMore
  <2>3. KnowsNoMore(req[w], req'[w])
    BY <1>5 DEF KnowsNoMore
  <2> QED
    BY <1>5, <1>6, <1>7, <2>2, <2>3, LoginQuiet
<1>11. SessionInv'
  <2>1. MintsNoMore(req[w], req'[w])
    BY <1>5 DEF MintsNoMore
  <2>2. AsksNoMore(req[w], call[w], req'[w], call'[w]) /\ StoreInTime(req'[w], call'[w])
    BY <1>1, <1>7, Here, SentinelAssumption DEF AsksNoMore, StoreInTime
  <2>3. GrantSound(req[w])'
    <3>1. Config[req[w].place].use_auth_program => req[w].browser \in Approved
      BY AcceptedByProgram DEF Accept, Conf
    <3>2. LoggedIn(logins', [browser |-> req[w].browser, place |-> req[w].place],
                   req[w].browser)
      BY <1>7, <3>1 DEF LoggedIn
    <3>3. req'[w].reply # "ok"
      BY <1>1, <1>5, Here, SentinelAssumption
    <3> QED
      BY <1>5, <3>2, <3>3 DEF GrantSound
  <2>4. now' \in Int /\ now <= now' /\ \A b \in Browser : jar'[b] \subseteq jar[b]
    BY <1>6, <1>7, Clock
  <2> QED
    BY <1>5, <1>7, <1>8, <2>1, <2>2, <2>3, <2>4, SessionQuiet
<1> QED
  BY <1>9, <1>10, <1>11

\* set_session_cookie.

LEMMA ShowPageStep ==
  ASSUME Inv, NEW w \in Worker, ShowPage(w)
  PROVE  Inv'
<1> USE DEF Inv
<1> DEFINE b == req[w].browser
           user == RemoteUser(Conf(w), Identity(b), req[w].username)
<1>1. req[w].phase = "accepted" /\ req[w].browser \in Browser
  BY Here DEF ShowPage, Local
<1>2. user \in Names
  BY <1>1, Here DEF Request, Names, RemoteUser
<1>3. Ok(w, user)
  BY DEF ShowPage
<1>4. /\ ReqStep(w)
      /\ Shown(req[w], req'[w], "ok") \/ Shown(req[w], req'[w], "denied")
      /\ req'[w].nonce = None /\ req'[w].cookie = None /\ req'[w].user = user
      /\ req'[w].reply = "ok" => Authorized(Conf(w).requires, "GET", user)
  BY <1>2, <1>3, OkGoes
<1>5. /\ VisitStep(w) /\ now' = now /\ attempts' = attempts /\ used' = used
      /\ visit'[w].phase = "idle" /\ visit'[w].task = None
  BY LeaveVisit DEF ShowPage
<1>6. /\ call' = call /\ leases' = leases
      /\ asked' = asked /\ jar' = jar /\ drawn' = drawn /\ logins' = logins
  BY DEF ShowPage, slVars, browserVars
<1>7. CallStep(w) /\ call'[w].op = None /\ call'[w].phase = "idle"
  BY <1>1, <1>6, Here, Unchanged
<1>8. GrantSound(req[w])'
  <2>1. /\ LoggedIn(logins, [browser |-> b, place |-> req[w].place], b)
        /\ req[w].username = LoginName(req[w].place, b)
    BY <1>1 DEF SessionInv, GrantSound
  <2>2. PICK l \in logins : l.place = req[w].place /\ LoggedIn(logins, l, b)
    BY <2>1 DEF LoggedIn
  <2>3. user = RemoteUser(Config[req[w].place], Identity(b), LoginName(l.place, b))
    BY <2>1, <2>2 DEF Conf
  <2>4. /\ req'[w].phase = "answered" /\ req'[w].browser = b
        /\ req'[w].place = req[w].place
    BY <1>4 DEF Shown
  <2> HIDE DEF b, user
  <2> QED
    BY <1>4, <1>6, <2>2, <2>3, <2>4 DEF GrantSound, Conf
<1> HIDE DEF b, user
<1>9. CASE Shown(req[w], req'[w], "ok")
  BY <1>1, <1>4, <1>5, <1>6, <1>7, <1>8, <1>9, AnswerStep
<1>10. CASE Shown(req[w], req'[w], "denied")
  BY <1>1, <1>4, <1>5, <1>6, <1>7, <1>8, <1>10, AnswerStep
<1> QED
  BY <1>4, <1>9, <1>10

LEMMA CookiePathType ==
  ASSUME NEW p \in Place
  PROVE  CookiePath(p) \in Paths /\ p.hostname \in Hostnames
<1>1. Config[p] \in Directives
  BY ConfigAssumption
<1>2. Config[p].cookie_path # None => Config[p].cookie_path \in CookiePaths
  BY <1>1 DEF Directives
<1> QED
  BY <1>2 DEF CookiePath, Paths, Hostnames

LEMMA SessionType ==
  ASSUME TypeInv, NEW w \in Worker, req[w].phase # "idle"
  PROVE  Session(req[w]) \in Payload
<1>1. req[w].browser \in Browser /\ req[w].place \in Place /\ req[w].username \in Names
  BY Here DEF Local, Request
<1>2. CookiePath(req[w].place) \in Paths /\ req[w].place.hostname \in Hostnames
  BY <1>1, CookiePathType
<1>3. Identity(req[w].browser) \in Names
  BY <1>1 DEF Names
<1> QED
  BY <1>1, <1>2, <1>3 DEF Session, Payload

LEMMA MakeCookieStep ==
  ASSUME Inv, NEW w \in Worker, NEW id \in SessionId, MakeCookie(w, id)
  PROVE  Inv'
<1> USE DEF Inv
<1> DEFINE k == [session_id |-> id, hostname |-> req[w].place.hostname,
                 path |-> CookiePath(req[w].place), expires |-> CookieExpiry]
<1>1. req[w].phase = "accepted" /\ req[w].place \in Place
  BY Here DEF MakeCookie, Local
<1>2. k \in Cookie
  <2>1. CookieExpiry \in Int \cup {None}
    BY Clock, ClockAssumption DEF CookieExpiry
  <2> QED
    BY <1>1, <2>1, CookiePathType DEF Cookie
<1>3. k.session_id = id /\ k.expires = CookieExpiry
  OBVIOUS
<1>4. req' = [req EXCEPT ![w].phase = "cookie", ![w].cookie = k]
  BY DEF MakeCookie, TypeInv, TypeOK
<1> HIDE DEF k
<1>5. /\ ReqStep(w)
      /\ req'[w].phase = "cookie" /\ req'[w].cookie = k
      /\ req'[w].browser = req[w].browser /\ req'[w].place = req[w].place
      /\ req'[w].kind = req[w].kind /\ req'[w].nonce = req[w].nonce
      /\ req'[w].username = req[w].username /\ req'[w].reply = req[w].reply
  BY <1>2, <1>4, MintGoes
<1>6. /\ VisitStep(w) /\ now' = now /\ attempts' = attempts /\ used' = used
      /\ visit'[w].phase = "idle" /\ visit'[w].task = None
  BY LeaveVisit DEF MakeCookie
<1>7. /\ call' = call /\ leases' = leases /\ asked' = asked /\ jar' = jar /\ logins' = logins
      /\ id \notin drawn /\ drawn' = drawn \cup {id}
  BY DEF MakeCookie, slVars, browserVars
<1>8. CallStep(w) /\ StoresOK'
  <2>1. CallStep(w)
    BY <1>7, Unchanged
  <2>2. StoresOK'
    BY <1>6, <1>7, TypeInvStores DEF StoresOK
  <2> QED
    BY <2>1, <2>2
<1>9. TypeInv'
  <2>1. k # None
    BY <1>2, SentinelAssumption
  <2>2. Local(req'[w], call'[w], visit'[w])
    BY <1>1, <1>5, <1>6, <1>7, <2>1, Here, SentinelAssumption DEF Local
  <2> QED
    BY <1>5, <1>6, <1>8, <2>2, TypeStep
<1>10. LoginInv'
  <2>1. KnowsNoMore(req[w], req'[w])
    BY <1>5 DEF KnowsNoMore
  <2>2. StartsNoMore(visit[w], visit'[w])
    BY <1>6, SentinelAssumption DEF StartsNoMore
  <2> QED
    BY <1>5, <1>6, <1>7, <2>1, <2>2, LoginQuiet
<1>11. SessionInv'
  <2>1. \A u \in Worker : Mints(req[u]) \subseteq drawn /\ Asks(call[u]) \subseteq drawn
    BY DEF SessionInv, MintSound, CallSound
  <2>2. Mints(req'[w]) = {id}
    BY <1>2, <1>3, <1>5, SentinelAssumption DEF Mints
  <2>3. now \in Int /\ now' \in Int /\ now <= now' /\ Lifespan \in Int
    BY <1>6, Clock, ClockAssumption
  <2>4. ASSUME NEW u \in Worker, u # w
        PROVE  /\ MintsNoMore(req[u], req'[u])
               /\ AsksNoMore(req[u], call[u], req'[u], call'[u])
               /\ StoreInTime(req'[u], call'[u])
               /\ GrantsNoMore(req[u], req'[u])
    BY <1>5, <1>8, <2>4, NoMoreThanBefore
  <2>5. ASSUME NEW u \in Worker
        PROVE  MintSound(req[u])'
    <3>1. CASE u = w
      <4>1. \A b \in Browser : \A c \in jar[b] : c.session_id # id
        BY <1>7 DEF SessionInv, JarSound
      <4>2. \A l \in leases : l.session_id # id
        BY <1>7 DEF SessionInv
      <4>3. Lifespan # 0 => k.expires = now + Lifespan
        BY <1>3 DEF CookieExpiry
      <4> QED
        BY <1>5, <1>6, <1>7, <2>2, <2>3, <3>1, <4>1, <4>2, <4>3 DEF MintSound
    <3>2. CASE u # w
      BY <1>7, <2>3, <2>4, <3>2, MintsQuiet
    <3> QED
      BY <3>1, <3>2
  <2>6. ASSUME NEW u \in Worker
        PROVE  CallSound(req[u], call[u])'
    <3>1. CASE u = w
      <4>1. call[w].op = None
        BY <1>1, Here
      <4> QED
        BY <1>7, <3>1, <4>1, SentinelAssumption DEF CallSound, Asks
    <3>2. CASE u # w
      <4>1. call'[u].op = "store" /\ Lifespan # 0 =>
              req'[u].cookie.expires <= call'[u].began + Lifespan
        BY <2>4, <3>2 DEF StoreInTime
      <4> QED
        BY <1>7, <2>4, <3>2, <4>1, CallQuiet
    <3> QED
      BY <3>1, <3>2
  <2>7. ASSUME NEW u \in Worker
        PROVE  GrantSound(req[u])'
    <3>1. GrantsNoMore(req[w], req'[w])
      BY <1>1, <1>5, Here, SentinelAssumption DEF GrantsNoMore
    <3> QED
      BY <1>7, <2>4, <3>1, GrantQuiet
  <2>8. JarSound' /\ \A l \in leases' : l.session_id \in drawn'
    BY <1>7, JarQuiet
  <2>9. MintsApart'
    <3>1. SUFFICES ASSUME NEW u \in Worker, NEW x \in Worker
                   PROVE  /\ Mints(req'[u]) \cap Asks(call[x]) = {}
                          /\ u # x => Mints(req'[u]) \cap Mints(req'[x]) = {}
      BY <1>7 DEF MintsApart
    <3>2. /\ Mints(req[u]) \cap Asks(call[x]) = {}
          /\ u # x => Mints(req[u]) \cap Mints(req[x]) = {}
      BY DEF SessionInv, MintsApart
    <3>3. \A y \in Worker : y # w => req'[y] = req[y]
      BY <1>5 DEF ReqStep
    <3>4. CASE u = w
      BY <1>7, <2>1, <2>2, <3>3, <3>4
    <3>5. CASE u # w /\ x = w
      BY <1>7, <2>1, <2>2, <3>2, <3>3, <3>5
    <3>6. CASE u # w /\ x # w
      BY <3>2, <3>3, <3>6
    <3> QED
      BY <3>4, <3>5, <3>6
  <2> QED
    BY <2>5, <2>6, <2>7, <2>8, <2>9 DEF SessionInv
<1> QED
  BY <1>9, <1>10, <1>11

LEMMA StoreSessionStep ==
  ASSUME Inv, NEW w \in Worker, StoreSession(w)
  PROVE  Inv'
<1> USE DEF Inv
<1>1. req[w].phase = "cookie" /\ req[w].cookie # None /\ req[w].cookie \in Cookie
  BY Here DEF StoreSession, Local, Request
<1>2. ReqStep(w) /\ Moved(req[w], req'[w], "storing")
  BY PhaseGoes DEF StoreSession, Phases
<1>3. /\ CallStep(w) /\ now' = now /\ leases' = leases
      /\ call'[w].phase = "pending" /\ call'[w].op = "store"
      /\ call'[w].session_id = req[w].cookie.session_id
      /\ call'[w].payload = Session(req[w]) /\ call'[w].began = now
  <2>1. req[w].cookie.session_id \in SessionId
    BY <1>1 DEF Cookie
  <2>2. Session(req[w]) \in Payload \cup {None}
    BY <1>1, SessionType
  <2>3. SL!Ask(w, "store", req[w].cookie.session_id, Session(req[w]))
    BY DEF StoreSession
  <2> QED
    BY <2>1, <2>2, <2>3, AskGoes
<1>4. /\ visit' = visit /\ attempts' = attempts /\ used' = used
      /\ asked' = asked /\ jar' = jar /\ drawn' = drawn /\ logins' = logins
  BY DEF StoreSession, laVars, browserVars
<1>5. VisitStep(w) /\ StoresOK'
  BY <1>3, <1>4, Unchanged, StoresKept
<1>6. TypeInv'
  <2>1. Session(req'[w]) = Session(req[w])
    BY <1>2 DEF Session, Moved
  <2>2. Local(req'[w], call'[w], visit'[w])
    BY <1>1, <1>2, <1>3, <1>4, <2>1, Here, SentinelAssumption DEF Local, Moved
  <2> QED
    BY <1>2, <1>3, <1>5, <2>2, TypeStep
<1>7. LoginInv'
  <2>1. KnowsNoMore(req[w], req'[w])
    BY <1>2 DEF KnowsNoMore, Moved
  <2> QED
    BY <1>2, <1>4, <1>5, <2>1, StayQuiet, LoginQuiet
<1>8. SessionInv'
  <2>1. MintsNoMore(req[w], req'[w]) /\ GrantsNoMore(req[w], req'[w])
    BY <1>1, <1>2 DEF MintsNoMore, GrantsNoMore, Moved
  <2>2. AsksNoMore(req[w], call[w], req'[w], call'[w])
    BY <1>3 DEF AsksNoMore
  <2>3. StoreInTime(req'[w], call'[w])
    BY <1>1, <1>2, <1>3 DEF StoreInTime, Moved, SessionInv, MintSound
  <2> QED
    BY <1>2, <1>3, <1>4, <2>1, <2>2, <2>3, SessionSame
<1> QED
  BY <1>6, <1>7, <1>8

\* The session is stored: the row is under an id that nobody else has, of the
\* browser that logged in, and outlives the cookie.
LEMMA SessionStoredStep ==
  ASSUME Inv, NEW w \in Worker, SessionStored(w)
  PROVE  Inv'
<1> USE DEF Inv
<1>1. /\ CallStep(w) /\ now' = now
      /\ call[w].phase = "pending" /\ call[w].op = "store"
      /\ call'[w].phase = "answered" /\ call'[w].op = "store"
      /\ call'[w].session_id = call[w].session_id
      /\ call'[w].payload = call[w].payload /\ call'[w].began = call[w].began
      /\ \/ leases' = leases
         \/ \E e \in (call[w].began + Term) .. (now + Term) :
              leases' = leases \cup
                {[session_id |-> call[w].session_id, payload |-> call[w].payload,
                  expires_on |-> e]}
  BY GrantGoes DEF SessionStored
<1>2. /\ req' = req /\ visit' = visit /\ attempts' = attempts /\ used' = used
      /\ asked' = asked /\ jar' = jar /\ drawn' = drawn /\ logins' = logins
  BY DEF SessionStored, laVars, browserVars
<1>3. /\ req[w].phase = "storing" /\ req[w].cookie # None /\ req[w].cookie \in Cookie
      /\ call[w].session_id = req[w].cookie.session_id
      /\ call[w].payload = Session(req[w])
  BY <1>1, Here DEF Local, Request
<1>4. ReqStep(w) /\ VisitStep(w)
  BY <1>2, Unchanged
<1> DEFINE b == req[w].browser
           id == req[w].cookie.session_id
<1>5. \A l \in leases' :
        \/ l \in leases
        \/ /\ l \in Lease
           /\ l.session_id = id
           /\ l.payload = Session(req[w])
           /\ Lifespan # 0 => l.expires_on >= call[w].began + Lifespan
  <2>1. CASE leases' = leases
    BY <2>1
  <2>2. ASSUME NEW e \in (call[w].began + Term) .. (now + Term),
               leases' = leases \cup
                {[session_id |-> call[w].session_id, payload |-> call[w].payload,
                  expires_on |-> e]}
        PROVE <1>5
    <3> DEFINE new == [session_id |-> call[w].session_id, payload |-> call[w].payload,
                       expires_on |-> e]
    <3>1. Session(req[w]) \in Payload /\ id \in SessionId
      BY <1>3, SessionType DEF Cookie
    <3>2. call[w].began \in Int /\ Term \in Int /\ e \in Int /\ now \in Int
      BY Here, Clock, ClockAssumption DEF Call, Term
    <3>3. new \in Lease
      BY <1>3, <3>1, <3>2 DEF Lease
    <3>4. /\ new.session_id = id /\ new.payload = Session(req[w])
          /\ new.expires_on = e
      BY <1>3
    <3>5. Lifespan # 0 => e >= call[w].began + Lifespan
      BY <3>2 DEF Term
    <3>6. leases' = leases \cup {new}
      BY <2>2
    <3> HIDE DEF new
    <3> QED
      BY <3>3, <3>4, <3>5, <3>6
  <2> QED
    BY <1>1, <2>1, <2>2
<1>6. StoresOK'
  BY <1>1, <1>2, <1>5, TypeInvStores DEF StoresOK
<1>7. TypeInv'
  <2>1. Local(req'[w], call'[w], visit'[w])
    BY <1>1, <1>2, <1>3, Here, SentinelAssumption DEF Local
  <2> QED
    BY <1>1, <1>4, <1>6, <2>1, TypeStep
<1>8. LoginInv'
  BY <1>2, <1>4, StayQuiet, LoginQuiet
<1>9. SessionInv'
  <2>1. Good(logins, Session(req[w]), b)
    <3>1. /\ LoggedIn(logins, [browser |-> b, place |-> req[w].place], b)
          /\ req[w].username = LoginName(req[w].place, b)
      BY <1>3 DEF SessionInv, GrantSound
    <3>2. PICK l \in logins : l.place = req[w].place /\ LoggedIn(logins, l, b)
      BY <3>1 DEF LoggedIn
    <3> QED
      BY <3>1, <3>2 DEF Good, Session
  <2>2. Lifespan # 0 => req[w].cookie.expires <= call[w].began + Lifespan
    BY <1>1 DEF SessionInv, CallSound
  <2>3. Lifespan # 0 => req[w].cookie.expires \in Int
    BY <1>3 DEF SessionInv, MintSound
  <2>4. ASSUME NEW l \in leases', l \notin leases
        PROVE  /\ l.session_id = id /\ Good(logins, l.payload, b)
               /\ Lifespan # 0 => req[w].cookie.expires <= l.expires_on
    <3>1. /\ l \in Lease /\ l.session_id = id /\ l.payload = Session(req[w])
          /\ Lifespan # 0 => l.expires_on >= call[w].began + Lifespan
      BY <1>5, <2>4
    <3>2. l.expires_on \in Int /\ call[w].began \in Int /\ Lifespan \in Int
      BY <3>1, Here, ClockAssumption DEF Lease, Call
    <3> QED
      BY <2>1, <2>2, <2>3, <3>1, <3>2
  <2>5. Mints(req[w]) = {id}
    BY <1>3 DEF Mints
  <2>6. ASSUME NEW u \in Worker
        PROVE  id \notin Asks(call[u]) /\ (u # w => id \notin Mints(req[u]))
    BY <2>5 DEF SessionInv, MintsApart
  <2>7. \A u \in Worker : Asks(call'[u]) = Asks(call[u])
    <3>1. Asks(call'[w]) = Asks(call[w])
      BY <1>1 DEF Asks
    <3> QED
      BY <1>1, <3>1 DEF CallStep
  <2>8. ASSUME NEW u \in Worker
        PROVE  MintSound(req[u])'
    <3>1. MintSound(req[u])
      BY DEF SessionInv
    <3>2. ASSUME NEW l \in leases', l.session_id \in Mints(req[u])
          PROVE  /\ Good(logins, l.payload, req[u].browser)
                 /\ Lifespan # 0 => req[u].cookie.expires <= l.expires_on
      <4>1. CASE l \in leases
        BY <3>1, <3>2, <4>1 DEF MintSound
      <4>2. CASE l \notin leases
        <5>1. u = w
          BY <2>4, <2>6, <3>2, <4>2
        <5> QED
          BY <2>4, <4>2, <5>1
      <4> QED
        BY <4>1, <4>2
    <3> QED
      BY <1>1, <1>2, <3>1, <3>2 DEF MintSound
  <2>9. ASSUME NEW u \in Worker
        PROVE  CallSound(req[u], call[u])'
    <3>1. CallSound(req[u], call[u])
      BY DEF SessionInv
    <3>2. ASSUME NEW l \in leases', l.session_id \in Asks(call[u])
          PROVE  Good(logins, l.payload, req[u].browser)
      BY <2>4, <2>6, <3>1, <3>2 DEF CallSound
    <3>3. Asks(call'[u]) = Asks(call[u])
      BY <2>7
    <3>4. CASE u = w
      <4>1. /\ Asks(call'[w]) \subseteq drawn'
            /\ \A l \in leases' : l.session_id \in Asks(call'[w])
                 => Good(logins', l.payload, req'[w].browser)
        BY <1>2, <3>1, <3>2, <3>3, <3>4 DEF CallSound
      <4>2. call'[w].op # "get"
        BY <1>1
      <4>3. Lifespan # 0 => req'[w].cookie.expires <= call'[w].began + Lifespan
        BY <1>1, <1>2, <2>2
      <4> QED
        BY <3>4, <4>1, <4>2, <4>3 DEF CallSound
    <3>5. CASE u # w
      <4>1. call'[u] = call[u]
        BY <1>1, <3>5 DEF CallStep
      <4> QED
        BY <1>2, <3>1, <3>2, <4>1 DEF CallSound
    <3> QED
      BY <3>4, <3>5
  <2>10. ASSUME NEW u \in Worker
         PROVE  GrantSound(req[u])'
    BY <1>2, StayQuiet, GrantQuiet
  <2>11. \A l \in leases' : l.session_id \in drawn'
    <3>1. id \in drawn
      BY <2>5 DEF SessionInv, MintSound
    <3> QED
      BY <1>2, <2>4, <3>1 DEF SessionInv
  <2>12. JarSound'
    <3>1. \A c \in Browser : \A k \in jar[c] : k.session_id # id
      BY <2>5 DEF SessionInv, MintSound
    <3> QED
      BY <1>2, <2>4, <3>1 DEF SessionInv, JarSound
  <2>13. MintsApart'
    BY <1>2, <2>7 DEF SessionInv, MintsApart
  <2> QED
    BY <2>8, <2>9, <2>10, <2>11, <2>12, <2>13 DEF SessionInv
<1> QED
  BY <1>7, <1>8, <1>9

LEMMA RedirectWithCookieStep ==
  ASSUME Inv, NEW w \in Worker, RedirectWithCookie(w)
  PROVE  Inv'
<1> USE DEF Inv
<1>1. req[w].phase = "storing" /\ req[w].cookie # None /\ req[w].cookie \in Cookie
  BY Here DEF RedirectWithCookie, Local, Request
<1>2. /\ ReqStep(w) /\ Shown(req[w], req'[w], "cookie")
      /\ req'[w].nonce = None /\ req'[w].cookie = req[w].cookie
  BY <1>1, WithCookieGoes DEF RedirectWithCookie
<1>3. /\ CallStep(w) /\ now' = now /\ leases' = leases
      /\ call'[w].phase = "idle" /\ call'[w].op = None
  BY LeaveCall DEF RedirectWithCookie
<1>4. /\ visit' = visit /\ attempts' = attempts /\ used' = used
      /\ asked' = asked /\ jar' = jar /\ drawn' = drawn /\ logins' = logins
  BY DEF RedirectWithCookie, laVars, browserVars
<1>5. VisitStep(w) /\ StoresOK'
  BY <1>3, <1>4, Unchanged, StoresKept
<1>6. TypeInv'
  <2>1. Local(req'[w], call'[w], visit'[w])
    BY <1>1, <1>2, <1>3, <1>4, Here, SentinelAssumption DEF Local, Shown
  <2> QED
    BY <1>2, <1>3, <1>5, <2>1, TypeStep
<1>7. LoginInv'
  <2>1. KnowsNoMore(req[w], req'[w])
    BY <1>2 DEF KnowsNoMore
  <2> QED
    BY <1>2, <1>4, <1>5, <2>1, StayQuiet, LoginQuiet
<1>8. SessionInv'
  <2>1. MintsNoMore(req[w], req'[w]) /\ GrantsNoMore(req[w], req'[w])
    BY <1>2 DEF MintsNoMore, GrantsNoMore, Shown
  <2>2. AsksNoMore(req[w], call[w], req'[w], call'[w]) /\ StoreInTime(req'[w], call'[w])
    BY <1>3, SentinelAssumption DEF AsksNoMore, StoreInTime
  <2> QED
    BY <1>2, <1>3, <1>4, <2>1, <2>2, SessionSame
<1> QED
  BY <1>6, <1>7, <1>8

\* The response reaches the browser, which learns the name of the login or the id
\* of the session.

LEMMA RespondStep ==
  ASSUME Inv, NEW w \in Worker, Respond(w)
  PROVE  Inv'
<1> USE DEF Inv
<1> DEFINE r == req[w]
<1>1. r.phase = "answered" /\ r.browser \in Browser /\ r.place \in Place
  BY Here DEF Respond, Local
<1>2. /\ ReqStep(w) /\ req'[w].phase = "idle" /\ req'[w].kind = None
      /\ req'[w].nonce = None /\ req'[w].cookie = None /\ req'[w].reply = None
  BY IdleGoes DEF Respond
<1>3. /\ now' = now /\ leases' = leases /\ call' = call
      /\ attempts' = attempts /\ used' = used /\ visit' = visit
      /\ drawn' = drawn /\ logins' = logins
  BY DEF Respond, dbVars
<1>4. CallStep(w) /\ VisitStep(w)
  BY <1>3, Unchanged
<1>5. \A q \in asked' : q \in asked
         \/ /\ r.reply = "redirect"
            /\ q = [browser |-> r.browser, nonce |-> r.nonce, place |-> r.place, uri |-> r.uri]
  BY DEF Respond
<1>6. /\ jar' \in [Browser -> SUBSET Cookie]
      /\ \A b \in Browser : \A k \in jar'[b] :
           k \in jar[b] \/ (r.reply = "cookie" /\ b = r.browser /\ k = r.cookie)
  <2>1. CASE r.reply = "cookie"
    <3> DEFINE kept == {c \in jar[r.browser] : \/ c.hostname # r.cookie.hostname
                                              \/ c.path # r.cookie.path}
    <3>1. r.cookie \in Cookie
      BY <2>1, Here DEF Local, Request
    <3>2. kept \cup {r.cookie} \in SUBSET Cookie /\ kept \subseteq jar[r.browser]
      BY <1>1, <3>1 DEF TypeInv, TypeOK
    <3>3. jar' = [jar EXCEPT ![r.browser] = kept \cup {r.cookie}]
      BY <2>1 DEF Respond
    <3> HIDE DEF kept
    <3>4. jar \in [Browser -> SUBSET Cookie]
      BY DEF TypeInv, TypeOK
    <3>5. jar' \in [Browser -> SUBSET Cookie]
      BY <1>1, <3>2, <3>3, <3>4
    <3>6. /\ jar'[r.browser] = kept \cup {r.cookie}
          /\ \A b \in Browser : b # r.browser => jar'[b] = jar[b]
      BY <1>1, <3>3, <3>4
    <3> QED
      BY <2>1, <3>2, <3>5, <3>6
  <2>2. CASE r.reply # "cookie"
    BY <2>2 DEF Respond, TypeInv, TypeOK
  <2> QED
    BY <2>1, <2>2
<1> HIDE DEF r
<1>7. StoresOK'
  <2>1. r.reply = "redirect" =>
          [browser |-> r.browser, nonce |-> r.nonce, place |-> r.place, uri |-> r.uri]
            \in [browser : Browser, nonce : Nonce, place : Place, uri : Server]
    BY <1>1, Here DEF r, Local
  <2>2. asked' \subseteq [browser : Browser, nonce : Nonce, place : Place, uri : Server]
    BY <1>5, <2>1, TypeInvStores DEF StoresOK
  <2> QED
    BY <1>3, <1>6, <2>2, TypeInvStores DEF StoresOK
<1>8. TypeInv'
  <2>1. Local(req'[w], call'[w], visit'[w])
    BY <1>1, <1>2, <1>3, Here, SentinelAssumption DEF Local, r
  <2> QED
    BY <1>2, <1>4, <1>7, <2>1, TypeStep
<1>9. \A u \in Worker : u # w => req'[u] = req[u]
  BY <1>2 DEF ReqStep
<1>10. LoginInv'
  <2>1. Knows(req'[w]) = {}
    BY <1>2 DEF Knows
  <2>2. ASSUME NEW q \in asked', q \notin asked
        PROVE  q.nonce \in Knows(r) /\ q.place = r.place
    <3>1. r.nonce \in Nonce /\ r.reply = "redirect"
      BY <1>5, <2>2, Here DEF Local, r
    <3> QED
      BY <1>5, <2>2, <3>1, SentinelAssumption DEF Knows
  <2>3. ASSUME NEW u \in Worker
        PROVE  StartSound(visit[u])'
    <3>1. StartSound(visit[u]) /\ Starts(visit[u]) \cap Knows(r) = {}
      BY DEF LoginInv, StartsApart, r
    <3>2. \A q \in asked' : q.nonce \notin Starts(visit[u])
      BY <2>2, <3>1 DEF StartSound
    <3> QED
      BY <1>3, <3>1, <3>2 DEF StartSound
  <2>4. ASSUME NEW u \in Worker
        PROVE  AskSound(req[u])'
    <3>1. CASE u = w
      BY <2>1, <3>1 DEF AskSound
    <3>2. CASE u # w
      BY <1>3, <1>9, <3>2 DEF LoginInv, AskSound
    <3> QED
      BY <3>1, <3>2
  <2>5. AskedSound'
    <3>1. AskSound(r) /\ AskedSound
      BY DEF LoginInv, r
    <3>2. \A q \in asked' : q.nonce \in used'
      BY <1>3, <2>2, <3>1 DEF AskSound, AskedSound
    <3>3. ASSUME NEW q \in asked', NEW a \in attempts', a.nonce = q.nonce
          PROVE  IdpAllowed(Config[q.place], a.uri)
      BY <1>3, <2>2, <3>1, <3>3 DEF AskSound, AskedSound
    <3> QED
      BY <3>2, <3>3 DEF AskedSound
  <2>6. OneEndpoint'
    BY <1>3 DEF LoginInv, OneEndpoint
  <2>7. StartsApart'
    <3>1. \A u \in Worker : Knows(req'[u]) \subseteq Knows(req[u])
      BY <1>9, <2>1
    <3> QED
      BY <1>3, <3>1 DEF LoginInv, StartsApart
  <2> QED
    BY <2>3, <2>4, <2>5, <2>6, <2>7 DEF LoginInv
<1>11. SessionInv'
  <2>1. Mints(req'[w]) = {}
    BY <1>2 DEF Mints
  <2>2. r.reply = "cookie" =>
          /\ Mints(r) = {r.cookie.session_id}
          /\ r.cookie # None
    BY Here DEF Local, Mints, r
  <2>3. MintSound(r)
    BY DEF SessionInv, r
  <2>4. call[w].op = None
    BY <1>1, Here, SentinelAssumption DEF r
  <2>5. ASSUME NEW u \in Worker
        PROVE  MintSound(req[u])'
    <3>1. CASE u = w
      BY <1>2, <2>1, <3>1 DEF MintSound
    <3>2. CASE u # w
      <4>1. MintSound(req[u]) /\ Mints(r) \cap Mints(req[u]) = {}
        BY <3>2 DEF SessionInv, MintsApart, r
      <4>2. \A b \in Browser : \A k \in jar'[b] : k.session_id \notin Mints(req[u])
        BY <1>6, <2>2, <4>1 DEF MintSound
      <4>3. req'[u] = req[u]
        BY <1>9, <3>2
      <4> QED
        BY <1>3, <4>1, <4>2, <4>3 DEF MintSound
    <3> QED
      BY <3>1, <3>2
  <2>6. ASSUME NEW u \in Worker
        PROVE  CallSound(req[u], call[u])'
    <3>1. CASE u = w
      BY <1>3, <2>4, <3>1, SentinelAssumption DEF CallSound, Asks
    <3>2. CASE u # w
      BY <1>3, <1>9, <3>2 DEF SessionInv, CallSound
    <3> QED
      BY <3>1, <3>2
  <2>7. ASSUME NEW u \in Worker
        PROVE  GrantSound(req[u])'
    <3>1. CASE u = w
      <4>1. GrantsNoMore(req[w], req'[w])
        BY <1>2, SentinelAssumption DEF GrantsNoMore
      <4> QED
        BY <1>3, <3>1, <4>1, GrantQuiet
    <3>2. CASE u # w
      BY <1>3, <1>9, <3>2, StayQuiet, GrantQuiet
    <3> QED
      BY <3>1, <3>2
  <2>8. \A l \in leases' : l.session_id \in drawn'
    BY <1>3 DEF SessionInv
  <2>9. JarSound'
    <3>1. JarSound
      BY DEF SessionInv
    <3>2. ASSUME NEW b \in Browser, NEW k \in jar'[b]
          PROVE  /\ k.session_id \in drawn
                 /\ \A l \in leases : k.session_id = l.session_id =>
                      /\ Good(logins, l.payload, b)
                      /\ Lifespan # 0 => k.expires \in Int /\ k.expires <= l.expires_on
      <4>1. CASE k \in jar[b]
        BY <3>1, <4>1 DEF JarSound
      <4>2. CASE r.reply = "cookie" /\ b = r.browser /\ k = r.cookie
        BY <2>2, <2>3, <4>2 DEF MintSound
      <4> QED
        BY <1>6, <4>1, <4>2
    <3> QED
      BY <1>3, <3>2 DEF JarSound
  <2>10. MintsApart'
    <3>1. \A u \in Worker : Mints(req'[u]) \subseteq Mints(req[u])
      BY <1>9, <2>1
    <3> QED
      BY <1>3, <3>1 DEF SessionInv, MintsApart
  <2> QED
    BY <2>5, <2>6, <2>7, <2>8, <2>9, <2>10 DEF SessionInv
<1> QED
  BY <1>8, <1>10, <1>11

LEMMA CrashStep ==
  ASSUME Inv, NEW w \in Worker, Crash(w)
  PROVE  Inv'
<1> USE DEF Inv
<1>1. /\ ReqStep(w) /\ req'[w].phase = "idle" /\ req'[w].kind = None
      /\ req'[w].nonce = None /\ req'[w].cookie = None /\ req'[w].reply = None
  BY IdleGoes DEF Crash
<1>2. /\ CallStep(w) /\ now' = now /\ leases' = leases
      /\ call'[w].phase = "idle" /\ call'[w].op = None
  <2>1. CASE call[w].phase # "idle"
    BY <2>1, LeaveCall DEF Crash
  <2>2. CASE call[w].phase = "idle"
    <3>1. call[w].op = None
      BY <2>2, Here DEF Local
    <3>2. call' = call /\ leases' = leases /\ now' = now
      BY <2>2 DEF Crash, slVars
    <3> QED
      BY <2>2, <3>1, <3>2, Unchanged
  <2> QED
    BY <2>1, <2>2
<1>3. /\ VisitStep(w) /\ attempts' = attempts /\ used' = used
      /\ visit'[w].phase = "idle" /\ visit'[w].task = None
  <2>1. CASE visit[w].phase # "idle"
    BY <2>1, LeaveVisit DEF Crash
  <2>2. CASE visit[w].phase = "idle"
    <3>1. visit[w].task = None
      BY <2>2, Here DEF Local
    <3>2. visit' = visit /\ attempts' = attempts /\ used' = used
      BY <2>2 DEF Crash, laVars
    <3> QED
      BY <2>2, <3>1, <3>2, Unchanged
  <2> QED
    BY <2>1, <2>2
<1>4. asked' = asked /\ jar' = jar /\ drawn' = drawn /\ logins' = logins
  BY DEF Crash, browserVars
<1>5. StoresOK'
  BY <1>2, <1>3, <1>4, StoresKept
<1>6. TypeInv'
  <2>1. Local(req'[w], call'[w], visit'[w])
    BY <1>1, <1>2, <1>3, SentinelAssumption DEF Local
  <2> QED
    BY <1>1, <1>2, <1>3, <1>5, <2>1, TypeStep
<1>7. LoginInv'
  <2>1. KnowsNoMore(req[w], req'[w]) /\ StartsNoMore(visit[w], visit'[w])
    BY <1>1, <1>3, SentinelAssumption DEF KnowsNoMore, StartsNoMore
  <2> QED
    BY <1>1, <1>3, <1>4, <2>1, LoginQuiet
<1>8. SessionInv'
  <2>1. MintsNoMore(req[w], req'[w]) /\ GrantsNoMore(req[w], req'[w])
    BY <1>1, SentinelAssumption DEF MintsNoMore, GrantsNoMore
  <2>2. AsksNoMore(req[w], call[w], req'[w], call'[w]) /\ StoreInTime(req'[w], call'[w])
    BY <1>2, SentinelAssumption DEF AsksNoMore, StoreInTime
  <2> QED
    BY <1>1, <1>2, <1>4, <2>1, <2>2, SessionSame
<1> QED
  BY <1>6, <1>7, <1>8

\* A purge of a table, or the clock.
LEMMA TablesStep ==
  ASSUME Inv, req' = req, call' = call, visit' = visit,
         now' \in StartTime .. MaxTime, now <= now',
         leases' \subseteq leases, attempts' \subseteq attempts, used' = used,
         asked' = asked, jar' = jar, drawn' = drawn, logins' = logins
  PROVE  Inv'
<1> USE DEF Inv
<1>1. TypeInv'
  <2>1. TypeOK'
    BY DEF TypeInv, TypeOK
  <2>2. /\ call' \in [Worker -> Call] /\ visit' \in [Worker -> Visit]
        /\ attempts' \subseteq Attempt /\ used' \subseteq Nonce
        /\ \A w \in Worker : Local(req'[w], call'[w], visit'[w])
    BY DEF TypeInv
  <2> QED
    BY <2>1, <2>2 DEF TypeInv
<1>2. LoginInv'
  <2>1. \A w \in Worker : StartSound(visit[w])'
    BY DEF LoginInv, StartSound
  <2>2. \A w \in Worker : AskSound(req[w])'
    BY DEF LoginInv, AskSound
  <2>3. AskedSound' /\ OneEndpoint' /\ StartsApart'
    BY DEF LoginInv, AskedSound, OneEndpoint, StartsApart
  <2> QED
    BY <2>1, <2>2, <2>3 DEF LoginInv
<1>3. SessionInv'
  <2>1. now \in Int /\ now' \in Int /\ Lifespan \in Int
    BY Clock, ClockAssumption
  <2>2. ASSUME NEW u \in Worker
        PROVE  /\ MintSound(req[u])' /\ CallSound(req[u], call[u])' /\ GrantSound(req[u])'
    <3>1. /\ MintsNoMore(req[u], req'[u]) /\ GrantsNoMore(req[u], req'[u])
          /\ AsksNoMore(req[u], call[u], req'[u], call'[u])
      BY StayQuiet
    <3>2. call'[u].op = "store" /\ Lifespan # 0 =>
            req'[u].cookie.expires <= call'[u].began + Lifespan
      BY DEF SessionInv, CallSound
    <3> QED
      BY <2>1, <3>1, <3>2, MintsQuiet, CallQuiet, GrantQuiet
  <2>3. JarSound' /\ \A l \in leases' : l.session_id \in drawn'
    BY JarQuiet
  <2>4. MintsApart'
    BY DEF SessionInv, MintsApart
  <2> QED
    BY <2>2, <2>3, <2>4 DEF SessionInv
<1> QED
  BY <1>1, <1>2, <1>3

LEMMA WeenStep == Inv /\ Ween => Inv'
<1>1. SUFFICES ASSUME Inv, Ween PROVE Inv'
  OBVIOUS
<1>2. /\ req' = req /\ call' = call /\ visit' = visit /\ now' = now
      /\ leases' \subseteq leases /\ attempts' \subseteq attempts /\ used' = used
      /\ asked' = asked /\ jar' = jar /\ drawn' = drawn /\ logins' = logins
  BY <1>1 DEF Ween, SL!Purge, LA!Purge, slVars, laVars, browserVars
<1>3. now' \in StartTime .. MaxTime /\ now <= now'
  BY <1>1, <1>2, Clock DEF Inv
<1> QED
  BY <1>1, <1>2, <1>3, TablesStep

LEMMA TickStep == Inv /\ Tick => Inv'
<1>1. SUFFICES ASSUME Inv, Tick PROVE Inv'
  OBVIOUS
<1>2. /\ req' = req /\ call' = call /\ visit' = visit
      /\ leases' = leases /\ attempts' = attempts /\ used' = used
      /\ asked' = asked /\ jar' = jar /\ drawn' = drawn /\ logins' = logins
      /\ now < MaxTime /\ now' = now + 1
  BY <1>1 DEF Tick, SL!Tick, laVars, browserVars
<1>3. now' \in StartTime .. MaxTime /\ now <= now'
  BY <1>1, <1>2, Clock, ClockAssumption DEF Inv
<1> QED
  BY <1>1, <1>2, <1>3, TablesStep

\* The requests that arrive.

\* A login whose name a browser may send.
Returnable(n, p) ==
  /\ n \in used
  /\ \A u \in Worker : n \notin Starts(visit[u])
  /\ \A a \in attempts : a.nonce = n => IdpAllowed(Config[p], a.uri)

LEMMA ReceiveStep ==
  ASSUME Inv, NEW w \in Worker, NEW b \in Browser, NEW p \in Place,
         NEW kind \in {"plain", "identifier", "cancel", "response"},
         NEW nonce \in Nonce \cup {None}, NEW cookie \in Sends(b) \cup {None},
         Receive(w, b, p, kind, nonce, cookie),
         kind # "response" => nonce = None,
         nonce # None => Returnable(nonce, p),
         asked' \subseteq asked
  PROVE  Inv'
<1> USE DEF Inv
<1>1. /\ cookie # None => cookie \in Ids(b)
      /\ cookie \in SessionId \cup {None}
  BY DEF Sends, Ids, TypeInv, TypeOK, Cookie
<1>2. /\ ReqStep(w) /\ CallStep(w)
      /\ req[w].phase = "idle"
      /\ req'[w].browser = b /\ req'[w].place = p /\ req'[w].kind = kind
      /\ req'[w].nonce = nonce /\ req'[w].cookie = None /\ req'[w].reply = None
      /\ now' = now /\ leases' = leases
      /\ \/ /\ cookie # None /\ req'[w].phase = "session"
            /\ call'[w].phase = "pending" /\ call'[w].op = "get"
            /\ call'[w].session_id = cookie /\ call'[w].answer = None
         \/ /\ req'[w].phase = "dispatch"
            /\ call' = call
  BY <1>1, ReceiveGoes
<1>3. /\ visit' = visit /\ attempts' = attempts /\ used' = used
      /\ jar' = jar /\ drawn' = drawn /\ logins' = logins
  BY DEF Receive, laVars
<1>4. VisitStep(w) /\ StoresOK'
  BY <1>2, <1>3, Unchanged, StoresKept
<1>5. TypeInv'
  <2>1. Local(req'[w], call'[w], visit'[w])
    BY <1>1, <1>2, <1>3, Here, SentinelAssumption DEF Local
  <2> QED
    BY <1>2, <1>4, <2>1, TypeStep
<1>6. \A u \in Worker : u # w => req'[u] = req[u]
  BY <1>2 DEF ReqStep
<1>7. LoginInv'
  <2>1. Knows(req'[w]) \subseteq {nonce} /\ (nonce = None => Knows(req'[w]) = {})
    BY <1>2 DEF Knows
  <2>2. \A u \in Worker : StartSound(visit[u])'
    BY <1>3 DEF LoginInv, StartSound
  <2>3. ASSUME NEW u \in Worker
        PROVE  AskSound(req[u])'
    <3>1. CASE u = w
      BY <1>2, <1>3, <2>1, <3>1 DEF AskSound, Returnable
    <3>2. CASE u # w
      BY <1>3, <1>6, <3>2 DEF LoginInv, AskSound
    <3> QED
      BY <3>1, <3>2
  <2>4. AskedSound' /\ OneEndpoint'
    BY <1>3 DEF LoginInv, AskedSound, OneEndpoint
  <2>5. StartsApart'
    <3>1. \A u \in Worker : Starts(visit[u]) \cap Knows(req'[w]) = {}
      BY <2>1 DEF Returnable
    <3> QED
      BY <1>3, <1>6, <3>1 DEF LoginInv, StartsApart
  <2> QED
    BY <2>2, <2>3, <2>4, <2>5 DEF LoginInv
<1>8. SessionInv'
  <2>1. MintsNoMore(req[w], req'[w]) /\ GrantsNoMore(req[w], req'[w])
    BY <1>2, SentinelAssumption DEF MintsNoMore, GrantsNoMore
  <2>2. call[w].op = None
    BY <1>2, Here
  <2>3. AsksNoMore(req[w], call[w], req'[w], call'[w]) /\ StoreInTime(req'[w], call'[w])
    BY <1>1, <1>2, <2>2, SentinelAssumption DEF AsksNoMore, StoreInTime
  <2> QED
    BY <1>2, <1>3, <2>1, <2>3, SessionSame
<1> QED
  BY <1>5, <1>7, <1>8

LEMMA BrowseStep ==
  ASSUME Inv, NEW w \in Worker, NEW b \in Browser, Browse(w, b)
  PROVE  Inv'
<1>1. PICK p \in Place, kind \in {"plain", "identifier", "cancel"},
           cookie \in Sends(b) \cup {None} :
        Receive(w, b, p, kind, None, cookie) /\ asked' = asked
  BY DEF Browse
<1> QED
  BY <1>1, ReceiveStep

LEMMA ReturnStep ==
  ASSUME Inv, NEW w \in Worker, NEW b \in Browser, Return(w, b)
  PROVE  Inv'
<1>1. PICK a \in asked, cookie \in Sends(b) \cup {None} :
        /\ \E nonce \in {a.nonce} \cup (IF Faults THEN {None} ELSE {}) :
             Receive(w, b, a.place, "response", nonce, cookie)
        /\ asked' = IF Reloads THEN asked ELSE asked \ {a}
  BY DEF Return
<1>2. PICK nonce \in {a.nonce, None} : Receive(w, b, a.place, "response", nonce, cookie)
  BY <1>1
<1>3. a.nonce \in Nonce /\ a.place \in Place
  BY DEF Inv, TypeInv, TypeOK
<1>4. Returnable(a.nonce, a.place)
  BY DEF Inv, LoginInv, AskedSound, StartSound, Returnable
<1>5. asked' \subseteq asked
  BY <1>1
<1> QED
  BY <1>2, <1>3, <1>4, <1>5, ReceiveStep

LEMMA Initially == Init => Inv
<1>1. SUFFICES ASSUME Init PROVE Inv
  OBVIOUS
<1>2. /\ now = StartTime /\ leases = {} /\ attempts = {} /\ used = {} /\ asked = {}
      /\ jar = [b \in Browser |-> {}] /\ drawn = {} /\ logins = {}
      /\ req = [w \in Worker |-> NoRequest]
      /\ call = [w \in Worker |-> SL!Idle] /\ visit = [w \in Worker |-> LA!Idle]
  BY <1>1 DEF Init, SL!Init, LA!Init
<1>3. StartTime \in StartTime .. MaxTime
  BY ClockAssumption
<1>4. SL!Idle \in Call /\ LA!Idle \in Visit
  BY <1>3 DEF SL!Idle, LA!Idle, Call, Visit
<1>5. Local(NoRequest, SL!Idle, LA!Idle)
  BY SentinelAssumption DEF Local, NoRequest, SL!Idle, LA!Idle
<1>6. TypeInv
  BY <1>2, <1>3, <1>4, <1>5, NoRequestType DEF TypeInv, TypeOK
<1>7. Starts(LA!Idle) = {} /\ Knows(NoRequest) = {} /\ Mints(NoRequest) = {}
  BY SentinelAssumption DEF Starts, Knows, Mints, LA!Idle, NoRequest
<1>8. LoginInv
  BY <1>2, <1>7 DEF LoginInv, StartSound, AskSound, AskedSound, OneEndpoint, StartsApart
<1>9. SessionInv
  <2>1. GrantSound(NoRequest)
    BY SentinelAssumption DEF GrantSound, NoRequest
  <2>2. SL!Idle.op = None /\ NoRequest.cookie = None
    BY DEF SL!Idle, NoRequest
  <2>3. CallSound(NoRequest, SL!Idle)
    BY <1>2, <2>2, SentinelAssumption DEF CallSound, Asks
  <2>4. MintSound(NoRequest)
    BY <1>2, <1>7, <2>2 DEF MintSound
  <2>5. JarSound /\ MintsApart
    BY <1>2, <1>7 DEF JarSound, MintsApart
  <2> QED
    BY <1>2, <2>1, <2>3, <2>4, <2>5 DEF SessionInv
<1> QED
  BY <1>6, <1>8, <1>9 DEF Inv

LEMMA HandleStep ==
  ASSUME Inv, NEW w \in Worker, Handle(w)
  PROVE  Inv'
<1>1. CASE SessionRead(w) \/ HasValidSession(w) \/ Decline(w)
  BY <1>1, SessionReadStep, HasValidSessionStep, DeclineStep
<1>2. CASE \E n \in Nonce : StartAuthentication(w, n)
  BY <1>2, StartAuthenticationStep
<1>3. CASE Started(w) \/ ConsumerStep(w)
  BY <1>3, StartedStep, ConsumerStepStep
<1>4. CASE ValidateAuthentication(w) \/ NotValidated(w) \/ Unauthorized(w) \/ Accept(w)
  BY <1>4, ValidateStep, NotValidatedStep, UnauthorizedStep, AcceptStep
<1>5. CASE ShowPage(w)
  BY <1>5, ShowPageStep
<1>6. CASE \E id \in SessionId : MakeCookie(w, id)
  BY <1>6, MakeCookieStep
<1>7. CASE StoreSession(w) \/ SessionStored(w) \/ RedirectWithCookie(w)
  BY <1>7, StoreSessionStep, SessionStoredStep, RedirectWithCookieStep
<1>8. CASE Respond(w)
  BY <1>8, RespondStep
<1> QED
  BY <1>1, <1>2, <1>3, <1>4, <1>5, <1>6, <1>7, <1>8 DEF Handle

LEMMA Step == Inv /\ [Next]_vars => Inv'
<1>1. SUFFICES ASSUME Inv, [Next]_vars PROVE Inv'
  OBVIOUS
<1>2. CASE Tick \/ Ween
  BY <1>1, <1>2, TickStep, WeenStep
<1>3. CASE \E w \in Worker : Handle(w) \/ Crash(w)
  BY <1>1, <1>3, HandleStep, CrashStep
<1>4. CASE \E w \in Worker, b \in Browser : Browse(w, b) \/ Return(w, b)
  BY <1>1, <1>4, BrowseStep, ReturnStep
<1>5. CASE UNCHANGED vars
  <2>1. /\ req' = req /\ call' = call /\ visit' = visit /\ now' = now
        /\ leases' = leases /\ attempts' = attempts /\ used' = used
        /\ asked' = asked /\ jar' = jar /\ drawn' = drawn /\ logins' = logins
    BY <1>5 DEF vars
  <2>2. now' \in StartTime .. MaxTime /\ now <= now'
    BY <1>1, <2>1, Clock DEF Inv
  <2> QED
    BY <1>1, <2>1, <2>2, TablesStep
<1> QED
  BY <1>1, <1>2, <1>3, <1>4, <1>5 DEF Next

LEMMA Invariance == Spec => []Inv
  BY Initially, Step, PTL DEF Spec

--------------------------------------------------------------------------------
(* What follows from the invariant.                                        *)

\* Every variable of the handlers and the browsers is of its type: no step of
\* the handler puts anything else into a request, a cookie or a table.
THEOREM TypeCorrect == Spec => []TypeOK
<1>1. Inv => TypeOK
  BY DEF Inv, TypeInv
<1> QED
  BY <1>1, Invariance, PTL

\* The random names are handed out when their rows are there: no browser can name
\* a login or a session that a process is still registering or storing.
THEOREM NamesHandedOutLast == Spec => []NamesKnownWhenDone
<1>1. ASSUME Inv, NEW w \in Worker
      PROVE  /\ visit[w].task = "checkid" => \A a \in asked : a.nonce # visit[w].nonce
             /\ call[w].op = "store" =>
                  \A b \in Browser : \A c \in jar[b] : c.session_id # call[w].session_id
  <2>1. StartSound(visit[w]) /\ MintSound(req[w])
    BY <1>1 DEF Inv, LoginInv, SessionInv
  <2>2. visit[w].task = "checkid" => \A a \in asked : a.nonce # visit[w].nonce
    BY <2>1 DEF StartSound, Starts
  <2>3. call[w].op = "store" => call[w].session_id \in Mints(req[w])
    <3>1. call[w].op = "store" =>
            req[w].cookie # None /\ call[w].session_id = req[w].cookie.session_id
      BY <1>1, Here DEF Inv, Local
    <3> QED
      BY <3>1 DEF Mints
  <2> QED
    BY <2>1, <2>2, <2>3 DEF MintSound
<1>2. Inv => NamesKnownWhenDone
  BY <1>1 DEF NamesKnownWhenDone
<1> QED
  BY <1>2, Invariance, PTL

\* make_cookie_value reads the clock before store_session does, so the row of a
\* session lives at least as long as the cookie, however long the store takes.
THEOREM CookieCovered == Spec => []LeaseCoversCookie
<1>1. Inv => LeaseCoversCookie
  BY DEF Inv, SessionInv, JarSound, LeaseCoversCookie
<1> QED
  BY <1>1, Invariance, PTL

\* Whatever processes fail and whatever old redirects and cookies browsers send, a
\* page is served only on the strength of a login of that very browser.
THEOREM ServedAfterLogin == Spec => []OnlyAfterLogin
<1>1. ASSUME Inv, NEW w \in Worker, Served(w)
      PROVE  LET r == req[w]
             IN /\ r.user \in {Identity(r.browser), Username(r.browser), Empty}
                /\ \E l \in logins :
                     /\ l.browser = r.browser
                     /\ \/ l.place = r.place
                        \/ /\ l.place.hostname = r.place.hostname
                           /\ IsPrefix(CookiePath(l.place), r.place.path)
                     /\ Config[l.place].use_auth_program => l.browser \in Approved
  <2>1. PICK l \in logins :
          /\ LoggedIn(logins, l, req[w].browser)
          /\ \/ l.place = req[w].place
             \/ /\ l.place.hostname = req[w].place.hostname
                /\ IsPrefix(CookiePath(l.place), req[w].place.path)
          /\ req[w].user = RemoteUser(Config[req[w].place], Identity(req[w].browser),
                                      LoginName(l.place, req[w].browser))
    BY <1>1 DEF Inv, SessionInv, GrantSound, Served
  <2>2. req[w].user \in {Identity(req[w].browser), Username(req[w].browser), Empty}
    BY <2>1 DEF RemoteUser, LoginName
  <2> QED
    BY <2>1, <2>2 DEF LoggedIn
<1>2. Inv => OnlyAfterLogin
  BY <1>1 DEF OnlyAfterLogin
<1> QED
  BY <1>2, Invariance, PTL

LEMMA RangeType ==
  ASSUME NEW T, NEW s \in Seq(T), NEW x \in Range(s)
  PROVE  x \in T
  BY DEF Range

LEMMA RequiresType ==
  ASSUME NEW p \in Place, NEW line \in Range(Config[p].requires)
  PROVE  line.names \in Seq(Names)
<1> DEFINE T == [what : STRING, names : Seq(Names), methods : SUBSET {"GET", "POST"}]
           lines == Config[p].requires
<1>1. lines \in Seq(T)
  BY ConfigAssumption DEF Directives
<1>2. line \in Range(lines)
  OBVIOUS
<1>3. line \in T => line.names \in Seq(Names)
  OBVIOUS
<1> HIDE DEF T, lines
<1>4. line \in T
  BY <1>1, <1>2, RangeType
<1> QED
  BY <1>3, <1>4

\* Under user lines alone, a browser gets the page only if the name of its own user
\* that counts there is in one of them, wherever its session comes from.
THEOREM ServedByName == Spec => []OnlyNamedUsers
<1>1. ASSUME Inv, NEW w \in Worker, Served(w),
             \A l \in Range(Conf(w).requires) : "GET" \in l.methods => l.what = "user"
      PROVE  \E l \in Range(Conf(w).requires) :
               /\ "GET" \in l.methods
               /\ RemoteUser(Conf(w), Identity(req[w].browser), Username(req[w].browser))
                    \in Range(l.names)
  <2> DEFINE b == req[w].browser
  <2>1. /\ Authorized(Conf(w).requires, "GET", req[w].user)
        /\ \E l \in logins :
             req[w].user = RemoteUser(Conf(w), Identity(b), LoginName(l.place, b))
    BY <1>1 DEF Inv, SessionInv, GrantSound, Served, Conf
  <2>2. PICK line \in Range(Conf(w).requires) :
          "GET" \in line.methods /\ Grants(line, req[w].user)
    BY <2>1 DEF Authorized
  <2>3. line.what = "user"
    BY <1>1, <2>2
  <2>4. UserCheckAuthorization(req[w].user, line.names) = "AUTHZ_GRANTED"
    BY <2>2, <2>3 DEF Grants
  <2>5. line.names \in Seq(Names)
    <3>1. req[w].place \in Place
      BY <1>1, Here DEF Inv, Local, Served
    <3> QED
      BY <3>1, RequiresType DEF Conf
  <2>6. req[w].user \in Range(line.names) /\ req[w].user # Empty
    BY <2>4, <2>5, GrantedIsNamed
  <2>7. req[w].user = RemoteUser(Conf(w), Identity(b), Username(b))
    BY <2>1, <2>6 DEF RemoteUser, LoginName
  <2> QED
    BY <2>2, <2>6, <2>7
<1>2. Inv => OnlyNamedUsers
  BY <1>1 DEF OnlyNamedUsers
<1> QED
  BY <1>2, Invariance, PTL

\* No response is admitted for an attempt that start_authentication_session left
\* behind when it refused the provider.
THEOREM ProviderAllowed == Spec => []AdmittedFromAllowedProvider
<1>1. ASSUME Inv, NEW w \in Worker, visit[w].phase = "admitted",
             NEW a \in attempts, a.nonce = visit[w].nonce
      PROVE  /\ Conf(w).trusted # None => a.uri \in Conf(w).trusted
             /\ a.uri \notin Conf(w).distrusted
  <2>1. visit[w].task = "id_res"
    BY <1>1, Here DEF Inv, Local
  <2>2. /\ visit[w].nonce = req[w].nonce /\ req[w].nonce \in Nonce
        /\ req[w].kind = "response"
    BY <2>1, <1>1, Here, SentinelAssumption DEF Inv, Local
  <2>3. a.nonce \in Knows(req[w])
    BY <1>1, <2>2, SentinelAssumption DEF Knows
  <2>4. IdpAllowed(Config[req[w].place], a.uri)
    BY <1>1, <2>3 DEF Inv, LoginInv, AskSound
  <2> QED
    BY <2>4 DEF IdpAllowed, Conf
<1>2. Inv => AdmittedFromAllowedProvider
  BY <1>1 DEF AdmittedFromAllowedProvider
<1> QED
  BY <1>2, Invariance, PTL

\* For every REMOTE_USER the handler comes to, both builds of the hooks agree on
\* the sample lines (BuildsAgree is about all lines).
THEOREM SameAnswer == Spec => []BothBuildsAgree
<1>1. ASSUME NEW line \in LineSamples
      PROVE  /\ line.names \in Seq(Names)
             /\ line.what = "user" => Empty \notin Range(line.names)
  <2>1. CASE line \in {Line("user", names, {"GET"}) :
                         names \in SeqOf({Username(b) : b \in Browser}, 1)}
    <3>1. PICK names \in SeqOf({Username(b) : b \in Browser}, 1) :
            line = Line("user", names, {"GET"})
      BY <2>1
    <3>2. PICK m \in 0 .. 1 : names \in [1 .. m -> {Username(b) : b \in Browser}]
      BY DEF SeqOf
    <3>3. names \in Seq(Names)
      BY <3>2 DEF Names
    <3>4. Empty \notin Range(names)
      BY <3>2, SentinelAssumption DEF Range
    <3>5. line.names = names
      BY <3>1 DEF Line
    <3> QED
      BY <3>3, <3>4, <3>5
  <2>2. CASE line \in {Line("valid-user", <<>>, {"GET"}), Line("valid-user", <<>>, {"POST"})}
    <3>1. line.names = <<>> /\ line.what = "valid-user"
      BY <2>2 DEF Line
    <3> QED
      BY <3>1
  <2>3. CASE line = Line("group", <<Empty>>, {"GET"})
    <3>1. <<Empty>> \in Seq(Names)
      BY DEF Names
    <3>2. line.names = <<Empty>> /\ line.what = "group"
      BY <2>3 DEF Line
    <3> QED
      BY <3>1, <3>2
  <2> QED
    BY <2>1, <2>2, <2>3 DEF LineSamples
<1>2. ASSUME Inv, NEW w \in Worker, NEW lines \in SeqOf(LineSamples, 2)
      PROVE  Authorized(lines, "GET", req[w].user)
               <=> CheckUserAccess(lines, "GET", req[w].user) = "OK"
  <2>1. PICK m \in 0 .. 2 : lines \in [1 .. m -> LineSamples]
    BY DEF SeqOf
  <2>2. Range(lines) \subseteq LineSamples
    BY <2>1 DEF Range
  <2>3. \A line \in Range(lines) :
          /\ line.names \in Seq(Names)
          /\ line.what = "user" => Empty \notin Range(line.names)
    BY <1>1, <2>2
  <2>4. req[w].user # None
    BY <1>2, Here, SentinelAssumption DEF Inv, Request
  <2> QED
    BY <2>3, <2>4, BuildsAgree
<1>3. Inv => BothBuildsAgree
  BY <1>2 DEF BothBuildsAgree
<1> QED
  BY <1>3, Invariance, PTL

\* REMOTE_USER is never the empty string if, where AuthOpenIDAXUsername is set,
\* every place whose logins count there asks for attributes and sets
\* AuthOpenIDAXUsername too.  The code looks at neither.  The run of
\* MCMethodHandlerUnnamed shows a place that does not ask for attributes; a
\* session that comes from a covering place without AuthOpenIDAXUsername has no
\* username either.
THEOREM UserHasName ==
  ASSUME \A q \in Place, p \in Place :
           /\ Config[q].use_ax_username
           /\ \/ p = q
              \/ p.hostname = q.hostname /\ IsPrefix(CookiePath(p), q.path)
           => Config[p].use_ax /\ Config[p].use_ax_username
  PROVE  Spec => []UserNamed
<1>1. ASSUME Inv, NEW w \in Worker, Served(w)
      PROVE  req[w].user # Empty
  <2> DEFINE b == req[w].browser
  <2>1. PICK l \in logins :
          /\ \/ l.place = req[w].place
             \/ /\ l.place.hostname = req[w].place.hostname
                /\ IsPrefix(CookiePath(l.place), req[w].place.path)
          /\ req[w].user = RemoteUser(Config[req[w].place], Identity(b), LoginName(l.place, b))
    BY <1>1 DEF Inv, SessionInv, GrantSound, Served
  <2>2. b \in Browser /\ req[w].place \in Place /\ l.place \in Place
    BY <1>1, Here DEF Inv, TypeInv, TypeOK, Local, Served
  <2>3. CASE Config[req[w].place].use_ax_username
    <3>1. Config[l.place].use_ax /\ Config[l.place].use_ax_username
      BY <2>1, <2>2, <2>3
    <3> QED
      BY <2>1, <2>2, <2>3, <3>1, SentinelAssumption DEF RemoteUser, LoginName
  <2>4. CASE ~Config[req[w].place].use_ax_username
    BY <2>1, <2>2, <2>4, SentinelAssumption DEF RemoteUser
  <2> QED
    BY <2>3, <2>4
<1>2. Inv => UserNamed
  BY <1>1 DEF UserNamed
<1> QED
  BY <1>2, Invariance, PTL

--------------------------------------------------------------------------------
(* The services that the handlers use.                                     *)

\* What a request does to the session table.
LEMMA HandleUsesSessions ==
  ASSUME Inv, NEW w \in Worker, Handle(w)
  PROVE  SL!Next \/ UNCHANGED <<now, leases, call>>
<1>1. CASE SessionRead(w)
  BY <1>1 DEF SessionRead, SL!Next
<1>2. CASE HasValidSession(w) \/ RedirectWithCookie(w)
  BY <1>2 DEF HasValidSession, RedirectWithCookie, SL!Next
<1>3. CASE SessionStored(w)
  BY <1>3 DEF SessionStored, SL!Next
<1>4. CASE StoreSession(w)
  <2>1. req[w].cookie.session_id \in SessionId
    <3>1. req[w].phase = "cookie"
      BY <1>4 DEF StoreSession
    <3>2. req[w].cookie \in Cookie
      BY <3>1, Here DEF Inv, Local, Request
    <3> QED
      BY <3>2 DEF Cookie
  <2>2. Session(req[w]) \in Payload
    BY <1>4, SessionType DEF StoreSession, Inv
  <2> QED
    BY <1>4, <2>1, <2>2 DEF StoreSession, SL!Next
<1>5. CASE ConsumerStep(w)
  BY <1>5 DEF ConsumerStep, slVars, LA!Register, LA!Redirect, LA!Admit, LA!Fail
<1>6. CASE \E n \in Nonce : StartAuthentication(w, n)
  BY <1>6 DEF StartAuthentication, slVars, LA!StartLogin, LA!Enter
<1>7. CASE \E id \in SessionId : MakeCookie(w, id)
  BY <1>7 DEF MakeCookie, slVars, LA!Leave
<1>8. CASE Started(w) \/ NotValidated(w) \/ ShowPage(w)
  BY <1>8 DEF Started, NotValidated, ShowPage, slVars, LA!Leave
<1>9. CASE ValidateAuthentication(w) \/ Unauthorized(w) \/ Accept(w)
  BY <1>9 DEF ValidateAuthentication, Unauthorized, Accept, slVars, LA!ReceiveResponse,
              LA!Enter, LA!Refuse, LA!Grant
<1>10. CASE Decline(w) \/ Respond(w)
  BY <1>10 DEF Decline, Respond, dbVars
<1> QED
  BY <1>1, <1>2, <1>3, <1>4, <1>5, <1>6, <1>7, <1>8, <1>9, <1>10 DEF Handle

LEMMA ReceiveUsesSessions ==
  ASSUME Inv, NEW w \in Worker, NEW b \in Browser, NEW p, NEW kind, NEW nonce,
         NEW cookie \in Sends(b) \cup {None}, Receive(w, b, p, kind, nonce, cookie)
  PROVE  SL!Next \/ UNCHANGED <<now, leases, call>>
<1>1. cookie \in SessionId \cup {None}
  BY DEF Sends, Inv, TypeInv, TypeOK, Cookie
<1>2. SL!Ask(w, "get", cookie, None) \/ UNCHANGED <<now, leases, call>>
  BY DEF Receive, slVars
<1> QED
  BY <1>1, <1>2 DEF SL!Next

LEMMA StepUsesSessions == Inv /\ [Next]_vars => [SL!Next]_(SL!vars)
<1>1. SUFFICES ASSUME Inv, [Next]_vars PROVE SL!Next \/ UNCHANGED <<now, leases, call>>
  BY DEF SL!vars
<1>2. CASE Tick \/ Ween
  BY <1>2 DEF Tick, Ween, SL!Next, slVars, LA!Purge
<1>3. CASE \E w \in Worker : Handle(w)
  BY <1>1, <1>3, HandleUsesSessions
<1>4. CASE \E w \in Worker : Crash(w)
  BY <1>4 DEF Crash, SL!Next, slVars, LA!Leave
<1>5. CASE \E w \in Worker, b \in Browser : Browse(w, b) \/ Return(w, b)
  <2>1. PICK w \in Worker, b \in Browser : Browse(w, b) \/ Return(w, b)
    BY <1>5
  <2>2. CASE Browse(w, b)
    BY <1>1, <2>2, ReceiveUsesSessions DEF Browse
  <2>3. CASE Return(w, b)
    BY <1>1, <2>3, ReceiveUsesSessions DEF Return
  <2> QED
    BY <2>1, <2>2, <2>3
<1>6. CASE UNCHANGED vars
  BY <1>6 DEF vars
<1> QED
  BY <1>1, <1>2, <1>3, <1>4, <1>5, <1>6 DEF Next

\* The handlers ask SessionManager only for what SessionLeases offers: one call of
\* a process at a time, for an id and a session of the right types, given up when
\* the process dies.  So the handlers' sessions are those that SessionManager has
\* been proved to keep.
THEOREM UsesSessions == Spec => SL!Spec
<1>1. Init => SL!Init
  BY DEF Init
<1> QED
  BY <1>1, Invariance, StepUsesSessions, PTL DEF Spec, SL!Spec

\* What a request does to the login attempts.
LEMMA HandleUsesLogins ==
  ASSUME Inv, NEW w \in Worker, Handle(w)
  PROVE  LA!Next \/ UNCHANGED <<now, attempts, used, redeemed, visit>>
<1>1. CASE ConsumerStep(w)
  BY <1>1 DEF ConsumerStep, LA!Next
<1>2. CASE \E n \in Nonce : StartAuthentication(w, n)
  BY <1>2 DEF StartAuthentication, LA!Next
<1>3. CASE ValidateAuthentication(w)
  <2>1. req[w].nonce \in Nonce
    BY <1>3, Here DEF ValidateAuthentication, Inv, Request
  <2> QED
    BY <1>3, <2>1 DEF ValidateAuthentication, LA!Next
<1>4. CASE Unauthorized(w) \/ Accept(w)
  BY <1>4 DEF Unauthorized, Accept, LA!Next
<1>5. CASE Started(w) \/ NotValidated(w) \/ ShowPage(w)
  BY <1>5 DEF Started, NotValidated, ShowPage, LA!Next
<1>6. CASE \E id \in SessionId : MakeCookie(w, id)
  BY <1>6 DEF MakeCookie, LA!Next
<1>7. CASE SessionRead(w) \/ HasValidSession(w) \/ RedirectWithCookie(w)
  BY <1>7 DEF SessionRead, HasValidSession, RedirectWithCookie, laVars, SL!Answer, SL!Leave
<1>8. CASE StoreSession(w) \/ SessionStored(w)
  BY <1>8 DEF StoreSession, SessionStored, laVars, SL!Ask, SL!Grant
<1>9. CASE Decline(w) \/ Respond(w)
  BY <1>9 DEF Decline, Respond, dbVars
<1> QED
  BY <1>1, <1>2, <1>3, <1>4, <1>5, <1>6, <1>7, <1>8, <1>9 DEF Handle

LEMMA StepUsesLogins == Inv /\ [Next]_vars => [LA!Next]_(LA!vars)
<1>1. SUFFICES ASSUME Inv, [Next]_vars
               PROVE  LA!Next \/ UNCHANGED <<now, attempts, used, redeemed, visit>>
  BY DEF LA!vars
<1>2. CASE Tick
  BY <1>2 DEF Tick, SL!Tick, LA!Tick, LA!Next, laVars
<1>3. CASE Ween
  BY <1>3 DEF Ween, LA!Next, laVars, SL!Purge
<1>4. CASE \E w \in Worker : Handle(w)
  BY <1>1, <1>4, HandleUsesLogins
<1>5. CASE \E w \in Worker : Crash(w)
  BY <1>5 DEF Crash, LA!Next, laVars, SL!Leave
<1>6. CASE \E w \in Worker, b \in Browser : Browse(w, b) \/ Return(w, b)
  <2>1. PICK w, b, p, kind, nonce, cookie :
          Receive(w, b, p, kind, nonce, cookie)
    BY <1>6 DEF Browse, Return
  <2>2. now' = now /\ UNCHANGED laVars
    BY <2>1 DEF Receive, SL!Ask
  <2> QED
    BY <2>2 DEF laVars
<1>7. CASE UNCHANGED vars
  BY <1>7 DEF vars
<1> QED
  BY <1>1, <1>2, <1>3, <1>4, <1>5, <1>6, <1>7 DEF Next

\* The handlers ask MoidConsumer only for what LoginAttempts offers: in particular
\* they grant or refuse a response only after it was admitted, and never receive
\* one for an attempt that is still being started.
THEOREM UsesLogins == Spec => LA!Spec
<1>1. Init => LA!Init
  BY DEF Init
<1> QED
  BY <1>1, Invariance, StepUsesLogins, PTL DEF Spec, LA!Spec

================================================================================
