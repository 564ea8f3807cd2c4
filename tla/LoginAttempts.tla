------------------------------ MODULE LoginAttempts ------------------------------
(***************************************************************************)
(* What MoidConsumer promises to the request handlers about a login        *)
(* attempt: it is registered for at most one provider endpoint, the        *)
(* browser is only sent to that endpoint, the attempt is not lost within   *)
(* its hour, a response is admitted only while the attempt is alive, and   *)
(* an attempt that has been redeemed never admits a response again.  Any   *)
(* visit may fail: discovery, the provider, the signature or the database. *)
(*                                                                         *)
(* Handles, associations and response nonces are below this level: see     *)
(* MoidConsumer for the code that implements it.                           *)
(***************************************************************************)
EXTENDS Integers

CONSTANTS
  Worker,
  Nonce,       \* names of login attempts
  Server,      \* provider endpoints
  Hour,        \* lifetime of an attempt
  StartTime,
  MaxTime,     \* the clock stops there
  None

VARIABLES
  now,
  attempts,    \* registered, not redeemed, not purged
  used,        \* nonces already drawn, or sent by a browser
  redeemed,
  visit        \* the visit each worker is handling

vars == <<now, attempts, used, redeemed, visit>>

Idle == [phase |-> "idle", task |-> None, nonce |-> None, began |-> StartTime,
         registered |-> FALSE, uri |-> None, result |-> None]

\* The visit v once it has ended with the given result.
Ended(v, result) == [v EXCEPT !.phase = "answered", !.result = result]

Init ==
  /\ now = StartTime
  /\ attempts = {}
  /\ used = {}
  /\ redeemed = {}
  /\ visit = [w \in Worker |-> Idle]

Tick ==
  /\ now < MaxTime
  /\ now' = now + 1
  /\ UNCHANGED <<attempts, used, redeemed, visit>>

Enter(w, task, n) ==
  /\ visit[w].phase = "idle"
  /\ visit' = [visit EXCEPT ![w] =
                [Idle EXCEPT !.phase = "pending", !.task = task, !.nonce = n,
                             !.began = now]]
  /\ UNCHANGED <<now, attempts, redeemed>>

\* An attempt gets a name of its own.
StartLogin(w, n) ==
  /\ n \notin used
  /\ used' = used \cup {n}
  /\ Enter(w, "checkid", n)

\* A response names an attempt whose start is over, or none.
ReceiveResponse(w, n) ==
  /\ \A v \in Worker : visit[v].task = "checkid" => visit[v].nonce # n
  /\ used' = used \cup {n}
  /\ Enter(w, "id_res", n)

PrintTables(w) == Enter(w, "print", None) /\ UNCHANGED used

\* The attempt is registered for the first endpoint discovered, or not at all.
Register(w, uri) ==
  /\ visit[w].phase = "pending"
  /\ visit[w].task = "checkid"
  /\ ~visit[w].registered
  /\ \/ \E e \in (visit[w].began + Hour) .. (now + Hour) :
          attempts' = attempts \cup
            {[nonce |-> visit[w].nonce, uri |-> uri, expires_on |-> e]}
     \/ attempts' = attempts
  /\ visit' = [visit EXCEPT ![w].registered = TRUE]
  /\ UNCHANGED <<now, used, redeemed>>

Redirect(w) ==
  /\ visit[w].phase = "pending"
  /\ visit[w].task = "checkid"
  /\ \E a \in attempts :
       /\ a.nonce = visit[w].nonce
       /\ visit' = [visit EXCEPT ![w] = [Ended(@, "redirect") EXCEPT !.uri = a.uri]]
  /\ UNCHANGED <<now, attempts, used, redeemed>>

\* A response is admitted for an attempt that was alive when it arrived.
Admit(w) ==
  /\ visit[w].phase = "pending"
  /\ visit[w].task = "id_res"
  /\ \E a \in attempts : a.nonce = visit[w].nonce /\ a.expires_on >= visit[w].began
  /\ visit' = [visit EXCEPT ![w].phase = "admitted"]
  /\ UNCHANGED <<now, attempts, used, redeemed>>

Refuse(w) ==
  /\ visit[w].phase = "admitted"
  /\ visit' = [visit EXCEPT ![w] = Ended(@, "refused")]
  /\ UNCHANGED <<now, attempts, used, redeemed>>

\* The handler grants the admitted response and redeems the attempt.  It cannot
\* tell when that failed and the attempt stays alive.
Grant(w) ==
  /\ visit[w].phase = "admitted"
  /\ \/ /\ attempts' = {a \in attempts : a.nonce # visit[w].nonce}
        /\ redeemed' = redeemed \cup {visit[w].nonce}
     \/ UNCHANGED <<attempts, redeemed>>
  /\ visit' = [visit EXCEPT ![w] = Ended(@, "granted")]
  /\ UNCHANGED <<now, used>>

Fail(w) ==
  /\ visit[w].phase = "pending"
  /\ \E result \in {"threw", "unknown", "printed"} :
       visit' = [visit EXCEPT ![w] = Ended(@, result)]
  /\ UNCHANGED <<now, attempts, used, redeemed>>

\* Expired attempts, and no others, may be dropped.
Purge ==
  /\ attempts' \in {attempts \ gone : gone \in SUBSET {a \in attempts : a.expires_on < now}}
  /\ UNCHANGED <<now, used, redeemed, visit>>

\* The visit is over, or its process dies.
Leave(w) ==
  /\ visit[w].phase # "idle"
  /\ visit' = [visit EXCEPT ![w] = Idle]
  /\ UNCHANGED <<now, attempts, used, redeemed>>

Next ==
  \/ Tick
  \/ Purge
  \/ \E w \in Worker :
       \/ \E n \in Nonce : StartLogin(w, n) \/ ReceiveResponse(w, n)
       \/ \E uri \in Server : Register(w, uri)
       \/ PrintTables(w) \/ Redirect(w) \/ Admit(w) \/ Refuse(w) \/ Grant(w) \/ Fail(w)
       \/ Leave(w)

Spec == Init /\ [][Next]_vars

================================================================================
