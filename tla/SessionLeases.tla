----------------------------- MODULE SessionLeases -----------------------------
(***************************************************************************)
(* What SessionManager promises to the Apache handlers and to the db_info  *)
(* tool that call it: a session is a lease.  A lease is granted for Term   *)
(* seconds counted from some moment of the call that stores it, it is not  *)
(* lost before it has expired, and a call that looks one up never gets one *)
(* that had already expired when the call began.  A call may always fail:  *)
(* a lookup may then answer None and a store may grant nothing.            *)
(*                                                                         *)
(* There are no database handles here, no statements and no errors: see    *)
(* SessionManager for the code that implements this.                       *)
(***************************************************************************)
EXTENDS Integers

CONSTANTS
  Worker,      \* callers: Apache processes and db_info
  SessionId,
  Payload,     \* hostname, path, identity and username of a session
  Term,        \* seconds a lease is granted for
  StartTime,
  MaxTime,     \* the clock stops there
  None

VARIABLES
  now,
  leases,      \* granted and not yet purged
  call         \* the call each worker is making

vars == <<now, leases, call>>

Idle == [phase |-> "idle", op |-> None, session_id |-> None,
         payload |-> None, began |-> StartTime, answer |-> None]

\* The call c once it has been answered with a.
Answered(c, a) ==
  [phase |-> "answered", op |-> c.op, session_id |-> c.session_id,
   payload |-> c.payload, began |-> c.began, answer |-> a]

Init ==
  /\ now = StartTime
  /\ leases = {}
  /\ call = [w \in Worker |-> Idle]

Tick ==
  /\ now < MaxTime
  /\ now' = now + 1
  /\ UNCHANGED <<leases, call>>

\* A worker asks for a session, for one to be stored, or for a listing.
Ask(w, op, id, p) ==
  /\ call[w].phase = "idle"
  /\ call' = [call EXCEPT ![w] = [phase |-> "pending", op |-> op,
                session_id |-> id, payload |-> p, began |-> now,
                answer |-> None]]
  /\ UNCHANGED <<now, leases>>

\* Expired leases, and no others, may be dropped.
Purge ==
  /\ leases' \in {leases \ gone : gone \in SUBSET {l \in leases : l.expires_on < now}}
  /\ UNCHANGED <<now, call>>

\* A lookup answers with a lease that was not expired when it began, or None.
Answer(w) ==
  /\ call[w].phase = "pending"
  /\ call[w].op = "get"
  /\ \E l \in leases \cup {None} :
       /\ l # None => /\ l.session_id = call[w].session_id
                      /\ l.expires_on >= call[w].began
       /\ call' = [call EXCEPT ![w] = Answered(@, l)]
  /\ UNCHANGED <<now, leases>>

\* A store grants one lease for Term, or nothing.
Grant(w) ==
  /\ call[w].phase = "pending"
  /\ call[w].op = "store"
  /\ \/ \E e \in (call[w].began + Term) .. (now + Term) :
          leases' = leases \cup
            {[session_id |-> call[w].session_id, payload |-> call[w].payload,
              expires_on |-> e]}
     \/ leases' = leases
  /\ call' = [call EXCEPT ![w] = Answered(@, None)]
  /\ UNCHANGED now

List(w) ==
  /\ call[w].phase = "pending"
  /\ call[w].op = "print"
  /\ call' = [call EXCEPT ![w] = Answered(@, None)]
  /\ UNCHANGED <<now, leases>>

\* The answered call returns, or the process dies in the middle of one.
Leave(w) ==
  /\ call[w].phase # "idle"
  /\ call' = [call EXCEPT ![w] = Idle]
  /\ UNCHANGED <<now, leases>>

Next ==
  \/ Tick
  \/ Purge
  \/ \E w \in Worker :
       \/ \E op \in {"get", "store", "print"}, id \in SessionId \cup {None},
            p \in Payload \cup {None} : Ask(w, op, id, p)
       \/ Answer(w) \/ Grant(w) \/ List(w) \/ Leave(w)

Spec == Init /\ [][Next]_vars

================================================================================
