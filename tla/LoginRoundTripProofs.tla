-------------------------- MODULE LoginRoundTripProofs -------------------------
(***************************************************************************)
(* Theorems about LoginRoundTrip with the proofs TLAPS checks.             *)
(***************************************************************************)
EXTENDS LoginRoundTrip, RequestParamsProofs

--------------------------------------------------------------------------------
(* The invariant.                                                          *)

\* A record of a section, and what is read of the one that counts.
RecordOK(c) ==
  /\ DOMAIN c = DOMAIN NewConfig
  /\ c = [field \in DOMAIN c |-> c[field]]
  /\ c.use_cookie \in BOOLEAN
  /\ c.ax_attrs \in Seq(Alias)
  /\ c.use_auth_program => c.auth_program # None
  /\ c.use_single_idp => c.single_idp_url # None
  /\ c.use_ax_username => c.ax_username_attr # None
  /\ c.use_ax <=> c.ax_attrs # <<>>
  /\ Range(c.ax_attrs) = DOMAIN c.ax_attr_uris
  /\ DOMAIN c.ax_attr_uris = DOMAIN c.ax_attr_patterns

ConfOK ==
  /\ DOMAIN section = Sections
  /\ \A s \in Sections : RecordOK(Record(s))
  /\ conf.use_cookie \in BOOLEAN
  /\ conf.ax_attrs \in Seq(Alias)
  /\ conf.use_ax <=> conf.ax_attrs # <<>>

\* The URL of a page without parameters of the protocol, and with a nonce.
CleanUrl(s) == IsQuery(s) /\ \A i \in Range(s) : ~IsOpenIdVar(i.name) /\ i \in UserItems
ReturnUrl(s, n) ==
  /\ IsQuery(s)
  /\ Item(Nonce, n) \in Range(s)
  /\ \A i \in Range(s) : i # Item(Nonce, n) => ~IsOpenIdVar(i.name) /\ i \in UserItems

\* An item of a request: a parameter of OpenID or one of the user's.
Familiar(i) ==
  /\ i.name # AxNs("ax")
  /\ ~IsOpenIdVar(i.name) => Item(i.name, i.value) \in UserItems

Bare(s) == \A i \in Range(s) : i.name \notin {Mode, AssocHandle, Nonce}

MessageOK(m) ==
  /\ m = [at |-> m.at, from |-> m.from, method |-> m.method, type |-> m.type,
          args |-> m.args, body |-> m.body]
  /\ m.at \in {"nothing", "site", "login_page", "provider", "form", "page"}
  /\ m.from \in {"user", "site", "login_page", "provider"}
  /\ m.method \in {"GET", "POST"} /\ m.type \in {"form", "other", None}
  /\ IsQuery(m.args) /\ IsQuery(m.body)

Shape ==
  /\ directives \in 0 .. MaxDirectives + 1
  /\ MessageOK(msg)
  /\ cookie \in BOOLEAN
  /\ attempt \in 0 .. MaxLogins /\ alive \subseteq 1 .. attempt
  /\ directives <= MaxDirectives => msg.at = "nothing" /\ ~cookie

\* What each address holds.
Addresses ==
  /\ msg.method = "GET" => msg.body = <<>>
  /\ msg.at \in {"site", "page"} => \A i \in Range(msg.args) \cup Range(msg.body) : Familiar(i)
  /\ msg.at = "form" => CleanUrl(msg.args)
  /\ msg.at = "login_page" =>
       /\ Referrer \in DOMAIN Received /\ CleanUrl(Received[Referrer])
       /\ ErrorName \in DOMAIN Received => Received[ErrorName] \in Errors
  /\ msg.at = "provider" =>
       /\ ReturnTo \in DOMAIN Received /\ ReturnUrl(Received[ReturnTo], attempt)
       /\ AxNs("ax") \in DOMAIN Received =>
            /\ <<"openid", "ax", "required">> \in DOMAIN Received
            /\ Received[<<"openid", "ax", "required">>] = conf.ax_attrs

\* A browser with a cookie has left the provider and the forms behind; only the
\* provider sends parameters of the protocol itself.
Cookies ==
  /\ cookie => /\ conf.use_cookie
               /\ msg.at \in {"nothing", "site", "page"} /\ msg.from \in {"user", "site"}
  /\ msg.from = "site" /\ msg.at \in {"site", "page"} => cookie
  /\ conf.use_cookie /\ msg.at = "page" => msg.from \in {"user", "site"} /\ Bare(msg.args)
  /\ conf.use_cookie /\ msg.at = "site" /\ msg.from # "provider" => Bare(msg.args) /\ Bare(msg.body)

\* Of OpenID, an answer has the mode, the handle, the nonce of the attempt and
\* the extension parameters that the provider responded.
AnswerItem(i) ==
  \/ ~IsOpenIdVar(i.name)
  \/ i.name \in {Mode, AssocHandle}
  \/ i.name = Nonce /\ i.value = attempt
  \/ i.name \in DOMAIN responded /\ i.value = responded[i.name]

Answers ==
  msg.at = "site" /\ msg.from = "provider" =>
    /\ msg.method = "POST" => \A i \in Range(msg.body) : i.name # Nonce
    /\ msg.method = "GET" =>
         /\ \A i \in Range(msg.args) : AnswerItem(i)
         /\ \E i \in Range(msg.args) : i.name = Nonce
         /\ Len(msg.args) > 1
         /\ (\E i \in Range(msg.args) : i.name = AssocHandle) =>
              \A n \in DOMAIN responded : \E i \in Range(msg.args) : i.name = n

Responded ==
  /\ responded = [n \in DOMAIN responded |-> responded[n]]
  /\ \A n \in DOMAIN responded : /\ Len(n) > 2 /\ IsOpenIdVar(n)
                                 /\ n \notin {Mode, AssocHandle, Nonce, AxNs("ax")}
                                 /\ responded[n] # None
  /\ \A n \in DOMAIN responded : responded[n] = Empty => DOMAIN responded # {n}

Inv == /\ ConfOK /\ Shape /\ Addresses /\ Cookies /\ Answers /\ Responded
       /\ AttributesHeld /\ ExtensionsOfThisLogin

--------------------------------------------------------------------------------
(* The configuration.                                                      *)

LEMMA NewConfigOK == RecordOK(NewConfig)
<1>1. NewConfig = [field \in DOMAIN NewConfig |-> NewConfig[field]]
  BY DEF NewConfig
<1>2. /\ NewConfig.use_cookie = TRUE /\ NewConfig.ax_attrs = <<>> /\ NewConfig.use_ax = FALSE
      /\ NewConfig.use_auth_program = FALSE /\ NewConfig.use_single_idp = FALSE
      /\ NewConfig.use_ax_username = FALSE
      /\ NewConfig.ax_attr_uris = <<>> /\ NewConfig.ax_attr_patterns = <<>>
  BY DEF NewConfig
<1>3. <<>> \in Seq(Alias) /\ Range(<<>>) = {} /\ DOMAIN <<>> = {}
  BY DEF Range
<1> QED
  BY <1>1, <1>2, <1>3 DEF RecordOK

\* A field that the conditions do not look at.
LEMMA StoredOK ==
  ASSUME NEW c, RecordOK(c), NEW field \in StoredFields \cup Flags \cup {"cookie_lifespan"}, NEW v,
         field \in Flags => v \in BOOLEAN
  PROVE  RecordOK(Stored(c, field, v))
<1> DEFINE d == Stored(c, field, v)
<1>1. d = [c EXCEPT ![field] = v]
  BY DEF Stored
<1>2. DOMAIN c = DOMAIN NewConfig /\ c = [f \in DOMAIN c |-> c[f]]
  BY DEF RecordOK
<1>3. DOMAIN d = DOMAIN c /\ d = [f \in DOMAIN d |-> d[f]]
  BY <1>1, <1>2
<1>4. \A f \in DOMAIN c : f # field => d[f] = c[f]
  BY <1>1, <1>2
<1>5. /\ {"use_cookie", "ax_attrs", "use_ax", "use_auth_program", "use_single_idp", "use_ax_username",
          "auth_program", "single_idp_url", "ax_username_attr", "ax_attr_uris", "ax_attr_patterns"}
           \subseteq DOMAIN c
  BY <1>2 DEF NewConfig
<1>6. d.use_cookie \in BOOLEAN
  BY <1>1, <1>4, <1>5 DEF RecordOK, StoredFields, Flags
<1> QED
  BY <1>2, <1>3, <1>4, <1>5, <1>6 DEF RecordOK, StoredFields, Flags

\* The fields that the conditions look at, of a record in which only the fields F
\* differ from those of c.
LEMMA SameButFor ==
  ASSUME NEW c, RecordOK(c), NEW d, NEW F,
         DOMAIN d = DOMAIN c, d = [f \in DOMAIN d |-> d[f]],
         \A f \in DOMAIN c : f \notin F => d[f] = c[f]
  PROVE  /\ DOMAIN d = DOMAIN NewConfig
         /\ "use_cookie" \notin F => d.use_cookie = c.use_cookie
         /\ "ax_attrs" \notin F => d.ax_attrs = c.ax_attrs
         /\ "use_ax" \notin F => d.use_ax = c.use_ax
         /\ "use_auth_program" \notin F => d.use_auth_program = c.use_auth_program
         /\ "use_single_idp" \notin F => d.use_single_idp = c.use_single_idp
         /\ "use_ax_username" \notin F => d.use_ax_username = c.use_ax_username
         /\ "auth_program" \notin F => d.auth_program = c.auth_program
         /\ "single_idp_url" \notin F => d.single_idp_url = c.single_idp_url
         /\ "ax_username_attr" \notin F => d.ax_username_attr = c.ax_username_attr
         /\ "ax_attr_uris" \notin F => d.ax_attr_uris = c.ax_attr_uris
         /\ "ax_attr_patterns" \notin F => d.ax_attr_patterns = c.ax_attr_patterns
<1>1. /\ {"use_cookie", "ax_attrs", "use_ax", "use_auth_program", "use_single_idp", "use_ax_username",
          "auth_program", "single_idp_url", "ax_username_attr", "ax_attr_uris", "ax_attr_patterns"}
           \subseteq DOMAIN c
      /\ DOMAIN d = DOMAIN NewConfig
  BY DEF RecordOK, NewConfig
<1> QED
  BY <1>1

LEMMA PushedOK ==
  ASSUME NEW c, RecordOK(c), NEW list \in Lists, NEW p
  PROVE  RecordOK(Pushed(c, list, p))
<1> DEFINE d == Pushed(c, list, p)
<1>1. DOMAIN d = DOMAIN c /\ d = [f \in DOMAIN d |-> d[f]]
      /\ \A f \in DOMAIN c : f \notin Lists => d[f] = c[f]
  BY DEF RecordOK, Pushed
<1> HIDE DEF d
<1> QED
  BY <1>1, SameButFor DEF RecordOK, Lists, d

LEMMA SetAuthProgramOK ==
  ASSUME NEW c, RecordOK(c), NEW t \in Text
  PROVE  RecordOK(SetAuthProgram(c, t))
<1> DEFINE d == SetAuthProgram(c, t)
           F == {"auth_program", "use_auth_program"}
<1>1. /\ DOMAIN d = DOMAIN c /\ d = [f \in DOMAIN d |-> d[f]]
      /\ \A f \in DOMAIN c : f \notin F => d[f] = c[f]
      /\ F \subseteq DOMAIN c
  BY DEF RecordOK, SetAuthProgram, NewConfig
<1>2. d.auth_program = t /\ t # None
  BY <1>1, SentinelAssumption DEF SetAuthProgram
<1> HIDE DEF d
<1> QED
  BY <1>1, <1>2, SameButFor DEF RecordOK, d

LEMMA SetSingleIdpOK ==
  ASSUME NEW c, RecordOK(c), NEW t \in Text
  PROVE  RecordOK(SetSingleIdp(c, t))
<1> DEFINE d == SetSingleIdp(c, t)
           F == {"single_idp_url", "use_single_idp"}
<1>1. /\ DOMAIN d = DOMAIN c /\ d = [f \in DOMAIN d |-> d[f]]
      /\ \A f \in DOMAIN c : f \notin F => d[f] = c[f]
      /\ F \subseteq DOMAIN c
  BY DEF RecordOK, SetSingleIdp, NewConfig
<1>2. d.single_idp_url = t /\ t # None
  BY <1>1, SentinelAssumption DEF SetSingleIdp
<1> HIDE DEF d
<1> QED
  BY <1>1, <1>2, SameButFor DEF RecordOK, d

LEMMA SetAxUsernameOK ==
  ASSUME NEW c, RecordOK(c), NEW a \in Alias
  PROVE  RecordOK(SetAxUsername(c, a))
<1> DEFINE d == SetAxUsername(c, a)
           F == {"ax_username_attr", "use_ax_username"}
<1>1. /\ DOMAIN d = DOMAIN c /\ d = [f \in DOMAIN d |-> d[f]]
      /\ \A f \in DOMAIN c : f \notin F => d[f] = c[f]
      /\ F \subseteq DOMAIN c
  BY DEF RecordOK, SetAxUsername, NewConfig
<1>2. d.ax_username_attr = a /\ a # None
  BY <1>1, SentinelAssumption DEF SetAxUsername
<1> HIDE DEF d
<1> QED
  BY <1>1, <1>2, SameButFor DEF RecordOK, d

LEMMA Appended ==
  ASSUME NEW T, NEW s \in Seq(T), NEW x \in T
  PROVE  Append(s, x) \in Seq(T) /\ Append(s, x) # <<>> /\ Range(Append(s, x)) = Range(s) \cup {x}
<1>1. /\ Append(s, x) \in Seq(T) /\ Len(Append(s, x)) = Len(s) + 1 /\ Len(s) \in Nat
      /\ \A k \in 1 .. Len(s) : Append(s, x)[k] = s[k]
      /\ Append(s, x)[Len(s) + 1] = x
  OBVIOUS
<1>2. Range(Append(s, x)) = Range(s) \cup {x}
  BY <1>1 DEF Range
<1> QED
  BY <1>1, <1>2

\* The list of attributes and their tables are changed together.
LEMMA SetAxRequireOK ==
  ASSUME NEW c, RecordOK(c), NEW a \in Alias, NEW uri, NEW pattern
  PROVE  RecordOK(SetAxRequire(c, a, uri, pattern))
<1> DEFINE d == SetAxRequire(c, a, uri, pattern)
           F == {"use_ax", "ax_attrs", "ax_attr_uris", "ax_attr_patterns"}
<1>1. /\ DOMAIN d = DOMAIN c /\ d = [f \in DOMAIN d |-> d[f]]
      /\ \A f \in DOMAIN c : f \notin F => d[f] = c[f]
      /\ F \subseteq DOMAIN c
  BY DEF RecordOK, SetAxRequire, NewConfig
<1>2. /\ d.use_ax = TRUE /\ d.ax_attrs = Append(c.ax_attrs, a)
      /\ d.ax_attr_uris = With(c.ax_attr_uris, a, uri)
      /\ d.ax_attr_patterns = With(c.ax_attr_patterns, a, pattern)
  BY <1>1 DEF SetAxRequire
<1>3. /\ d.ax_attrs \in Seq(Alias) /\ d.ax_attrs # <<>>
      /\ Range(d.ax_attrs) = Range(c.ax_attrs) \cup {a}
  BY <1>2, Appended DEF RecordOK
<1>4. /\ DOMAIN d.ax_attr_uris = DOMAIN c.ax_attr_uris \cup {a}
      /\ DOMAIN d.ax_attr_patterns = DOMAIN c.ax_attr_patterns \cup {a}
  BY <1>2 DEF With
<1> HIDE DEF d
<1>5. /\ DOMAIN d = DOMAIN NewConfig
      /\ d.use_cookie = c.use_cookie
      /\ d.use_auth_program = c.use_auth_program /\ d.auth_program = c.auth_program
      /\ d.use_single_idp = c.use_single_idp /\ d.single_idp_url = c.single_idp_url
      /\ d.use_ax_username = c.use_ax_username /\ d.ax_username_attr = c.ax_username_attr
  BY <1>1, SameButFor
<1>6. /\ Range(d.ax_attrs) = DOMAIN d.ax_attr_uris
      /\ DOMAIN d.ax_attr_uris = DOMAIN d.ax_attr_patterns
      /\ d.use_ax <=> d.ax_attrs # <<>>
  BY <1>2, <1>3, <1>4 DEF RecordOK
<1>7. /\ d.use_cookie \in BOOLEAN
      /\ d.use_auth_program => d.auth_program # None
      /\ d.use_single_idp => d.single_idp_url # None
      /\ d.use_ax_username => d.ax_username_attr # None
  BY <1>5 DEF RecordOK
<1>8. d.ax_attrs \in Seq(Alias) /\ d = [f \in DOMAIN d |-> d[f]]
  BY <1>1, <1>3
<1>9. RecordOK(d)
  BY <1>5, <1>6, <1>7, <1>8 DEF RecordOK
<1> QED
  BY <1>9 DEF d

LEMMA DirectiveOK ==
  ASSUME ConfOK, NEW s \in Sections, Directive(s)
  PROVE  DOMAIN section' = Sections /\ \A z \in Sections : RecordOK(Record(z))'
<1> DEFINE c == Record(s)
<1>1. RecordOK(c)
  BY DEF ConfOK
<1>2. \E d : RecordOK(d) /\ Put(s, d)
  <2>1. CASE \E field \in StoredFields, t \in Text : Put(s, Stored(c, field, t))
    <3>1. \A field \in StoredFields : field \notin Flags
      BY DEF StoredFields, Flags
    <3> QED
      BY <1>1, <2>1, <3>1, StoredOK
  <2>2. CASE \E field \in Flags, flag \in BOOLEAN : Put(s, Stored(c, field, flag))
    BY <1>1, <2>2, StoredOK
  <2>3. CASE \E n \in Number : Put(s, Stored(c, "cookie_lifespan", n))
    <3>1. "cookie_lifespan" \notin Flags
      BY DEF Flags
    <3> QED
      BY <1>1, <2>3, <3>1, StoredOK
  <2>4. CASE \E list \in Lists, p \in Pattern : Put(s, Pushed(c, list, p))
    BY <1>1, <2>4, PushedOK
  <2>5. CASE \E t \in Text : Put(s, SetAuthProgram(c, t)) \/ Put(s, SetSingleIdp(c, t))
    BY <1>1, <2>5, SetAuthProgramOK, SetSingleIdpOK
  <2>6. CASE \E a \in Alias : Put(s, SetAxUsername(c, a))
    BY <1>1, <2>6, SetAxUsernameOK
  <2>7. CASE \E a \in Alias, t \in Text, p \in Pattern : Put(s, SetAxRequire(c, a, t, p))
    BY <1>1, <2>7, SetAxRequireOK
  <2> QED
    BY <2>1, <2>2, <2>3, <2>4, <2>5, <2>6, <2>7 DEF Directive
<1>3. PICK d : RecordOK(d) /\ section' = [section EXCEPT ![s] = d]
  BY <1>2 DEF Put
<1>4. /\ DOMAIN section' = Sections /\ section'[s] = d
      /\ \A z \in Sections : z # s => section'[z] = section[z]
  BY <1>3 DEF ConfOK
<1>5. ASSUME NEW z \in Sections
      PROVE  RecordOK(IF section'[z] = None THEN NewConfig ELSE section'[z])
  <2>1. CASE z = s
    BY <1>3, <1>4, <2>1, NewConfigOK
  <2>2. CASE z # s
    BY <1>4, <2>2 DEF ConfOK, Record
  <2> QED
    BY <2>1, <2>2
<1> QED
  BY <1>4, <1>5 DEF Record

--------------------------------------------------------------------------------
(* Names and messages.                                                     *)

LEMMA NamesDiffer ==
  /\ Mode # AssocHandle /\ Mode # Nonce /\ Mode # ReturnTo /\ AssocHandle # Nonce
  /\ Nonce # ReturnTo /\ Referrer # ErrorName
  /\ \A n \in {Mode, AssocHandle, Nonce, ReturnTo, Referrer, ErrorName} : Len(n) = 2 /\ IsOpenIdVar(n)
  /\ Identifier \notin {Mode, AssocHandle, Nonce} /\ IsOpenIdVar(Identifier) /\ Len(Identifier) = 1
  BY DEF Mode, AssocHandle, Nonce, ReturnTo, Referrer, ErrorName, IsOpenIdVar, Identifier

LEMMA AxNsIs ==
  ASSUME NEW a
  PROVE  Len(AxNs(a)) = 3 /\ IsOpenIdVar(AxNs(a)) /\ AxNs(a) # Identifier
  BY DEF AxNs, IsOpenIdVar, Identifier

\* The parameters that the one who gets m reads in it.
Wire(m) == ParseQueryString(IF m.method = "GET" THEN m.args ELSE m.body)

LEMMA ReceivedIs == Received = Wire(msg) /\ Received' = Wire(msg')
  BY DEF Received, Wire

\* A redirect brings the parameters of its query, written out and read again when
\* it becomes a form.
LEMMA Delivered ==
  ASSUME NEW at, NEW q, IsQuery(q), NEW m \in HttpRedirect(at, q)
  PROVE  /\ m.at = at /\ m.from = "site"
         /\ m = [at |-> m.at, from |-> m.from, method |-> m.method, type |-> m.type,
                 args |-> m.args, body |-> m.body]
         /\ m.method \in {"GET", "POST"} /\ m.type \in {"form", None}
         /\ IsQuery(m.args) /\ IsQuery(m.body)
         /\ m.method = "GET" => m.body = <<>>
         /\ \A n \in DOMAIN Wire(m) : \E i \in Range(q) : i.name = n /\ i.value = Wire(m)[n]
         /\ \A i \in Range(q) :
              (\A j \in Range(q) : j.name = i.name => j.value \notin {None, Empty})
                => i.name \in DOMAIN Wire(m)
<1> DEFINE p == ParseQueryString(q)
<1>1. /\ IsFiniteSet(DOMAIN p)
      /\ \A n \in DOMAIN p : \E i \in Range(q) : i.name = n /\ i.value = p[n]
      /\ \A i \in Range(q) : i.value # None /\ i.value # Empty => i.name \in DOMAIN p
  BY Parsed
<1>2. CASE m = Get(at, "site", q)
  <2>1. Wire(m) = p
    BY <1>2 DEF Get, Wire
  <2> HIDE DEF p
  <2>2. /\ \A n \in DOMAIN Wire(m) : \E i \in Range(q) : i.name = n /\ i.value = Wire(m)[n]
        /\ \A i \in Range(q) :
             (\A j \in Range(q) : j.name = i.name => j.value \notin {None, Empty})
               => i.name \in DOMAIN Wire(m)
    BY <1>1, <2>1
  <2> QED
    BY <1>2, <2>2, EmptyQuery DEF Get
<1>3. CASE m = Post(at, "site", <<>>, Query(p))
  <2> HIDE DEF p
  <2>1. IsQuery(Query(p)) /\ Range(Query(p)) = {Item(n, p[n]) : n \in DOMAIN p}
    BY <1>1, Written
  <2>2. Wire(m) = ParseQueryString(Query(p))
    BY <1>3 DEF Get, Post, Wire
  <2>3. /\ \A n \in DOMAIN Wire(m) : \E i \in Range(Query(p)) : i.name = n /\ i.value = Wire(m)[n]
        /\ \A i \in Range(Query(p)) : i.value # None /\ i.value # Empty => i.name \in DOMAIN Wire(m)
    BY <2>1, <2>2, Parsed
  <2>4. ASSUME NEW n \in DOMAIN Wire(m)
        PROVE  \E i \in Range(q) : i.name = n /\ i.value = Wire(m)[n]
    <3>1. PICK k \in DOMAIN p : Item(k, p[k]).name = n /\ Item(k, p[k]).value = Wire(m)[n]
      BY <2>1, <2>3
    <3>2. k = n /\ p[n] = Wire(m)[n]
      BY <3>1 DEF Item
    <3> QED
      BY <1>1, <3>2
  <2>5. ASSUME NEW i \in Range(q), \A j \in Range(q) : j.name = i.name => j.value \notin {None, Empty}
        PROVE  i.name \in DOMAIN Wire(m)
    <3>1. i.name \in DOMAIN p
      BY <1>1, <2>5
    <3>2. p[i.name] \notin {None, Empty}
      BY <1>1, <2>5, <3>1
    <3>3. Item(i.name, p[i.name]) \in Range(Query(p))
      BY <2>1, <3>1
    <3>4. Item(i.name, p[i.name]).name = i.name /\ Item(i.name, p[i.name]).value = p[i.name]
      BY DEF Item
    <3> QED
      BY <2>3, <3>2, <3>3, <3>4
  <2>6. /\ m.at = at /\ m.from = "site" /\ m.method = "POST" /\ m.type = "form"
        /\ m.args = <<>> /\ m.body = Query(p)
        /\ m = [at |-> m.at, from |-> m.from, method |-> m.method, type |-> m.type,
                args |-> m.args, body |-> m.body]
    BY <1>3 DEF Get, Post
  <2> QED
    BY <2>1, <2>4, <2>5, <2>6, EmptyQuery
<1> QED
  BY <1>2, <1>3 DEF HttpRedirect

LEMMA UrlIsValue ==
  ASSUME NEW s, CleanUrl(s) \/ \E n \in 1 .. MaxLogins : ReturnUrl(s, n)
  PROVE  s \notin {None, Empty}
<1> DEFINE T == UserItems \cup {Item(Nonce, n) : n \in 1 .. MaxLogins}
<1>1. IsQuery(s) /\ Range(s) \subseteq T
  BY DEF CleanUrl, ReturnUrl
<1> HIDE DEF T
<1>2. s \in Seq(T)
  BY <1>1 DEF IsQuery
<1> QED
  BY <1>2, SentinelAssumption DEF T

\* What full_uri makes of the page's URL.
LEMMA SiteCleaned ==
  ASSUME Shape, Addresses, msg.at = "site"
  PROVE  CleanUrl(FullUri(msg, TRUE))
<1> DEFINE url == FullUri(msg, TRUE)
<1>1. /\ IsQuery(url)
      /\ \A i \in Range(url) : ~IsOpenIdVar(i.name) /\ \E j \in Range(msg.args) : i = Item(j.name, j.value)
  BY CleanedUri DEF Shape, MessageOK
<1> HIDE DEF url
<1>2. ASSUME NEW i \in Range(url)
      PROVE  i \in UserItems
  <2>1. PICK j \in Range(msg.args) : i = Item(j.name, j.value)
    BY <1>1
  <2>2. ~IsOpenIdVar(j.name)
    BY <1>1, <2>1 DEF Item
  <2> QED
    BY <2>1, <2>2 DEF Addresses, Familiar
<1>3. CleanUrl(url)
  BY <1>1, <1>2 DEF CleanUrl
<1> QED
  BY <1>3 DEF url

--------------------------------------------------------------------------------
(* The first state, and the steps outside the handler.                     *)

LEMMA GetIs ==
  ASSUME NEW at, NEW from, NEW args, NEW m, m = Get(at, from, args)
  PROVE  /\ m.at = at /\ m.from = from /\ m.method = "GET" /\ m.type = None
         /\ m.args = args /\ m.body = <<>>
         /\ m = [at |-> m.at, from |-> m.from, method |-> m.method, type |-> m.type,
                 args |-> m.args, body |-> m.body]
  BY DEF Get

LEMMA PostIs ==
  ASSUME NEW at, NEW from, NEW args, NEW body, NEW m, m = Post(at, from, args, body)
  PROVE  /\ m.at = at /\ m.from = from /\ m.method = "POST" /\ m.type = "form"
         /\ m.args = args /\ m.body = body
         /\ m = [at |-> m.at, from |-> m.from, method |-> m.method, type |-> m.type,
                 args |-> m.args, body |-> m.body]
  BY DEF Get, Post

LEMMA RecordGives ==
  ASSUME NEW c, RecordOK(c), NEW d, d = Restrict(c, HandlerFields)
  PROVE  /\ d.use_cookie \in BOOLEAN
         /\ d.ax_attrs \in Seq(Alias)
         /\ d.use_ax <=> d.ax_attrs # <<>>
<1>1. d.use_cookie = c.use_cookie /\ d.ax_attrs = c.ax_attrs /\ d.use_ax = c.use_ax
  BY DEF Restrict, HandlerFields
<1> QED
  BY <1>1 DEF RecordOK

LEMMA NoSectionsOK ==
  ASSUME section' = NoSections
  PROVE  DOMAIN section' = Sections /\ \A s \in Sections : RecordOK(Record(s))'
<1>1. DOMAIN section' = Sections /\ \A s \in Sections : section'[s] = None
  BY DEF NoSections
<1>2. \A s \in Sections : (IF section'[s] = None THEN NewConfig ELSE section'[s]) = NewConfig
  BY <1>1
<1> QED
  BY <1>1, <1>2, NewConfigOK DEF Record

LEMMA InitInv ==
  ASSUME Init
  PROVE  Inv
<1>1. ConfOK
  <2>1. DOMAIN section = Sections /\ \A s \in Sections : section[s] = None
    BY DEF Init, NoSections
  <2>2. \A s \in Sections : Record(s) = NewConfig
    BY <2>1 DEF Record
  <2>3. conf = Restrict(NewConfig, HandlerFields)
    BY DEF Init
  <2> QED
    BY <2>1, <2>2, <2>3, NewConfigOK, RecordGives DEF ConfOK
<1>2. /\ msg.at = "nothing" /\ msg.from = "user" /\ msg.method = "GET" /\ msg.type = None
      /\ msg.args = <<>> /\ msg.body = <<>>
      /\ msg = [at |-> msg.at, from |-> msg.from, method |-> msg.method, type |-> msg.type,
                args |-> msg.args, body |-> msg.body]
  BY GetIs DEF Init
<1>3. Shape
  <2>1. MessageOK(msg)
    BY <1>2, EmptyQuery DEF MessageOK
  <2>2. directives = 0 /\ cookie = FALSE /\ attempt = 0 /\ alive = {}
    BY DEF Init
  <2>3. msg.at = "nothing"
    BY <1>2
  <2>4. directives \in 0 .. MaxDirectives + 1 /\ attempt \in 0 .. MaxLogins /\ alive \subseteq 1 .. attempt
    BY <2>2, BoundAssumption
  <2> QED
    BY <2>1, <2>2, <2>3, <2>4 DEF Shape
<1>4. Addresses /\ Cookies /\ Answers
  BY <1>2 DEF Init, Addresses, Cookies, Answers
<1>5. Responded
  BY DEF Init, Responded, NoParams
<1>6. AttributesHeld /\ ExtensionsOfThisLogin
  BY <1>2 DEF AttributesHeld, ExtensionsOfThisLogin, AfterLogin
<1> QED
  BY <1>1, <1>3, <1>4, <1>5, <1>6 DEF Inv

LEMMA ReadDirectiveInv ==
  ASSUME Inv, ReadDirective
  PROVE  Inv'
<1> USE DEF ReadDirective, tripVars
<1>1. msg.at = "nothing" /\ ~cookie
  BY BoundAssumption DEF Inv, Shape
<1>2. ConfOK'
  <2>1. PICK s \in Sections : Directive(s)
    OBVIOUS
  <2>2. ConfOK
    BY DEF Inv
  <2>3. DOMAIN section' = Sections /\ \A z \in Sections : RecordOK(Record(z))'
    BY <2>1, <2>2, DirectiveOK
  <2> QED
    BY <2>2, <2>3 DEF ConfOK
<1>3. Shape'
  BY <1>1, BoundAssumption DEF Inv, Shape
<1>4. Addresses' /\ Cookies' /\ Answers'
  BY <1>1 DEF Inv, Addresses, Cookies, Answers
<1>5. Responded'
  BY DEF Inv, Responded
<1>6. AttributesHeld' /\ ExtensionsOfThisLogin'
  BY <1>1 DEF AttributesHeld, ExtensionsOfThisLogin, AfterLogin
<1> QED
  BY <1>2, <1>3, <1>4, <1>5, <1>6 DEF Inv

LEMMA ServeInv ==
  ASSUME Inv, Serve
  PROVE  Inv'
<1> USE DEF Serve, tripVars
<1>1. msg.at = "nothing" /\ ~cookie
  BY BoundAssumption DEF Inv, Shape
<1>2. ConfOK'
  <2>1. DOMAIN section' = Sections /\ \A s \in Sections : RecordOK(Record(s))'
    BY NoSectionsOK
  <2>2. RecordOK(Effective)
    <3>1. \A s \in Sections : RecordOK(IF section[s] = None THEN NewConfig ELSE section[s])
      BY DEF Inv, ConfOK, Record
    <3>2. {"inner", "outer"} \subseteq Sections
      BY DEF Sections
    <3>3. CASE section["inner"] # None
      BY <3>1, <3>2, <3>3 DEF Effective
    <3>4. CASE section["inner"] = None /\ section["outer"] # None
      BY <3>1, <3>2, <3>4 DEF Effective
    <3>5. CASE section["inner"] = None /\ section["outer"] = None
      BY <3>5, NewConfigOK DEF Effective
    <3> QED
      BY <3>3, <3>4, <3>5
  <2>3. conf' = Restrict(Effective, HandlerFields)
    OBVIOUS
  <2>4. /\ conf'.use_cookie \in BOOLEAN
        /\ conf'.ax_attrs \in Seq(Alias)
        /\ conf'.use_ax <=> conf'.ax_attrs # <<>>
    BY <2>2, <2>3, RecordGives
  <2> QED
    BY <2>1, <2>4 DEF ConfOK
<1>3. Shape'
  BY <1>1, BoundAssumption DEF Inv, Shape
<1>4. Addresses' /\ Cookies' /\ Answers'
  BY <1>1 DEF Inv, Addresses, Cookies, Answers
<1>5. Responded'
  BY DEF Inv, Responded
<1>6. AttributesHeld' /\ ExtensionsOfThisLogin'
  BY <1>1 DEF AttributesHeld, ExtensionsOfThisLogin, AfterLogin
<1> QED
  BY <1>2, <1>3, <1>4, <1>5, <1>6 DEF Inv

\* Of the steps that leave the configuration alone.
LEMMA ConfKept ==
  ASSUME ConfOK, section' = section, conf' = conf
  PROVE  ConfOK'
  BY DEF ConfOK, Record

LEMMA ShapeOf ==
  ASSUME Shape, msg.at # "nothing" \/ directives > MaxDirectives, directives' = directives,
         MessageOK(msg'), cookie' \in BOOLEAN, attempt' \in 0 .. MaxLogins, alive' \subseteq 1 .. attempt'
  PROVE  Shape'
<1>1. directives > MaxDirectives
  BY BoundAssumption DEF Shape
<1> QED
  BY <1>1, BoundAssumption DEF Shape

LEMMA ResponseKept ==
  ASSUME Responded, responded' = responded
  PROVE  Responded'
  BY DEF Responded

LEMMA AskForPageInv ==
  ASSUME Inv, AskForPage
  PROVE  Inv'
<1> USE DEF AskForPage
<1>1. PICK q \in Asks, body \in {<<>>} \cup Forms :
        /\ msg'.at = "site" /\ msg'.from = "user" /\ msg'.args = q /\ msg'.body = body
        /\ msg'.method \in {"GET", "POST"} /\ msg'.type \in {"form", "other", None}
        /\ msg' = [at |-> msg'.at, from |-> msg'.from, method |-> msg'.method, type |-> msg'.type,
                   args |-> msg'.args, body |-> msg'.body]
        /\ msg'.method = "GET" => msg'.body = <<>>
  <2>1. CASE \E q \in Asks : msg' = Get("site", "user", q)
    BY <2>1, GetIs
  <2>2. CASE \E q \in Asks, form \in Forms, type \in {"form", "other", None} :
               msg' = [Post("site", "user", q, form) EXCEPT !.type = type]
    BY <2>2 DEF Post, Get
  <2> QED
    BY <2>1, <2>2
<1>2. /\ IsQuery(q) /\ IsQuery(body)
      /\ \A i \in Range(q) \cup Range(body) :
           Item(i.name, i.value) \in UserItems /\ i.name \notin {Mode, AssocHandle, Nonce, AxNs("ax")}
  <2>1. body = <<>> \/ body \in Forms
    OBVIOUS
  <2>2. q \in Seq(Range(q)) /\ (body \in Forms => body \in Seq(Range(body)))
    BY UserAssumption
  <2>3. IsQuery(q) /\ IsQuery(body)
    BY <2>1, <2>2, EmptyQuery DEF IsQuery
  <2>4. ASSUME NEW i \in Range(q) \cup Range(body)
        PROVE  /\ Item(i.name, i.value) \in UserItems
               /\ i.name \notin {Mode, AssocHandle, Nonce, AxNs("ax")}
    <3>1. i \in Given
      BY <2>1, <2>4, EmptyQuery DEF Given
    <3>2. i.value \in Data /\ i.name \notin {Mode, AssocHandle, Nonce, AxNs("ax")}
      BY <3>1, UserAssumption
    <3> QED
      BY <3>1, <3>2 DEF UserItems
  <2> QED
    BY <2>3, <2>4
<1>3. ConfOK'
  BY ConfKept DEF Inv
<1>4. Shape'
  <2>1. MessageOK(msg')
    BY <1>1, <1>2 DEF MessageOK
  <2> QED
    BY <2>1, ShapeOf DEF Inv, Shape
<1>5. Addresses'
  BY <1>1, <1>2 DEF Addresses, Familiar
<1>6. Cookies'
  BY <1>1, <1>2 DEF Inv, Cookies, Bare
<1>7. Answers' /\ AttributesHeld' /\ ExtensionsOfThisLogin'
  BY <1>1 DEF Answers, AttributesHeld, ExtensionsOfThisLogin, AfterLogin
<1> QED
  BY <1>3, <1>4, <1>5, <1>6, <1>7, ResponseKept DEF Inv

LEMMA NoContentTypeInv ==
  ASSUME Inv, NoContentType
  PROVE  Inv'
<1> USE DEF NoContentType, tripVars
<1>1. /\ msg'.at = "nothing" /\ msg'.from = "user" /\ msg'.method = "GET" /\ msg'.body = <<>>
      /\ MessageOK(msg')
  <2>1. msg' = Get("nothing", "user", <<>>)
    OBVIOUS
  <2>2. /\ msg'.at = "nothing" /\ msg'.from = "user" /\ msg'.method = "GET" /\ msg'.type = None
        /\ msg'.args = <<>> /\ msg'.body = <<>>
        /\ msg' = [at |-> msg'.at, from |-> msg'.from, method |-> msg'.method, type |-> msg'.type,
                   args |-> msg'.args, body |-> msg'.body]
    BY ONLY <2>1, GetIs
  <2> QED
    BY ONLY <2>2, EmptyQuery DEF MessageOK
<1>2. Shape'
  BY <1>1, ShapeOf DEF Inv, Shape
<1>3. Addresses'
  BY <1>1 DEF Addresses
<1>4. Cookies'
  BY <1>1 DEF Inv, Cookies
<1>5. Answers' /\ AttributesHeld' /\ ExtensionsOfThisLogin'
  BY <1>1 DEF Answers, AttributesHeld, ExtensionsOfThisLogin, AfterLogin
<1> QED
  BY <1>2, <1>3, <1>4, <1>5, ConfKept, ResponseKept DEF Inv

LEMMA ReloadInv ==
  ASSUME Inv, Reload
  PROVE  Inv'
<1> USE DEF Reload
<1>1. /\ msg'.at = "site" /\ msg'.from = "user" /\ msg'.method = "GET" /\ msg'.type = None
      /\ msg'.args = msg.args /\ msg'.body = <<>>
      /\ msg' = [at |-> msg'.at, from |-> msg'.from, method |-> msg'.method, type |-> msg'.type,
                 args |-> msg'.args, body |-> msg'.body]
  BY GetIs
<1>2. MessageOK(msg')
  BY <1>1, EmptyQuery DEF Inv, Shape, MessageOK
<1>3. Shape'
  BY <1>2, ShapeOf DEF Inv, Shape
<1>4. Addresses'
  BY <1>1, EmptyQuery DEF Inv, Addresses, Familiar
<1>5. Cookies'
  <2>1. cookie' => cookie
    BY DEF Inv, Shape
  <2>2. Cookies /\ msg.at = "page" /\ conf' = conf
    BY DEF Inv
  <2>3. Bare(msg.args) => Bare(msg'.args) /\ Bare(msg'.body)
    BY <1>1, EmptyQuery DEF Bare
  <2> QED
    BY <1>1, <2>1, <2>2, <2>3 DEF Cookies
<1>6. Answers' /\ AttributesHeld' /\ ExtensionsOfThisLogin'
  BY <1>1 DEF Answers, AttributesHeld, ExtensionsOfThisLogin, AfterLogin
<1> QED
  BY <1>3, <1>4, <1>5, <1>6, ConfKept, ResponseKept DEF Inv

LEMMA OneMore ==
  ASSUME NEW s, IsQuery(s), NEW x
  PROVE  IsQuery(Append(s, x)) /\ Range(Append(s, x)) = Range(s) \cup {x}
<1>1. s \in Seq(Range(s) \cup {x})
  BY DEF IsQuery
<1>2. Append(s, x) \in Seq(Range(s) \cup {x}) /\ Range(Append(s, x)) = Range(s) \cup {x}
  BY <1>1, Appended
<1> QED
  BY <1>2, StringIsQuery

LEMMA FillInInv ==
  ASSUME Inv, FillIn
  PROVE  Inv'
<1>a. PICK args : args = Append(msg.args, Item(Identifier, Id)) /\ msg' = Get("site", "user", args)
  BY DEF FillIn
<1>b. /\ msg.at = "form"
      /\ section' = section /\ directives' = directives /\ conf' = conf /\ cookie' = cookie
      /\ attempt' = attempt /\ alive' = alive /\ responded' = responded
  BY DEF FillIn, tripVars
<1>c. msg' = Get("site", "user", args)
  BY <1>a
<1>1. /\ msg'.at = "site" /\ msg'.from = "user" /\ msg'.method = "GET" /\ msg'.type = None
      /\ msg'.args = args /\ msg'.body = <<>>
      /\ msg' = [at |-> msg'.at, from |-> msg'.from, method |-> msg'.method, type |-> msg'.type,
                 args |-> msg'.args, body |-> msg'.body]
  BY <1>c, GetIs
<1>2. IsQuery(msg.args) /\ CleanUrl(msg.args)
  <2>1. CleanUrl(msg.args)
    BY <1>b DEF Inv, Addresses
  <2> QED
    BY <2>1 DEF CleanUrl
<1>3. IsQuery(args) /\ Range(args) = Range(msg.args) \cup {Item(Identifier, Id)}
  <2>1. /\ IsQuery(Append(msg.args, Item(Identifier, Id)))
        /\ Range(Append(msg.args, Item(Identifier, Id))) = Range(msg.args) \cup {Item(Identifier, Id)}
    BY <1>2, OneMore
  <2> QED
    BY <1>a, <2>1
<1>4. MessageOK(msg')
  BY <1>1, <1>3, EmptyQuery DEF MessageOK
<1>5. ASSUME NEW i \in Range(args)
      PROVE  Familiar(i) /\ i.name \notin {Mode, AssocHandle, Nonce}
  <2>1. CASE i = Item(Identifier, Id)
    <3>1. i.name = Identifier
      BY <2>1 DEF Item
    <3> QED
      BY <3>1, NamesDiffer, AxNsIs DEF Familiar
  <2>2. CASE i \in Range(msg.args)
    <3>1. ~IsOpenIdVar(i.name) /\ i \in UserItems
      BY <1>2, <2>2 DEF CleanUrl
    <3>2. i = Item(i.name, i.value)
      BY <3>1 DEF UserItems, Item
    <3> QED
      BY <3>1, <3>2, NamesDiffer, AxNsIs DEF Familiar
  <2> QED
    BY <1>3, <2>1, <2>2
<1>6. Shape'
  BY <1>4, <1>b, ShapeOf DEF Inv, Shape
<1>7. Addresses'
  BY <1>1, <1>5, EmptyQuery DEF Addresses
<1>8. Cookies'
  BY <1>1, <1>b, <1>5, EmptyQuery DEF Inv, Cookies, Bare
<1>9. Answers' /\ AttributesHeld' /\ ExtensionsOfThisLogin'
  BY <1>1 DEF Answers, AttributesHeld, ExtensionsOfThisLogin, AfterLogin
<1> QED
  BY <1>b, <1>6, <1>7, <1>8, <1>9, ConfKept, ResponseKept DEF Inv

\* An item of a clean URL.
LEMMA CleanItem ==
  ASSUME NEW s, CleanUrl(s), NEW i \in Range(s)
  PROVE  Familiar(i) /\ i.name \notin {Mode, AssocHandle, Nonce} /\ ~IsOpenIdVar(i.name) /\ i \in UserItems
<1>1. ~IsOpenIdVar(i.name) /\ i \in UserItems
  BY DEF CleanUrl
<1>2. i = Item(i.name, i.value)
  BY <1>1 DEF UserItems, Item
<1> QED
  BY <1>1, <1>2, NamesDiffer, AxNsIs DEF Familiar

LEMMA LoginPageReturnsInv ==
  ASSUME Inv, LoginPageReturns
  PROVE  Inv'
<1> DEFINE sreg == Item(<<"openid", "sreg", "required">>, Id)
           id == Item(Identifier, Id)
<1>p. PICK ext \in {<<>>, <<sreg>>} :
        msg' \in {Get("site", "login_page", Received[Referrer] \o (<<id>> \o ext)),
                 Post("site", "login_page", Received[Referrer], <<id>> \o ext)}
  BY DEF LoginPageReturns
<1>q. PICK fields : fields = <<id>> \o ext
  OBVIOUS
<1>r. PICK url : url = Received[Referrer]
  OBVIOUS
<1> HIDE DEF sreg, id
<1>a. msg' \in {Get("site", "login_page", url \o fields), Post("site", "login_page", url, fields)}
  BY <1>p, <1>q, <1>r
<1>b. /\ msg.at = "login_page"
      /\ section' = section /\ directives' = directives /\ conf' = conf /\ cookie' = cookie
      /\ attempt' = attempt /\ alive' = alive /\ responded' = responded
  BY DEF LoginPageReturns, tripVars
<1>1. IsQuery(url) /\ CleanUrl(url)
  <2>1. CleanUrl(Received[Referrer])
    BY <1>b DEF Inv, Addresses
  <2>2. url = Received[Referrer]
    BY <1>r
  <2> QED
    BY <2>1, <2>2 DEF CleanUrl
<1>2. IsQuery(fields) /\ Range(fields) \subseteq {id, sreg}
  <2>1. (ext = <<>> \/ ext = <<sreg>>) /\ fields = <<id>> \o ext
    BY <1>q
  <2>2. /\ <<id>> \in Seq({id, sreg}) /\ <<sreg>> \in Seq({id, sreg}) /\ <<>> \in Seq({id, sreg})
    OBVIOUS
  <2>5. \A s, t \in Seq({id, sreg}) : s \o t \in Seq({id, sreg})
    OBVIOUS
  <2>4. fields \in Seq({id, sreg})
    BY <2>1, <2>2, <2>5
  <2>3. Range(fields) \subseteq {id, sreg}
    BY <2>4 DEF Range
  <2> QED
    BY <2>4, <2>3, StringIsQuery
<1>3. IsQuery(url \o fields) /\ Range(url \o fields) = Range(url) \cup Range(fields)
  BY <1>1, <1>2, Concatenated
<1>4. ASSUME NEW i \in Range(url) \cup Range(fields)
      PROVE  Familiar(i) /\ i.name \notin {Mode, AssocHandle, Nonce}
  <2>1. CASE i \in Range(url)
    BY <1>1, <2>1, CleanItem
  <2>2. CASE i = id
    <3>1. i.name = Identifier
      BY <2>2 DEF Item, id
    <3> QED
      BY <3>1, NamesDiffer, AxNsIs DEF Familiar
  <2>3. CASE i = sreg
    <3>1. i.name = <<"openid", "sreg", "required">>
      BY <2>3 DEF Item, sreg
    <3>2. IsOpenIdVar(i.name) /\ i.name # AxNs("ax") /\ i.name \notin {Mode, AssocHandle, Nonce}
      BY <3>1 DEF IsOpenIdVar, AxNs, Mode, AssocHandle, Nonce
    <3> QED
      BY <3>2 DEF Familiar
  <2> QED
    BY <1>2, <2>1, <2>2, <2>3
<1>5. /\ msg'.at = "site" /\ msg'.from = "login_page"
      /\ msg'.method \in {"GET", "POST"} /\ msg'.type \in {"form", None}
      /\ msg' = [at |-> msg'.at, from |-> msg'.from, method |-> msg'.method, type |-> msg'.type,
                 args |-> msg'.args, body |-> msg'.body]
      /\ msg'.method = "GET" => msg'.body = <<>>
      /\ IsQuery(msg'.args) /\ IsQuery(msg'.body)
      /\ Range(msg'.args) \cup Range(msg'.body) \subseteq Range(url) \cup Range(fields)
  <2>1. CASE msg' = Get("site", "login_page", url \o fields)
    <3>1. PICK args : args = url \o fields
      OBVIOUS
    <3>2. msg' = Get("site", "login_page", args)
      BY <2>1, <3>1
    <3>3. IsQuery(args) /\ Range(args) = Range(url) \cup Range(fields)
      BY <1>3, <3>1
    <3>4. /\ msg'.at = "site" /\ msg'.from = "login_page" /\ msg'.method = "GET" /\ msg'.type = None
          /\ msg'.args = args /\ msg'.body = <<>>
          /\ msg' = [at |-> msg'.at, from |-> msg'.from, method |-> msg'.method, type |-> msg'.type,
                     args |-> msg'.args, body |-> msg'.body]
      BY ONLY <3>2, GetIs
    <3> QED
      BY ONLY <3>3, <3>4, EmptyQuery
  <2>2. CASE msg' = Post("site", "login_page", url, fields)
    <3>1. /\ msg'.at = "site" /\ msg'.from = "login_page" /\ msg'.method = "POST" /\ msg'.type = "form"
          /\ msg'.args = url /\ msg'.body = fields
          /\ msg' = [at |-> msg'.at, from |-> msg'.from, method |-> msg'.method, type |-> msg'.type,
                     args |-> msg'.args, body |-> msg'.body]
      BY ONLY <2>2, PostIs
    <3> QED
      BY ONLY <1>1, <1>2, <3>1
  <2> QED
    BY <1>a, <2>1, <2>2
<1>7. MessageOK(msg')
  BY <1>5 DEF MessageOK
<1>8. \A i \in Range(msg'.args) \cup Range(msg'.body) :
        Familiar(i) /\ i.name \notin {Mode, AssocHandle, Nonce}
  BY <1>4, <1>5
<1>9. Shape'
  BY <1>7, <1>b, ShapeOf DEF Inv, Shape
<1>10. Addresses'
  <2>1. msg'.at = "site" /\ (msg'.method = "GET" => msg'.body = <<>>)
    BY <1>5
  <2> QED
    BY <2>1, <1>8 DEF Addresses, Familiar
<1>11. Cookies'
  <2>1. Bare(msg'.args) /\ Bare(msg'.body)
    BY <1>8 DEF Bare
  <2>2. msg'.at = "site" /\ msg'.from = "login_page"
    BY <1>5
  <2> QED
    BY <1>b, <2>1, <2>2 DEF Inv, Cookies
<1>12. Answers' /\ AttributesHeld' /\ ExtensionsOfThisLogin'
  <2>1. msg'.at = "site" /\ msg'.from = "login_page"
    BY <1>5
  <2> QED
    BY <2>1 DEF Answers, AttributesHeld, ExtensionsOfThisLogin, AfterLogin
<1> QED
  BY <1>b, <1>9, <1>10, <1>11, <1>12, ConfKept, ResponseKept DEF Inv

\* The parameters of OpenID in the query of the page.
ExtensionsIn(args) == RestrictDomain(ParseQueryString(args), LAMBDA n : IsOpenIdVar(n))

LEMMA ExtensionsAre ==
  /\ ExtensionsOfThisLogin <=> (conf.use_cookie /\ AfterLogin => ExtensionsIn(msg.args) = responded)
  /\ ExtensionsOfThisLogin' <=> (conf'.use_cookie /\ AfterLogin' => ExtensionsIn(msg'.args) = responded')
  BY DEF ExtensionsOfThisLogin, ExtensionsIn, RestrictDomain, Restrict

LEMMA HasValidSessionInv ==
  ASSUME Inv, HasValidSession
  PROVE  Inv'
<1>a. /\ msg.at = "site" /\ cookie /\ conf.use_cookie
      /\ msg' = [msg EXCEPT !.at = "page"]
      /\ section' = section /\ directives' = directives /\ conf' = conf /\ cookie' = cookie
      /\ attempt' = attempt /\ alive' = alive /\ responded' = responded
  BY DEF HasValidSession, tripVars
<1>1. MessageOK(msg)
  BY DEF Inv, Shape
<1>2. /\ msg'.at = "page" /\ msg'.from = msg.from /\ msg'.method = msg.method /\ msg'.type = msg.type
      /\ msg'.args = msg.args /\ msg'.body = msg.body
      /\ msg' = [at |-> msg'.at, from |-> msg'.from, method |-> msg'.method, type |-> msg'.type,
                 args |-> msg'.args, body |-> msg'.body]
  BY <1>a, <1>1 DEF MessageOK
<1>3. MessageOK(msg')
  BY <1>1, <1>2 DEF MessageOK
<1>4. msg.from \in {"user", "site"} /\ Bare(msg.args)
  BY <1>a DEF Inv, Cookies
<1>5. Shape'
  BY <1>3, <1>a, ShapeOf DEF Inv, Shape
<1>6. Addresses'
  BY <1>a, <1>2 DEF Inv, Addresses, Familiar
<1>7. Cookies'
  BY <1>a, <1>2, <1>4 DEF Inv, Cookies, Bare
<1>8. Answers'
  BY <1>2 DEF Answers
<1>9. AfterLogin' => AfterLogin
  BY <1>a, <1>2, <1>4 DEF AfterLogin
<1>10. AttributesHeld' /\ ExtensionsOfThisLogin'
  <2>1. msg'.args = msg.args /\ responded' = responded /\ conf' = conf
    BY <1>a, <1>2
  <2>2. AttributesHeld'
    BY <1>9, <2>1 DEF Inv, AttributesHeld
  <2>4. ExtensionsOfThisLogin'
    BY <1>9, <2>1, ExtensionsAre DEF Inv
  <2> QED
    BY <2>2, <2>4
<1> QED
  BY <1>a, <1>5, <1>6, <1>7, <1>8, <1>10, ConfKept, ResponseKept DEF Inv

--------------------------------------------------------------------------------
(* The provider.                                                           *)

LEMMA TwoItems ==
  ASSUME NEW s, IsQuery(s), NEW a \in Range(s), NEW b \in Range(s), a # b
  PROVE  Len(s) > 1
<1>1. DOMAIN s = 1 .. Len(s) /\ Len(s) \in Nat
  BY ItemOf
<1>2. PICK j \in DOMAIN s, k \in DOMAIN s : s[j] = a /\ s[k] = b
  BY ItemOf
<1>3. j # k
  BY <1>2
<1> QED
  BY <1>1, <1>2, <1>3

\* An answer has nothing of the user's own but its address.
Answered ==
  \E query :
    /\ IsQuery(query) /\ \A i \in Range(query) : IsOpenIdVar(i.name)
    /\ msg'.at = "site"
    /\ \/ msg'.method = "GET" /\ msg'.args = Received[ReturnTo] \o query
       \/ msg'.method = "POST" /\ msg'.args = Received[ReturnTo] /\ msg'.body = query

LEMMA AnswerInv ==
  ASSUME Inv, msg.at = "provider",
         section' = section, directives' = directives, conf' = conf, cookie' = cookie,
         attempt' = attempt, alive' = alive, Responded',
         NEW answer, IsFiniteSet(DOMAIN answer), DOMAIN answer # {}, ProviderAnswers(answer),
         \A n \in DOMAIN answer :
           /\ IsOpenIdVar(n) /\ n # Nonce /\ n # AxNs("ax")
           /\ \/ n \in {Mode, AssocHandle}
              \/ n \in DOMAIN responded' /\ answer[n] = responded'[n],
         AssocHandle \in DOMAIN answer => DOMAIN responded' \subseteq DOMAIN answer
  PROVE  Inv' /\ Answered
<1>q. PICK query : query = Query(answer)
  OBVIOUS
<1>r. PICK url : url = Received[ReturnTo]
  OBVIOUS
<1>a. msg' = Get("site", "provider", url \o query) \/ msg' = Post("site", "provider", url, query)
  BY <1>q, <1>r DEF ProviderAnswers
<1>1. IsQuery(query) /\ Range(query) = {Item(n, answer[n]) : n \in DOMAIN answer}
  BY <1>q, Written
<1>2. ReturnUrl(url, attempt)
  BY <1>r DEF Inv, Addresses
<1>3. IsQuery(url) /\ Item(Nonce, attempt) \in Range(url)
  BY <1>2 DEF ReturnUrl
<1>4. IsQuery(url \o query) /\ Range(url \o query) = Range(url) \cup Range(query)
  BY <1>1, <1>3, Concatenated
<1>5. ASSUME NEW i \in Range(query)
      PROVE  /\ Familiar(i) /\ i.name # Nonce /\ AnswerItem(i)'
             /\ i.name \in DOMAIN answer
  <2>1. PICK n \in DOMAIN answer : i = Item(n, answer[n])
    BY <1>1
  <2>2. i.name = n /\ i.value = answer[n]
    BY <2>1 DEF Item
  <2>3. IsOpenIdVar(n) /\ n # Nonce /\ n # AxNs("ax")
    OBVIOUS
  <2>4. n \in {Mode, AssocHandle} \/ (n \in DOMAIN responded' /\ answer[n] = responded'[n])
    OBVIOUS
  <2> QED
    BY <2>2, <2>3, <2>4 DEF Familiar, AnswerItem
<1>6. ASSUME NEW i \in Range(url)
      PROVE  /\ Familiar(i) /\ AnswerItem(i)'
             /\ i.name # AssocHandle
  <2>1. CASE i = Item(Nonce, attempt)
    <3>1. i.name = Nonce /\ i.value = attempt
      BY <2>1 DEF Item
    <3>2. IsOpenIdVar(Nonce) /\ Nonce # AxNs("ax") /\ Nonce # AssocHandle
      BY NamesDiffer DEF AxNs, Nonce
    <3> QED
      BY <3>1, <3>2 DEF Familiar, AnswerItem
  <2>2. CASE i # Item(Nonce, attempt)
    <3>1. ~IsOpenIdVar(i.name) /\ i \in UserItems
      BY <1>2, <2>2 DEF ReturnUrl
    <3>2. i = Item(i.name, i.value)
      BY <3>1 DEF UserItems, Item
    <3>3. i.name # AxNs("ax") /\ i.name # AssocHandle
      BY <3>1, AxNsIs, NamesDiffer
    <3> QED
      BY <3>1, <3>2, <3>3 DEF Familiar, AnswerItem
  <2> QED
    BY <2>1, <2>2
<1>7. /\ msg'.at = "site" /\ msg'.from = "provider"
      /\ msg'.method \in {"GET", "POST"} /\ msg'.type \in {"form", None}
      /\ msg' = [at |-> msg'.at, from |-> msg'.from, method |-> msg'.method, type |-> msg'.type,
                 args |-> msg'.args, body |-> msg'.body]
      /\ msg'.method = "GET" => msg'.args = url \o query /\ msg'.body = <<>>
      /\ msg'.method = "POST" => msg'.args = url /\ msg'.body = query
  <2>1. CASE msg' = Get("site", "provider", url \o query)
    <3>1. PICK args : args = url \o query
      OBVIOUS
    <3>2. msg' = Get("site", "provider", args)
      BY <2>1, <3>1
    <3>3. /\ msg'.at = "site" /\ msg'.from = "provider" /\ msg'.method = "GET" /\ msg'.type = None
          /\ msg'.args = args /\ msg'.body = <<>>
          /\ msg' = [at |-> msg'.at, from |-> msg'.from, method |-> msg'.method, type |-> msg'.type,
                     args |-> msg'.args, body |-> msg'.body]
      BY ONLY <3>2, GetIs
    <3> QED
      BY ONLY <3>1, <3>3
  <2>2. CASE msg' = Post("site", "provider", url, query)
    <3>1. /\ msg'.at = "site" /\ msg'.from = "provider" /\ msg'.method = "POST" /\ msg'.type = "form"
          /\ msg'.args = url /\ msg'.body = query
          /\ msg' = [at |-> msg'.at, from |-> msg'.from, method |-> msg'.method, type |-> msg'.type,
                     args |-> msg'.args, body |-> msg'.body]
      BY ONLY <2>2, PostIs
    <3> QED
      BY ONLY <3>1
  <2> QED
    BY <1>a, <2>1, <2>2
<1>8. /\ IsQuery(msg'.args) /\ IsQuery(msg'.body)
      /\ Range(msg'.args) \cup Range(msg'.body) \subseteq Range(url) \cup Range(query)
  BY <1>1, <1>3, <1>4, <1>7, EmptyQuery
<1>9. MessageOK(msg')
  BY <1>7, <1>8 DEF MessageOK
<1>10. Shape'
  BY <1>9, ShapeOf DEF Inv, Shape
<1>11. Addresses'
  <2>1. \A i \in Range(msg'.args) \cup Range(msg'.body) : Familiar(i)
    BY <1>5, <1>6, <1>8
  <2>2. msg'.at = "site" /\ (msg'.method = "GET" => msg'.body = <<>>)
    BY <1>7
  <2> QED
    BY <2>1, <2>2 DEF Addresses, Familiar
<1>12. Cookies'
  <2>1. ~cookie
    BY DEF Inv, Cookies
  <2>2. msg'.at = "site" /\ msg'.from = "provider"
    BY <1>7
  <2> QED
    BY <2>1, <2>2 DEF Inv, Shape, Cookies
<1>13. Answers'
  <2>1. ASSUME msg'.method = "POST"
        PROVE  \A i \in Range(msg'.body) : i.name # Nonce
    BY <1>5, <1>7, <2>1
  <2>2. ASSUME msg'.method = "GET"
        PROVE  /\ \A i \in Range(msg'.args) : AnswerItem(i)'
               /\ \E i \in Range(msg'.args) : i.name = Nonce
               /\ Len(msg'.args) > 1
               /\ (\E i \in Range(msg'.args) : i.name = AssocHandle) =>
                    \A n \in DOMAIN responded' : \E i \in Range(msg'.args) : i.name = n
    <3>1. IsQuery(msg'.args) /\ Range(msg'.args) = Range(url) \cup Range(query)
      BY <1>4, <1>7, <2>2
    <3>2. Item(Nonce, attempt).name = Nonce
      BY DEF Item
    <3>3. Len(msg'.args) > 1
      <4>1. PICK n \in DOMAIN answer : n # Nonce
        OBVIOUS
      <4>2. Item(n, answer[n]) \in Range(query) /\ Item(n, answer[n]).name = n
        BY <1>1 DEF Item
      <4> QED
        BY <1>3, <3>1, <3>2, <4>1, <4>2, TwoItems
    <3>4. ASSUME NEW i \in Range(msg'.args), i.name = AssocHandle, NEW n \in DOMAIN responded'
          PROVE  \E j \in Range(msg'.args) : j.name = n
      <4>1. i \in Range(query) /\ AssocHandle \in DOMAIN answer
        BY <1>5, <1>6, <3>1, <3>4
      <4>2. n \in DOMAIN answer
        BY <4>1
      <4>3. Item(n, answer[n]) \in Range(query) /\ Item(n, answer[n]).name = n
        BY <1>1, <4>2 DEF Item
      <4> QED
        BY <3>1, <4>3
    <3> QED
      BY <1>3, <1>5, <1>6, <3>1, <3>2, <3>3, <3>4
  <2> QED
    BY <2>1, <2>2 DEF Answers
<1>14. AttributesHeld' /\ ExtensionsOfThisLogin'
  BY <1>7 DEF AttributesHeld, ExtensionsOfThisLogin, AfterLogin
<1>15. Answered
  <2>1. \A i \in Range(query) : IsOpenIdVar(i.name)
    BY <1>5
  <2>2. \/ msg'.method = "GET" /\ msg'.args = Received[ReturnTo] \o query
        \/ msg'.method = "POST" /\ msg'.args = Received[ReturnTo] /\ msg'.body = query
    BY <1>7, <1>r
  <2> QED
    BY <1>1, <1>7, <2>1, <2>2 DEF Answered
<1>16. Inv'
  BY <1>10, <1>11, <1>12, <1>13, <1>14, ConfKept DEF Inv
<1> QED
  BY <1>15, <1>16

IsFcn(f) == f = [x \in DOMAIN f |-> f[x]]

LEMMA WithGives ==
  ASSUME NEW p, NEW n, NEW v, IsFiniteSet(DOMAIN p), NEW q, q = With(p, n, v)
  PROVE  /\ IsFiniteSet(DOMAIN q)
         /\ \A m : m \in DOMAIN q <=> m \in DOMAIN p \/ m = n
         /\ q[n] = v
         /\ \A m \in DOMAIN p : m # n => q[m] = p[m]
         /\ IsFcn(q)
<1>1. IsFiniteSet(DOMAIN p \cup {n})
  BY FS_AddElement
<1> QED
  BY <1>1 DEF With, IsFcn

LEMMA AssignedGives ==
  ASSUME NEW p, NEW q, IsFiniteSet(DOMAIN p), IsFiniteSet(DOMAIN q), NEW r, r = Assigned(p, q)
  PROVE  /\ IsFiniteSet(DOMAIN r)
         /\ \A n : n \in DOMAIN r <=> n \in DOMAIN p \/ n \in DOMAIN q
         /\ \A n \in DOMAIN q : r[n] = q[n]
         /\ \A n \in DOMAIN p : n \notin DOMAIN q => r[n] = p[n]
         /\ IsFcn(r)
<1>1. IsFiniteSet(DOMAIN p \cup DOMAIN q)
  BY FS_Union
<1> QED
  BY <1>1 DEF Assigned, IsFcn

LEMMA ImageFinite ==
  ASSUME NEW S, IsFiniteSet(S), NEW f, f = [x \in S |-> f[x]]
  PROVE  IsFiniteSet({f[x] : x \in S})
<1>1. f \in Surjection(S, {f[x] : x \in S})
  BY DEF Surjection
<1> QED
  BY <1>1, FS_Surjection

LEMMA RangeFinite ==
  ASSUME NEW T, NEW s \in Seq(T)
  PROVE  IsFiniteSet(Range(s))
<1>1. DOMAIN s = 1 .. Len(s) /\ Len(s) \in Nat /\ s = [k \in 1 .. Len(s) |-> s[k]]
  OBVIOUS
<1>2. IsFiniteSet(1 .. Len(s))
  <2>1. Len(s) \in Int
    OBVIOUS
  <2> QED
    BY <2>1, FS_Interval
<1>3. IsFiniteSet({s[k] : k \in 1 .. Len(s)})
  BY <1>1, <1>2, ImageFinite
<1> QED
  BY <1>1, <1>3 DEF Range

\* What a provider may add to its answer.
LEMMA ExtensionsOf ==
  ASSUME NEW asked,
         AxNs("ax") \in DOMAIN asked => IsFiniteSet(Range(asked[<<"openid", "ax", "required">>])),
         NEW ext \in Extensions(asked)
  PROVE  /\ IsFcn(ext) /\ IsFiniteSet(DOMAIN ext)
         /\ \A n \in DOMAIN ext : /\ Len(n) > 2 /\ IsOpenIdVar(n)
                                  /\ n \notin {Mode, AssocHandle, Nonce, AxNs("ax")}
                                  /\ ext[n] # None
         /\ \A n \in DOMAIN ext : ext[n] = Empty => DOMAIN ext # {n}
<1>n. None \notin Value \cup ProtocolValues /\ Empty \notin Value \cup ProtocolValues /\ Empty # None
  BY SentinelAssumption
<1>1. CASE ext = NoParams
  BY <1>1, NoParamsIs DEF NoParams, IsFcn
<1>2. CASE \E v \in Value : ext = With(NoParams, <<"openid", "sreg", "email">>, v)
  <2> DEFINE sreg == <<"openid", "sreg", "email">>
  <2>1. PICK v \in Value : ext = With(NoParams, sreg, v)
    BY <1>2
  <2>2. /\ Len(sreg) > 2 /\ IsOpenIdVar(sreg)
        /\ sreg \notin {Mode, AssocHandle, Nonce, AxNs("ax")}
    BY DEF IsOpenIdVar, Mode, AssocHandle, Nonce, AxNs
  <2> HIDE DEF sreg
  <2>3. DOMAIN ext = {sreg} /\ ext[sreg] = v /\ IsFiniteSet(DOMAIN ext) /\ IsFcn(ext)
    <3>1. PICK p : p = NoParams /\ IsFiniteSet(DOMAIN p) /\ \A n : n \notin DOMAIN p
      BY NoParamsIs
    <3>2. ext = With(p, sreg, v)
      BY <2>1, <3>1
    <3> QED
      BY <3>1, <3>2, WithGives
  <2> QED
    BY <1>n, <2>2, <2>3
<1>3. CASE /\ AxNs("ax") \in DOMAIN asked
           /\ \E S \in SUBSET Range(asked[<<"openid", "ax", "required">>]), v \in Value \cup {Empty} :
                ext = With([n \in {<<"openid", "ext1", "value", a>> : a \in S} |-> v],
                           AxNs("ext1"), "AX_NAMESPACE")
  <2>1. PICK S \in SUBSET Range(asked[<<"openid", "ax", "required">>]), v \in Value \cup {Empty} :
               ext = With([n \in {<<"openid", "ext1", "value", a>> : a \in S} |-> v],
                          AxNs("ext1"), "AX_NAMESPACE")
    BY <1>3
  <2> DEFINE f == [a \in S |-> <<"openid", "ext1", "value", a>>]
             N == {<<"openid", "ext1", "value", a>> : a \in S}
             values == [n \in N |-> v]
  <2>2. IsFiniteSet(N)
    <3>1. IsFiniteSet(S)
      BY <1>3, FS_Subset
    <3>2. IsFiniteSet({f[a] : a \in S})
      BY <3>1, ImageFinite
    <3>3. {f[a] : a \in S} = N
      OBVIOUS
    <3> QED
      BY <3>2, <3>3
  <2>3. \A n \in N : /\ Len(n) > 2 /\ IsOpenIdVar(n)
                     /\ n \notin {Mode, AssocHandle, Nonce, AxNs("ax"), AxNs("ext1")}
    BY SMTT(30) DEF IsOpenIdVar, Mode, AssocHandle, Nonce, AxNs
  <2>4. /\ Len(AxNs("ext1")) > 2 /\ IsOpenIdVar(AxNs("ext1"))
        /\ AxNs("ext1") \notin {Mode, AssocHandle, Nonce, AxNs("ax")}
    BY DEF IsOpenIdVar, Mode, AssocHandle, Nonce, AxNs
  <2>5. DOMAIN values = N /\ \A n \in N : values[n] = v
    OBVIOUS
  <2>6. ext = With(values, AxNs("ext1"), "AX_NAMESPACE")
    BY <2>1
  <2> HIDE DEF values, N, f
  <2>7. /\ DOMAIN ext = N \cup {AxNs("ext1")} /\ IsFiniteSet(DOMAIN ext)
        /\ ext[AxNs("ext1")] = "AX_NAMESPACE"
        /\ \A n \in N : ext[n] = v
        /\ IsFcn(ext)
    <3>1. IsFiniteSet(DOMAIN values)
      BY <2>2, <2>5
    <3>2. PICK ns : ns = AxNs("ext1")
      OBVIOUS
    <3>3. ext = With(values, ns, "AX_NAMESPACE")
      BY <2>6, <3>2
    <3>4. /\ IsFiniteSet(DOMAIN ext) /\ \A n : n \in DOMAIN ext <=> n \in DOMAIN values \/ n = ns
          /\ ext[ns] = "AX_NAMESPACE" /\ IsFcn(ext)
          /\ \A n \in DOMAIN values : n # ns => ext[n] = values[n]
      BY <3>1, <3>3, WithGives
    <3>5. \A n \in N : n # ns
      BY <2>3, <3>2
    <3> QED
      BY <2>5, <3>2, <3>4, <3>5
  <2>10. "AX_NAMESPACE" \notin {None, Empty}
    BY <1>n DEF ProtocolValues
  <2>8. \A n \in DOMAIN ext : /\ Len(n) > 2 /\ IsOpenIdVar(n)
                              /\ n \notin {Mode, AssocHandle, Nonce, AxNs("ax")}
                              /\ ext[n] # None
    BY <1>n, <2>3, <2>4, <2>7, <2>10
  <2>9. ASSUME NEW n \in DOMAIN ext, ext[n] = Empty
        PROVE  DOMAIN ext # {n}
    <3>1. "AX_NAMESPACE" # Empty
      BY <2>10
    <3>2. n # AxNs("ext1") /\ AxNs("ext1") \in DOMAIN ext
      BY <2>7, <2>9, <3>1
    <3> QED
      BY <3>2
  <2> QED
    BY <2>7, <2>8, <2>9
<1> DEFINE plain == {With(NoParams, <<"openid", "sreg", "email">>, v) : v \in Value}
           attributes ==
             {With([n \in {<<"openid", "ext1", "value", a>> : a \in S} |-> v],
                   AxNs("ext1"), "AX_NAMESPACE") :
              S \in SUBSET Range(asked[<<"openid", "ax", "required">>]), v \in Value \cup {Empty}}
<1>4. Extensions(asked) =
        {NoParams} \cup plain \cup (IF AxNs("ax") \notin DOMAIN asked THEN {} ELSE attributes)
  BY DEF Extensions
<1>5. ASSUME ext \in plain
      PROVE  \E v \in Value : ext = With(NoParams, <<"openid", "sreg", "email">>, v)
  BY <1>5
<1>6. ASSUME ext \in attributes
      PROVE  \E S \in SUBSET Range(asked[<<"openid", "ax", "required">>]), v \in Value \cup {Empty} :
               ext = With([n \in {<<"openid", "ext1", "value", a>> : a \in S} |-> v],
                          AxNs("ext1"), "AX_NAMESPACE")
  BY <1>6
<1> HIDE DEF plain, attributes
<1>7. ext = NoParams \/ ext \in plain \/ (AxNs("ax") \in DOMAIN asked /\ ext \in attributes)
  BY <1>4
<1>8. CASE ext \in plain
  <2>1. \E v \in Value : ext = With(NoParams, <<"openid", "sreg", "email">>, v)
    BY <1>5, <1>8
  <2> QED
    BY <1>2, <2>1
<1>9. CASE AxNs("ax") \in DOMAIN asked /\ ext \in attributes
  <2>1. \E S \in SUBSET Range(asked[<<"openid", "ax", "required">>]), v \in Value \cup {Empty} :
          ext = With([n \in {<<"openid", "ext1", "value", a>> : a \in S} |-> v],
                     AxNs("ext1"), "AX_NAMESPACE")
    BY <1>6, <1>9
  <2> QED
    BY <1>3, <1>9, <2>1
<1> QED
  BY <1>1, <1>7, <1>8, <1>9

LEMMA ProviderRespondsInv ==
  ASSUME Inv, ProviderResponds
  PROVE  Inv' /\ Answered
<1>a. /\ msg.at = "provider"
      /\ section' = section /\ directives' = directives /\ conf' = conf /\ cookie' = cookie
      /\ attempt' = attempt /\ alive' = alive
  BY DEF ProviderResponds
<1>1. PICK ext \in Extensions(Received) :
        ProviderAnswers(With(With(ext, Mode, "id_res"), AssocHandle, "handle")) /\ responded' = ext
  BY DEF ProviderResponds
<1>2. AxNs("ax") \in DOMAIN Received => IsFiniteSet(Range(Received[<<"openid", "ax", "required">>]))
  <2>1. AxNs("ax") \in DOMAIN Received => Received[<<"openid", "ax", "required">>] = conf.ax_attrs
    BY <1>a DEF Inv, Addresses
  <2>2. IsFiniteSet(Range(conf.ax_attrs))
    BY RangeFinite DEF Inv, ConfOK
  <2> QED
    BY <2>1, <2>2
<1>3. /\ IsFcn(ext) /\ IsFiniteSet(DOMAIN ext)
      /\ \A n \in DOMAIN ext : /\ Len(n) > 2 /\ IsOpenIdVar(n)
                               /\ n \notin {Mode, AssocHandle, Nonce, AxNs("ax")}
                               /\ ext[n] # None
      /\ \A n \in DOMAIN ext : ext[n] = Empty => DOMAIN ext # {n}
  BY <1>2, ExtensionsOf
<1>4. Responded'
  BY <1>1, <1>3 DEF Responded, IsFcn
<1>5. PICK moded : moded = With(ext, Mode, "id_res")
  OBVIOUS
<1>6. /\ IsFiniteSet(DOMAIN moded) /\ \A n : n \in DOMAIN moded <=> n \in DOMAIN ext \/ n = Mode
      /\ \A n \in DOMAIN ext : moded[n] = ext[n]
  BY <1>3, <1>5, NamesDiffer, WithGives
<1>7. PICK answer : answer = With(moded, AssocHandle, "handle")
  OBVIOUS
<1>8. /\ DOMAIN answer = DOMAIN ext \cup {Mode, AssocHandle} /\ IsFiniteSet(DOMAIN answer)
      /\ \A n \in DOMAIN ext : answer[n] = ext[n]
  <2>1. /\ IsFiniteSet(DOMAIN answer)
        /\ \A n : n \in DOMAIN answer <=> n \in DOMAIN moded \/ n = AssocHandle
        /\ \A n \in DOMAIN moded : n # AssocHandle => answer[n] = moded[n]
    BY <1>6, <1>7, WithGives
  <2>2. \A n \in DOMAIN ext : n # AssocHandle
    BY <1>3
  <2> QED
    BY <1>6, <2>1, <2>2
<1>9. \A n \in DOMAIN answer :
        /\ IsOpenIdVar(n) /\ n # Nonce /\ n # AxNs("ax")
        /\ n \in {Mode, AssocHandle} \/ (n \in DOMAIN responded' /\ answer[n] = responded'[n])
  <2>1. \A n \in {Mode, AssocHandle} : IsOpenIdVar(n) /\ n # Nonce /\ n # AxNs("ax")
    BY NamesDiffer, AxNsIs
  <2> QED
    BY <1>1, <1>3, <1>8, <2>1
<1>10. DOMAIN responded' \subseteq DOMAIN answer /\ DOMAIN answer # {}
  BY <1>1, <1>8
<1>11. ProviderAnswers(answer)
  BY <1>1, <1>5, <1>7
<1> QED
  BY <1>4, <1>8, <1>9, <1>10, <1>11, <1>a, AnswerInv

LEMMA ProviderCancelsInv ==
  ASSUME Inv, ProviderCancels
  PROVE  Inv' /\ Answered
<1>a. /\ msg.at = "provider"
      /\ section' = section /\ directives' = directives /\ conf' = conf /\ cookie' = cookie
      /\ attempt' = attempt /\ alive' = alive /\ responded' = responded
  BY DEF ProviderCancels, tripVars
<1>1. PICK answer : answer = With(NoParams, Mode, "cancel")
  OBVIOUS
<1>2. DOMAIN answer = {Mode} /\ IsFiniteSet(DOMAIN answer)
  <2>1. PICK p : p = NoParams /\ IsFiniteSet(DOMAIN p) /\ \A n : n \notin DOMAIN p
    BY NoParamsIs
  <2>2. answer = With(p, Mode, "cancel")
    BY <1>1, <2>1
  <2> QED
    BY <2>1, <2>2, WithGives
<1>3. /\ IsOpenIdVar(Mode) /\ Mode # Nonce /\ Mode # AssocHandle /\ Mode # AxNs("ax")
  BY NamesDiffer, AxNsIs
<1>4. ProviderAnswers(answer)
  BY <1>1 DEF ProviderCancels
<1>5. Responded'
  BY <1>a, ResponseKept DEF Inv
<1> QED
  BY <1>2, <1>3, <1>4, <1>5, <1>a, AnswerInv

--------------------------------------------------------------------------------
(* The handler.                                                            *)

LEMMA PrefixIsQuery ==
  ASSUME NEW s, IsQuery(s), NEW q \in Prefixes(s)
  PROVE  IsQuery(q) /\ Range(q) \subseteq Range(s)
<1>1. PICK l \in 0 .. Len(s) : q = SubSeq(s, 1, l)
  BY DEF Prefixes
<1>2. s \in Seq(Range(s)) /\ DOMAIN s = 1 .. Len(s) /\ Len(s) \in Nat
  BY ItemOf DEF IsQuery
<1>3. SubSeq(s, 1, l) \in Seq(Range(s))
  BY <1>2
<1>4. IsQuery(q)
  BY <1>1, <1>3, StringIsQuery
<1>5. Range(q) \subseteq Range(s)
  BY <1>1, <1>3 DEF Range
<1> QED
  BY <1>4, <1>5

\* A string of which only the first bytes have been read: every item of it is one
\* of the whole string or is left of one.
LEMMA CutIsQuery ==
  ASSUME NEW s, IsQuery(s), NEW q \in CutShort(s)
  PROVE  /\ IsQuery(q)
         /\ \A c \in Range(q) : \E i \in Range(s) :
              c.name = i.name /\ c.value \in {i.value} \cup CutValues(i)
<1>1. CASE q \in Prefixes(s)
  <2>1. IsQuery(q) /\ Range(q) \subseteq Range(s)
    BY <1>1, PrefixIsQuery
  <2> QED
    BY <2>1
<1>2. CASE \E k \in DOMAIN s : \E v \in CutValues(s[k]) :
             q = Append(SubSeq(s, 1, k - 1), Item(s[k].name, v))
  <2>0. PICK k \in DOMAIN s : \E v \in CutValues(s[k]) :
               q = Append(SubSeq(s, 1, k - 1), Item(s[k].name, v))
    BY <1>2
  <2>1. PICK v \in CutValues(s[k]) : q = Append(SubSeq(s, 1, k - 1), Item(s[k].name, v))
    BY <2>0
  <2>2. s \in Seq(Range(s)) /\ DOMAIN s = 1 .. Len(s) /\ Len(s) \in Nat /\ s[k] \in Range(s)
    BY ItemOf DEF IsQuery
  <2>3. k \in 1 .. Len(s) /\ k - 1 \in 0 .. Len(s)
    BY <2>2
  <2>l. PICK l \in 0 .. Len(s) : l = k - 1
    BY <2>3
  <2>4. PICK before : before = SubSeq(s, 1, l)
    OBVIOUS
  <2>5. before \in Prefixes(s)
    BY <2>2, <2>4 DEF Prefixes
  <2>6. IsQuery(before) /\ Range(before) \subseteq Range(s)
    BY <2>5, PrefixIsQuery
  <2>7. PICK c : c = Item(s[k].name, v)
    OBVIOUS
  <2>8. c.name = s[k].name /\ c.value = v
    BY <2>7 DEF Item
  <2>9. PICK T : T = Range(s) \cup {c}
    OBVIOUS
  <2>10. before \in Seq(T) /\ c \in T /\ q = Append(before, c)
    BY <2>1, <2>l, <2>4, <2>6, <2>7, <2>9 DEF IsQuery
  <2>11. q \in Seq(T) /\ Len(q) = Len(before) + 1
    BY <2>10
  <2>12. IsQuery(q)
    BY <2>11, StringIsQuery
  <2>13. \A j \in DOMAIN q : q[j] \in Range(before) \cup {c}
    <3>1. ASSUME NEW j \in DOMAIN q
          PROVE  q[j] \in Range(before) \cup {c}
      <4>1. j \in 1 .. Len(before) + 1 /\ DOMAIN before = 1 .. Len(before) /\ Len(before) \in Nat
        BY <2>10, <2>11
      <4>2. CASE j = Len(before) + 1
        BY <2>10, <4>1, <4>2
      <4>3. CASE j # Len(before) + 1
        <5>1. j \in DOMAIN before /\ q[j] = before[j]
          BY <2>10, <4>1, <4>3
        <5> QED
          BY <5>1 DEF Range
      <4> QED
        BY <4>2, <4>3
    <3> QED
      BY <3>1
  <2>14. \A x \in Range(q) : x \in Range(s) \/ x = c
    BY <2>6, <2>13 DEF Range
  <2> QED
    BY <2>1, <2>2, <2>8, <2>12, <2>14
<1> QED
  BY <1>1, <1>2 DEF CutShort

\* Every parameter of a request comes from an item of it, which may have been cut.
LEMMA ParamsOf ==
  ASSUME MessageOK(msg), NEW p \in GetRequestParams(msg)
  PROVE  /\ IsFiniteSet(DOMAIN p) /\ IsFcn(p)
         /\ \A n \in DOMAIN p : p[n] # None
         /\ \A n \in DOMAIN p : \E i \in Range(msg.args) \cup Range(msg.body) :
              i.name = n /\ p[n] \in ReadAs(i)
         /\ msg.method = "GET" => p = ParseQueryString(msg.args)
         /\ msg.method = "POST" =>
              \A n \in DOMAIN p : \E i \in Range(msg.body) : i.name = n /\ p[n] \in ReadAs(i)
<1>1. IsQuery(msg.args) /\ IsQuery(msg.body)
  BY DEF MessageOK
<1>2. CASE msg.method = "GET"
  <2>1. p = ParseQueryString(msg.args)
    BY <1>2 DEF GetRequestParams
  <2>2. /\ IsFcn(p) /\ IsFiniteSet(DOMAIN p)
        /\ \A n \in DOMAIN p : \E i \in Range(msg.args) : i.name = n /\ i.value = p[n] /\ i.value # None
    BY <1>1, <2>1, Parsed DEF IsFcn
  <2> QED
    BY <1>2, <2>1, <2>2 DEF ReadAs
<1>3. CASE msg.method = "POST"
  <2>1. p \in {IF q = None THEN NoParams ELSE ParseQueryString(q) : q \in GetPostData(msg)}
    BY <1>3 DEF GetRequestParams
  <2>2. PICK q \in GetPostData(msg) : p = IF q = None THEN NoParams ELSE ParseQueryString(q)
    BY <2>1
  <2>3. CASE q = None
    <3>1. p = NoParams
      BY <2>2, <2>3
    <3>2. IsFcn(p) /\ IsFiniteSet(DOMAIN p) /\ \A n : n \notin DOMAIN p
      BY <3>1, NoParamsIs DEF NoParams, IsFcn
    <3> QED
      BY <1>3, <3>2
  <2>4. CASE q # None
    <3>1. q = msg.body \/ (BodyFaults /\ q \in CutShort(msg.body))
      <4>1. CASE msg.type # "form"
        <5>1. GetPostData(msg) = {None}
          BY <4>1 DEF GetPostData
        <5> QED
          BY <2>2, <2>4, <5>1
      <4>2. CASE msg.type = "form" /\ BodyFaults
        <5>1. GetPostData(msg) = {msg.body} \cup ({None} \cup CutShort(msg.body))
          BY <4>2 DEF GetPostData
        <5> QED
          BY <2>2, <2>4, <4>2, <5>1
      <4>3. CASE msg.type = "form" /\ ~BodyFaults
        <5>1. GetPostData(msg) = {msg.body} \cup {}
          BY <4>3 DEF GetPostData
        <5> QED
          BY <2>2, <2>4, <5>1
      <4> QED
        BY <4>1, <4>2, <4>3
    <3>2. IsQuery(q) /\ \A c \in Range(q) : \E i \in Range(msg.body) : c.name = i.name /\ c.value \in ReadAs(i)
      <4>1. CASE q = msg.body
        <5>1. \A c \in Range(q) : c.value \in ReadAs(c)
          BY DEF ReadAs
        <5> QED
          BY <1>1, <4>1, <5>1
      <4>2. CASE BodyFaults /\ q \in CutShort(msg.body)
        <5>1. IsQuery(q) /\ \A c \in Range(q) : \E i \in Range(msg.body) :
                c.name = i.name /\ c.value \in {i.value} \cup CutValues(i)
          BY <1>1, <4>2, CutIsQuery
        <5>2. \A i : ReadAs(i) = {i.value} \cup CutValues(i)
          BY <4>2 DEF ReadAs
        <5> QED
          BY <5>1, <5>2
      <4> QED
        BY <3>1, <4>1, <4>2
    <3>3. p = ParseQueryString(q)
      BY <2>2, <2>4
    <3>4. /\ IsFcn(p) /\ IsFiniteSet(DOMAIN p)
          /\ \A n \in DOMAIN p : \E i \in Range(q) : i.name = n /\ i.value = p[n] /\ i.value # None
      BY <3>2, <3>3, Parsed DEF IsFcn
    <3> QED
      BY <1>3, <3>2, <3>4
  <2> QED
    BY <2>3, <2>4
<1> QED
  BY <1>2, <1>3 DEF MessageOK

\* What is left of a familiar value is familiar.
LEMMA FamiliarRead ==
  ASSUME NEW i, Familiar(i), ~IsOpenIdVar(i.name), NEW v \in ReadAs(i)
  PROVE  Item(i.name, v) \in UserItems
<1>1. PICK j \in Given, d \in Data : Item(i.name, i.value) = Item(j.name, d)
  BY DEF Familiar, UserItems
<1>2. i.name = j.name /\ i.value = d
  <2>1. \A n, e : Item(n, e).name = n /\ Item(n, e).value = e
    BY DEF Item
  <2> QED
    BY <1>1, <2>1
<1>3. v \in Data
  BY <1>2, DataAssumption DEF ReadAs, CutValues
<1> QED
  BY <1>2, <1>3 DEF UserItems

\* What a request that is being handled looks like.
LEMMA Handled ==
  ASSUME Inv, msg.at = "site", ~(cookie /\ conf.use_cookie)
  PROVE  /\ MessageOK(msg) /\ ~cookie /\ msg.from \in {"user", "login_page", "provider"}
         /\ \A i \in Range(msg.args) \cup Range(msg.body) : Familiar(i)
         /\ CleanUrl(FullUri(msg, TRUE))
<1>1. ~cookie
  BY DEF Inv, Cookies
<1>2. msg.from # "site"
  BY <1>1 DEF Inv, Cookies
<1>3. MessageOK(msg)
  BY DEF Inv, Shape
<1>4. \A i \in Range(msg.args) \cup Range(msg.body) : Familiar(i)
  BY DEF Inv, Addresses
<1>5. CleanUrl(FullUri(msg, TRUE))
  BY SiteCleaned DEF Inv
<1> QED
  BY <1>1, <1>2, <1>3, <1>4, <1>5 DEF MessageOK

\* The browser leaves the site with a form, for the login page or the provider.
LEMMA AwayInv ==
  ASSUME Inv, msg.at = "site", ~cookie,
         section' = section, directives' = directives, conf' = conf, cookie' = cookie,
         responded' = responded, attempt' \in 0 .. MaxLogins, alive' \subseteq 1 .. attempt',
         MessageOK(msg'), msg'.at \in {"form", "login_page", "provider"}, msg'.from = "site",
         msg'.method = "GET" => msg'.body = <<>>,
         Addresses'
  PROVE  Inv'
<1>1. Shape'
  BY ShapeOf DEF Inv, Shape
<1>2. Cookies'
  BY DEF Inv, Cookies
<1>3. Answers' /\ AttributesHeld' /\ ExtensionsOfThisLogin'
  BY DEF Answers, AttributesHeld, ExtensionsOfThisLogin, AfterLogin
<1> QED
  BY <1>1, <1>2, <1>3, ConfKept, ResponseKept DEF Inv

\* The form or the login page is given the page's URL without its parameters of
\* OpenID.
Shown == msg'.at \in {"form", "login_page"} /\ Address' = FullUri(msg, TRUE)

LEMMA ShowInputInv ==
  ASSUME Inv, msg.at = "site", ~(cookie /\ conf.use_cookie),
         section' = section, directives' = directives, conf' = conf, cookie' = cookie,
         responded' = responded, attempt' \in 0 .. MaxLogins, alive' \subseteq 1 .. attempt',
         NEW e \in Errors \cup {None}, ShowInput(e)
  PROVE  Inv' /\ Shown
<1>1. /\ MessageOK(msg) /\ ~cookie
      /\ CleanUrl(FullUri(msg, TRUE))
  BY Handled
<1>u. PICK url : url = FullUri(msg, TRUE)
  OBVIOUS
<1>2. CASE conf.login_page = None
  <2>1. msg' = Get("form", "site", url)
    BY <1>2, <1>u DEF ShowInput, ShowHtmlInput, FullUri
  <2>2. /\ msg'.at = "form" /\ msg'.from = "site" /\ msg'.method = "GET" /\ msg'.type = None
        /\ msg'.args = url /\ msg'.body = <<>>
        /\ msg' = [at |-> msg'.at, from |-> msg'.from, method |-> msg'.method, type |-> msg'.type,
                   args |-> msg'.args, body |-> msg'.body]
    BY <2>1, GetIs
  <2>3. IsQuery(url) /\ CleanUrl(url)
    <3>1. CleanUrl(url)
      BY <1>1, <1>u
    <3> QED
      BY <3>1 DEF CleanUrl
  <2>4. MessageOK(msg')
    BY <2>2, <2>3, EmptyQuery DEF MessageOK
  <2>5. Addresses'
    <3>1. CleanUrl(msg.args)'
      BY <2>2, <2>3 DEF CleanUrl
    <3>2. msg'.at = "form" /\ msg'.body = <<>>
      BY <2>2
    <3> QED
      BY <3>1, <3>2 DEF Addresses
  <2>6. Shown
    BY <1>u, <2>2 DEF Shown, Address
  <2> QED
    BY <1>1, <2>2, <2>4, <2>5, <2>6, AwayInv
<1>3. CASE conf.login_page # None
  <2>o. PICK own : own = RemoveOpenIdVars(ParseQueryString(msg.args))
    OBVIOUS
  <2>b. PICK about : about = With(own, Referrer, url)
    OBVIOUS
  <2>p. PICK p : p = IF e = None THEN about ELSE With(about, ErrorName, e)
    OBVIOUS
  <2>q. PICK q : q = Query(p)
    OBVIOUS
  <2>1. msg' \in HttpRedirect("login_page", q)
    BY <1>3, <1>u, <2>o, <2>b, <2>p, <2>q DEF ShowInput
  <2>2. IsFiniteSet(DOMAIN own) /\ \A n \in DOMAIN own : ~IsOpenIdVar(n)
    <3>1. IsFiniteSet(DOMAIN ParseQueryString(msg.args))
      BY <1>1, Parsed DEF MessageOK
    <3> QED
      BY <2>o, <3>1, RemovedIs
  <2>3. /\ IsFiniteSet(DOMAIN about) /\ \A n : n \in DOMAIN about <=> n \in DOMAIN own \/ n = Referrer
        /\ about[Referrer] = url
    BY <2>2, <2>b, WithGives
  <2>4. /\ IsFiniteSet(DOMAIN p) /\ Referrer \in DOMAIN p /\ p[Referrer] = url
        /\ ErrorName \in DOMAIN p => e # None /\ p[ErrorName] = e
    <3>1. CASE e = None
      <4>1. p = about
        BY <2>p, <3>1
      <4> QED
        BY <2>2, <2>3, <4>1, NamesDiffer
    <3>2. CASE e # None
      <4>1. p = With(about, ErrorName, e)
        BY <2>p, <3>2
      <4>2. /\ IsFiniteSet(DOMAIN p) /\ \A n : n \in DOMAIN p <=> n \in DOMAIN about \/ n = ErrorName
            /\ p[ErrorName] = e
            /\ \A n \in DOMAIN about : n # ErrorName => p[n] = about[n]
        BY <2>3, <4>1, WithGives
      <4> QED
        BY <2>3, <3>2, <4>2, NamesDiffer
    <3> QED
      BY <3>1, <3>2
  <2>5. IsQuery(q) /\ Range(q) = {Item(n, p[n]) : n \in DOMAIN p}
    BY <2>4, <2>q, Written
  <2>6. \A i \in Range(q) : i.name \in DOMAIN p /\ i.value = p[i.name]
    BY <2>5 DEF Item
  <2>7. /\ msg'.at = "login_page" /\ msg'.from = "site"
        /\ msg' = [at |-> msg'.at, from |-> msg'.from, method |-> msg'.method, type |-> msg'.type,
                   args |-> msg'.args, body |-> msg'.body]
        /\ msg'.method \in {"GET", "POST"} /\ msg'.type \in {"form", None}
        /\ IsQuery(msg'.args) /\ IsQuery(msg'.body)
        /\ msg'.method = "GET" => msg'.body = <<>>
        /\ \A n \in DOMAIN Wire(msg') : \E i \in Range(q) : i.name = n /\ i.value = Wire(msg')[n]
        /\ \A i \in Range(q) :
             (\A j \in Range(q) : j.name = i.name => j.value \notin {None, Empty})
               => i.name \in DOMAIN Wire(msg')
    BY <2>1, <2>5, Delivered
  <2>8. MessageOK(msg')
    BY <2>7 DEF MessageOK
  <2>9. \A n \in DOMAIN Wire(msg') : n \in DOMAIN p /\ Wire(msg')[n] = p[n]
    BY <2>6, <2>7
  <2>10. Referrer \in DOMAIN Wire(msg')
    <3>1. Item(Referrer, url) \in Range(q) /\ Item(Referrer, url).name = Referrer
      BY <2>4, <2>5 DEF Item
    <3>2. url \notin {None, Empty}
      BY <1>1, <1>u, UrlIsValue
    <3>3. \A j \in Range(q) : j.name = Referrer => j.value = url
      BY <2>4, <2>6
    <3> QED
      BY <2>7, <3>1, <3>2, <3>3
  <2>11. /\ CleanUrl(Wire(msg')[Referrer])
         /\ ErrorName \in DOMAIN Wire(msg') => Wire(msg')[ErrorName] \in Errors
    BY <1>1, <1>u, <2>4, <2>9, <2>10
  <2>12. Addresses'
    <3>1. msg'.at = "login_page" /\ (msg'.method = "GET" => msg'.body = <<>>)
      BY <2>7
    <3>2. Received' = Wire(msg')
      BY ReceivedIs
    <3>3. CleanUrl(Received[Referrer])'
      BY <2>11, <3>2 DEF CleanUrl
    <3> QED
      BY <2>10, <2>11, <3>1, <3>2, <3>3 DEF Addresses
  <2>13. Shown
    <3>1. Address' = Received'[Referrer]
      BY <2>7 DEF Address
    <3>2. Received'[Referrer] = url
      BY <2>4, <2>9, <2>10, ReceivedIs
    <3> QED
      BY <1>u, <2>7, <3>1, <3>2 DEF Shown
  <2> QED
    BY <1>1, <2>7, <2>8, <2>12, <2>13, AwayInv
<1> QED
  BY <1>2, <1>3

\* What the provider is to be asked for.
LEMMA AxRequestGives ==
  ASSUME NEW c, IsFiniteSet(Range(c.ax_attrs)),
         NEW ext, IsFiniteSet(DOMAIN ext), \A n \in DOMAIN ext : Len(n) > 2 /\ n # AxNs("ax"),
         NEW r, r = AxRequest(c, ext)
  PROVE  /\ IsFiniteSet(DOMAIN r)
         /\ \A n \in DOMAIN r : Len(n) > 2
         /\ AxNs("ax") \in DOMAIN r =>
              /\ <<"openid", "ax", "required">> \in DOMAIN r
              /\ r[<<"openid", "ax", "required">>] = c.ax_attrs
<1> DEFINE required == <<"openid", "ax", "required">>
           mode == <<"openid", "ax", "mode">>
<1>1. CASE ~c.use_ax
  BY <1>1 DEF AxRequest
<1>2. CASE c.use_ax
  <2>t. PICK types : types = AxTypes(c)
    OBVIOUS
  <2>1. IsFiniteSet(DOMAIN types) /\ \A n \in DOMAIN types : Len(n) > 2
    <3> DEFINE f == [a \in Range(c.ax_attrs) |-> <<"openid", "ax", "type", a>>]
    <3>1. IsFiniteSet({f[a] : a \in Range(c.ax_attrs)})
      BY ImageFinite
    <3>2. DOMAIN types = {<<"openid", "ax", "type", a>> : a \in Range(c.ax_attrs)}
      BY <2>t DEF AxTypes
    <3>3. {f[a] : a \in Range(c.ax_attrs)} = {<<"openid", "ax", "type", a>> : a \in Range(c.ax_attrs)}
      OBVIOUS
    <3>4. \A a : Len(<<"openid", "ax", "type", a>>) > 2
      OBVIOUS
    <3> QED
      BY <3>1, <3>2, <3>3, <3>4
  <2>s. PICK s : s = Assigned(ext, types)
    OBVIOUS
  <2>2. IsFiniteSet(DOMAIN s) /\ \A n \in DOMAIN s : Len(n) > 2
    <3>1. IsFiniteSet(DOMAIN s) /\ DOMAIN s = DOMAIN ext \cup DOMAIN types
      BY <2>1, <2>s, AssignedIs
    <3> QED
      BY <2>1, <3>1
  <2>n. PICK ns : ns = AxNs("ax")
    OBVIOUS
  <2>w. PICK w : w = With(s, ns, "AX_NAMESPACE")
    OBVIOUS
  <2>3. IsFiniteSet(DOMAIN w) /\ \A n : n \in DOMAIN w <=> n \in DOMAIN s \/ n = ns
    BY <2>2, <2>w, WithGives
  <2>m. PICK m : m = mode
    OBVIOUS
  <2>x. PICK x : x = With(w, m, "fetch_request")
    OBVIOUS
  <2>4. IsFiniteSet(DOMAIN x) /\ \A n : n \in DOMAIN x <=> n \in DOMAIN w \/ n = m
    BY <2>3, <2>x, WithGives
  <2>r. PICK q : q = required
    OBVIOUS
  <2>5. r = With(x, q, c.ax_attrs)
    BY <1>2, <2>t, <2>s, <2>n, <2>w, <2>m, <2>x, <2>r DEF AxRequest
  <2>6. /\ IsFiniteSet(DOMAIN r) /\ \A n : n \in DOMAIN r <=> n \in DOMAIN x \/ n = q
        /\ r[q] = c.ax_attrs
    BY <2>4, <2>5, WithGives
  <2>7. Len(ns) > 2 /\ Len(m) > 2 /\ Len(q) > 2
    BY <2>n, <2>m, <2>r, AxNsIs
  <2> HIDE DEF required, mode
  <2>8. \A n \in DOMAIN r : Len(n) > 2
    BY <2>2, <2>3, <2>4, <2>6, <2>7
  <2>9. required \in DOMAIN r /\ r[required] = c.ax_attrs
    BY <2>6, <2>r
  <2> QED
    BY <2>6, <2>8, <2>9 DEF required
<1> QED
  BY <1>1, <1>2

LEMMA ReturnToIs ==
  ASSUME Inv, msg.at = "site", ~(cookie /\ conf.use_cookie), NEW p \in GetRequestParams(msg)
  PROVE  ReturnUrl(ReturnToUrl(p), attempt + 1)
<1>1. /\ MessageOK(msg) /\ CleanUrl(FullUri(msg, TRUE))
      /\ \A i \in Range(msg.args) \cup Range(msg.body) : Familiar(i)
  BY Handled
<1>2. /\ IsFiniteSet(DOMAIN p)
      /\ \A n \in DOMAIN p : \E i \in Range(msg.args) \cup Range(msg.body) :
           i.name = n /\ p[n] \in ReadAs(i)
  BY <1>1, ParamsOf
<1>o. PICK own : own = RemoveOpenIdVars(p)
  OBVIOUS
<1>3. IsFiniteSet(DOMAIN own) /\ \A n \in DOMAIN own : n \in DOMAIN p /\ ~IsOpenIdVar(n) /\ own[n] = p[n]
  <2>1. /\ DOMAIN own = {n \in DOMAIN p : ~IsOpenIdVar(n)}
        /\ own = [n \in DOMAIN own |-> p[n]]
        /\ IsFiniteSet(DOMAIN own)
    <3>1. IsFiniteSet(DOMAIN p)
      BY <1>2
    <3> QED
      BY ONLY <1>o, <3>1, RemovedIs
  <2> QED
    BY <2>1
<1>n. PICK named : named = With(own, Nonce, attempt + 1)
  OBVIOUS
<1>4. /\ IsFiniteSet(DOMAIN named) /\ \A n : n \in DOMAIN named <=> n \in DOMAIN own \/ n = Nonce
      /\ named[Nonce] = attempt + 1
      /\ \A n \in DOMAIN own : n # Nonce => named[n] = own[n]
  BY <1>3, <1>n, WithGives
<1>q. PICK q : q = Query(named)
  OBVIOUS
<1>5. IsQuery(q) /\ Range(q) = {Item(n, named[n]) : n \in DOMAIN named}
  BY <1>4, <1>q, Written
<1>u. PICK url : url = FullUri(msg, TRUE)
  OBVIOUS
<1>6. CleanUrl(url) /\ IsQuery(url)
  <2>1. CleanUrl(url)
    BY <1>1, <1>u
  <2> QED
    BY <2>1 DEF CleanUrl
<1>s. PICK s : s = url \o q
  OBVIOUS
<1>7. ReturnToUrl(p) = s
  BY <1>o, <1>n, <1>q, <1>u, <1>s DEF ReturnToUrl
<1>8. IsQuery(s) /\ Range(s) = Range(url) \cup Range(q)
  BY <1>5, <1>6, <1>s, Concatenated
<1>9. Item(Nonce, attempt + 1) \in Range(q)
  BY <1>4, <1>5
<1>10. ASSUME NEW i \in Range(url) \cup Range(q), i # Item(Nonce, attempt + 1)
       PROVE  ~IsOpenIdVar(i.name) /\ i \in UserItems
  <2>1. CASE i \in Range(url)
    BY <1>6, <2>1, CleanItem
  <2>2. CASE i \in Range(q)
    <3>1. PICK n \in DOMAIN named : i = Item(n, named[n])
      BY <1>5, <2>2
    <3>2. n # Nonce
      BY <1>4, <1>10, <3>1
    <3>3. n \in DOMAIN p /\ ~IsOpenIdVar(n) /\ named[n] = p[n]
      BY <1>3, <1>4, <3>2
    <3>4. PICK j \in Range(msg.args) \cup Range(msg.body) : j.name = n /\ p[n] \in ReadAs(j)
      BY <1>2, <3>3
    <3>5. Item(n, p[n]) \in UserItems
      BY <1>1, <3>3, <3>4, FamiliarRead
    <3>6. i.name = n
      BY <3>1 DEF Item
    <3> QED
      BY <3>1, <3>3, <3>5, <3>6
  <2> QED
    BY <2>1, <2>2
<1>11. ReturnUrl(s, attempt + 1)
  BY <1>8, <1>9, <1>10 DEF ReturnUrl
<1> QED
  BY <1>7, <1>11

\* The provider is given the address to answer to.
Sent(p) == msg'.at = "provider" /\ attempt' = attempt + 1 /\ Address' = ReturnToUrl(p)

LEMMA AskProviderInv ==
  ASSUME Inv, msg.at = "site", ~(cookie /\ conf.use_cookie), NEW p \in GetRequestParams(msg),
         section' = section, directives' = directives, conf' = conf, cookie' = cookie,
         responded' = responded, attempt < MaxLogins, attempt' = attempt + 1,
         alive' = alive \cup {attempt'},
         msg' \in HttpRedirect("provider",
           Query(With(With(NoParams, Mode, "checkid_setup"), ReturnTo, ReturnToUrl(p)))
           \o Query(AxRequest(conf, GetExtensionParams(p))))
  PROVE  Inv' /\ Sent(p)
<1>1. /\ MessageOK(msg) /\ ~cookie
      /\ \A i \in Range(msg.args) \cup Range(msg.body) : Familiar(i)
  BY Handled
<1>2. /\ IsFiniteSet(DOMAIN p)
      /\ \A n \in DOMAIN p : \E i \in Range(msg.args) \cup Range(msg.body) :
           i.name = n /\ p[n] \in ReadAs(i)
  BY <1>1, ParamsOf
<1>a. /\ attempt' \in 1 .. MaxLogins /\ alive' \subseteq 1 .. attempt'
  BY BoundAssumption DEF Inv, Shape
<1>u. PICK url : url = ReturnToUrl(p)
  OBVIOUS
<1>3. ReturnUrl(url, attempt') /\ url \notin {None, Empty}
  <2>1. ReturnUrl(url, attempt')
    BY <1>u, ReturnToIs
  <2> QED
    BY <1>a, <2>1, UrlIsValue
<1>e. PICK ext : ext = GetExtensionParams(p)
  OBVIOUS
<1>4. IsFiniteSet(DOMAIN ext) /\ \A n \in DOMAIN ext : Len(n) > 2 /\ n # AxNs("ax")
  <2>1. IsFiniteSet(DOMAIN ext) /\ DOMAIN ext = {n \in DOMAIN p : Len(n) > 2}
    BY <1>2, <1>e, ExtensionsIs
  <2>2. \A n \in DOMAIN p : n # AxNs("ax")
    BY <1>1, <1>2 DEF Familiar
  <2> QED
    BY <2>1, <2>2
<1>r. PICK ask : ask = AxRequest(conf, ext)
  OBVIOUS
<1>n. PICK required : required = <<"openid", "ax", "required">>
  OBVIOUS
<1>5. /\ IsFiniteSet(DOMAIN ask) /\ \A n \in DOMAIN ask : Len(n) > 2
      /\ AxNs("ax") \in DOMAIN ask => required \in DOMAIN ask /\ ask[required] = conf.ax_attrs
  <2>1. IsFiniteSet(Range(conf.ax_attrs))
    BY RangeFinite DEF Inv, ConfOK
  <2> QED
    BY <1>4, <1>r, <1>n, <2>1, AxRequestGives
<1>m. PICK moded : moded = With(NoParams, Mode, "checkid_setup")
  OBVIOUS
<1>6. IsFiniteSet(DOMAIN moded) /\ \A n : n \in DOMAIN moded <=> n = Mode
  <2>1. PICK none : none = NoParams /\ IsFiniteSet(DOMAIN none) /\ \A n : n \notin DOMAIN none
    BY NoParamsIs
  <2>2. moded = With(none, Mode, "checkid_setup")
    BY <1>m, <2>1
  <2> QED
    BY <2>1, <2>2, WithGives
<1>h. PICK head : head = With(moded, ReturnTo, url)
  OBVIOUS
<1>7. /\ IsFiniteSet(DOMAIN head) /\ \A n : n \in DOMAIN head <=> n = Mode \/ n = ReturnTo
      /\ head[ReturnTo] = url
  BY <1>6, <1>h, WithGives
<1>x. PICK qh : qh = Query(head)
  OBVIOUS
<1>y. PICK qa : qa = Query(ask)
  OBVIOUS
<1>z. PICK q : q = qh \o qa
  OBVIOUS
<1>8. msg' \in HttpRedirect("provider", q)
  BY <1>u, <1>e, <1>r, <1>m, <1>h, <1>x, <1>y, <1>z
<1>9. IsQuery(qh) /\ Range(qh) = {Item(n, head[n]) : n \in DOMAIN head}
  BY <1>7, <1>x, Written
<1>10. IsQuery(qa) /\ Range(qa) = {Item(n, ask[n]) : n \in DOMAIN ask}
  BY <1>5, <1>y, Written
<1>11. IsQuery(q) /\ Range(q) = Range(qh) \cup Range(qa)
  BY <1>9, <1>10, <1>z, Concatenated
<1>12. ASSUME NEW i \in Range(q)
       PROVE  \/ i.name \in {Mode, ReturnTo} /\ i.value = head[i.name]
              \/ i.name \in DOMAIN ask /\ i.value = ask[i.name]
  <2>1. CASE i \in Range(qh)
    <3>1. PICK n \in DOMAIN head : i = Item(n, head[n])
      BY <1>9, <2>1
    <3> QED
      BY <1>7, <3>1 DEF Item
  <2>2. CASE i \in Range(qa)
    <3>1. PICK n \in DOMAIN ask : i = Item(n, ask[n])
      BY <1>10, <2>2
    <3> QED
      BY <3>1 DEF Item
  <2> QED
    BY <1>11, <2>1, <2>2
<1>13. \A n \in {Mode, ReturnTo} : n \notin DOMAIN ask
  <2>1. Len(Mode) = 2 /\ Len(ReturnTo) = 2
    BY NamesDiffer
  <2>2. ASSUME NEW n \in DOMAIN ask, Len(n) = 2
        PROVE  FALSE
    <3>1. Len(n) > 2
      BY <1>5
    <3>2. 2 > 2
      BY <2>2, <3>1
    <3> QED
      BY <3>2
  <2> QED
    BY <2>1, <2>2
<1>14. /\ msg'.at = "provider" /\ msg'.from = "site"
       /\ msg' = [at |-> msg'.at, from |-> msg'.from, method |-> msg'.method, type |-> msg'.type,
                  args |-> msg'.args, body |-> msg'.body]
       /\ msg'.method \in {"GET", "POST"} /\ msg'.type \in {"form", None}
       /\ IsQuery(msg'.args) /\ IsQuery(msg'.body)
       /\ msg'.method = "GET" => msg'.body = <<>>
       /\ \A n \in DOMAIN Wire(msg') : \E i \in Range(q) : i.name = n /\ i.value = Wire(msg')[n]
       /\ \A i \in Range(q) :
            (\A j \in Range(q) : j.name = i.name => j.value \notin {None, Empty})
              => i.name \in DOMAIN Wire(msg')
  BY <1>8, <1>11, Delivered
<1>15. MessageOK(msg')
  BY <1>14 DEF MessageOK
<1>16. ReturnTo \in DOMAIN Wire(msg') /\ Wire(msg')[ReturnTo] = url
  <2>1. Item(ReturnTo, url) \in Range(q) /\ Item(ReturnTo, url).name = ReturnTo
    BY <1>7, <1>9, <1>11 DEF Item
  <2>2. \A j \in Range(q) : j.name = ReturnTo => j.value = url
    BY <1>7, <1>12, <1>13
  <2> QED
    BY <1>3, <1>14, <2>1, <2>2
<1>17. ASSUME AxNs("ax") \in DOMAIN Wire(msg')
       PROVE  required \in DOMAIN Wire(msg') /\ Wire(msg')[required] = conf.ax_attrs
  <2>1. AxNs("ax") \notin {Mode, ReturnTo} /\ required \notin {Mode, ReturnTo}
    BY <1>n DEF AxNs, Mode, ReturnTo
  <2>2. AxNs("ax") \in DOMAIN ask
    BY <1>12, <1>14, <1>17, <2>1
  <2>3. required \in DOMAIN ask /\ ask[required] = conf.ax_attrs
    BY <1>5, <2>2
  <2>4. Item(required, ask[required]) \in Range(q) /\ Item(required, ask[required]).name = required
    BY <1>10, <1>11, <2>3 DEF Item
  <2>5. \A j \in Range(q) : j.name = required => j.value = conf.ax_attrs
    BY <1>12, <2>1, <2>3
  <2>6. conf.ax_attrs \notin {None, Empty}
    BY SentinelAssumption DEF Inv, ConfOK
  <2> QED
    BY <1>14, <2>4, <2>5, <2>6
<1>18. Addresses'
  <2>1. msg'.at = "provider" /\ (msg'.method = "GET" => msg'.body = <<>>)
    BY <1>14
  <2>2. Received' = Wire(msg')
    BY ReceivedIs
  <2>3. ReturnUrl(Received[ReturnTo], attempt)'
    BY <1>3, <1>16, <2>2 DEF ReturnUrl
  <2> QED
    BY <1>16, <1>17, <1>n, <2>1, <2>2, <2>3 DEF Addresses
<1>19. Sent(p)
  <2>1. Address' = Received'[ReturnTo]
    BY <1>14 DEF Address
  <2>2. Received'[ReturnTo] = url
    BY <1>16, ReceivedIs
  <2> QED
    BY <1>u, <1>14, <2>1, <2>2 DEF Sent
<1> QED
  BY <1>1, <1>a, <1>14, <1>15, <1>18, <1>19, AwayInv

LEMMA StartInv ==
  ASSUME Inv, msg.at = "site", ~(cookie /\ conf.use_cookie), NEW p \in GetRequestParams(msg),
         section' = section, directives' = directives, conf' = conf, responded' = responded,
         StartAuthentication(p)
  PROVE  Inv' /\ (Shown \/ Sent(p))
<1>1. cookie' = cookie
  BY DEF StartAuthentication
<1>2. CASE /\ attempt < MaxLogins /\ attempt' = attempt + 1 /\ alive' = alive \cup {attempt'}
           /\ ShowInput("idp_not_trusted")
  <2>1. attempt' \in 0 .. MaxLogins /\ alive' \subseteq 1 .. attempt'
    BY <1>2, BoundAssumption DEF Inv, Shape
  <2>2. "idp_not_trusted" \in Errors
    BY DEF Errors
  <2> QED
    BY <1>1, <1>2, <2>1, <2>2, ShowInputInv
<1>3. CASE /\ attempt < MaxLogins /\ attempt' = attempt + 1 /\ alive' = alive \cup {attempt'}
           /\ msg' \in HttpRedirect("provider",
                Query(With(With(NoParams, Mode, "checkid_setup"), ReturnTo, ReturnToUrl(p)))
                \o Query(AxRequest(conf, GetExtensionParams(p))))
  BY <1>1, <1>3, AskProviderInv
<1>4. CASE /\ \E e \in {"invalid_id", "no_idp_found"} : ShowInput(e)
           /\ attempt' = attempt /\ alive' = alive
  <2>1. PICK e \in {"invalid_id", "no_idp_found"} : ShowInput(e)
    BY <1>4
  <2>2. e \in Errors
    BY DEF Errors
  <2>3. attempt' \in 0 .. MaxLogins /\ alive' \subseteq 1 .. attempt'
    BY <1>4 DEF Inv, Shape
  <2> QED
    BY <1>1, <2>1, <2>2, <2>3, ShowInputInv
<1> QED
  BY <1>2, <1>3, <1>4 DEF StartAuthentication

--------------------------------------------------------------------------------
(* A login that is let in.                                                 *)

LEMMA AxErrorIs ==
  ASSUME NEW c, NEW p
  PROVE  AxError(c, p) \in {None, "ax_bad_response", "unauthorized"}
<1> DEFINE first == SelectInSeq(c.ax_attrs, LAMBDA a : ~AxMatches(c, p, a))
           named == /\ c.ax_username_attr \in Range(c.ax_attrs)
                    /\ p[AxValue(p, c.ax_username_attr)] # Empty
<1>1. AxError(c, p) =
        CASE ~c.use_ax -> None
          [] c.use_ax /\ AxSpaces(p) = {} -> "ax_bad_response"
          [] c.use_ax /\ AxSpaces(p) # {} /\ first # 0 ->
               IF AxValue(p, c.ax_attrs[first]) \in DOMAIN p THEN "unauthorized" ELSE "ax_bad_response"
          [] OTHER -> IF c.use_ax_username /\ ~named THEN "unauthorized" ELSE None
  BY DEF AxError
<1> HIDE DEF first, named
<1> QED
  BY <1>1

LEMMA NoneMissing ==
  ASSUME NEW c, c.ax_attrs \in Seq(Alias), c.use_ax, NEW p, AxError(c, p) = None,
         NEW a \in Range(c.ax_attrs)
  PROVE  AxMatches(c, p, a)
<1> DEFINE first == SelectInSeq(c.ax_attrs, LAMBDA b : ~AxMatches(c, p, b))
           named == /\ c.ax_username_attr \in Range(c.ax_attrs)
                    /\ p[AxValue(p, c.ax_username_attr)] # Empty
           I == {i \in 1 .. Len(c.ax_attrs) : ~AxMatches(c, p, c.ax_attrs[i])}
<1>1. AxError(c, p) =
        CASE ~c.use_ax -> None
          [] c.use_ax /\ AxSpaces(p) = {} -> "ax_bad_response"
          [] c.use_ax /\ AxSpaces(p) # {} /\ first # 0 ->
               IF AxValue(p, c.ax_attrs[first]) \in DOMAIN p THEN "unauthorized" ELSE "ax_bad_response"
          [] OTHER -> IF c.use_ax_username /\ ~named THEN "unauthorized" ELSE None
  BY DEF AxError
<1>2. first = IF I # {} THEN Min(I) ELSE 0
  BY DEF SelectInSeq
<1>3. I \subseteq Nat /\ 0 \notin I
  OBVIOUS
<1>4. PICK k \in 1 .. Len(c.ax_attrs) : a = c.ax_attrs[k]
  BY DEF Range
<1>5. ~AxMatches(c, p, a) => I # {}
  BY <1>4
<1> HIDE DEF I, named, first
<1>6. None # "ax_bad_response" /\ None # "unauthorized"
  BY SentinelAssumption DEF Errors
<1>7. first = 0
  BY <1>1, <1>6
<1>8. ASSUME I # {}
      PROVE  FALSE
  <2>1. PICK m \in Nat : m + 1 \in I /\ \A j \in 0 .. m : j \notin I
    BY <1>3, <1>8, FirstFailure
  <2>2. \A i \in I : m + 1 <= i
    BY <1>3, <2>1
  <2>3. Min(I) \in I
    BY <2>1, <2>2 DEF Min
  <2> QED
    BY <1>2, <1>3, <1>7, <1>8, <2>3
<1> QED
  BY <1>5, <1>8

\* Of OpenID, a response that comes by GET brings what the provider responded.
LEMMA ResponseIs ==
  ASSUME Inv, msg.at = "site", msg.from = "provider", msg.method = "GET",
         NEW p, p = ParseQueryString(msg.args), AssocHandle \in DOMAIN p
  PROVE  \A n : /\ n \in DOMAIN responded <=> n \in DOMAIN p /\ IsOpenIdVar(n) /\ Len(n) > 2
                /\ n \in DOMAIN responded => p[n] = responded[n]
<1>1. IsQuery(msg.args)
  BY DEF Inv, Shape, MessageOK
<1>2. /\ \A n \in DOMAIN p : \E i \in Range(msg.args) : i.name = n /\ i.value = p[n] /\ i.value # None
      /\ \A i \in Range(msg.args) : i.value # None /\ Len(msg.args) # 1 => i.name \in DOMAIN p
  BY <1>1, Parsed
<1>3. /\ \A i \in Range(msg.args) : AnswerItem(i)
      /\ Len(msg.args) # 1
      /\ (\E i \in Range(msg.args) : i.name = AssocHandle) =>
           \A n \in DOMAIN responded : \E i \in Range(msg.args) : i.name = n
  <2>1. /\ \A i \in Range(msg.args) : AnswerItem(i)
        /\ Len(msg.args) > 1
        /\ (\E i \in Range(msg.args) : i.name = AssocHandle) =>
             \A n \in DOMAIN responded : \E i \in Range(msg.args) : i.name = n
    BY DEF Inv, Answers
  <2>2. ASSUME Len(msg.args) = 1
        PROVE  FALSE
    <3>1. 1 > 1
      BY <2>1, <2>2
    <3> QED
      BY <3>1
  <2> QED
    BY <2>1, <2>2
<1>4. \A n \in DOMAIN responded : /\ Len(n) > 2 /\ IsOpenIdVar(n)
                                  /\ n \notin {Mode, AssocHandle, Nonce}
                                  /\ responded[n] # None
  BY DEF Inv, Responded
<1>5. ASSUME NEW n \in DOMAIN p, IsOpenIdVar(n), Len(n) > 2
      PROVE  n \in DOMAIN responded /\ p[n] = responded[n]
  <2>1. PICK i \in Range(msg.args) : i.name = n /\ i.value = p[n]
    BY <1>2
  <2>2. AnswerItem(i)
    BY <1>3
  <2>3. Len(Mode) = 2 /\ Len(AssocHandle) = 2 /\ Len(Nonce) = 2
    BY NamesDiffer
  <2>4. n \notin {Mode, AssocHandle, Nonce}
    <3>1. Len(n) # 2
      <4>1. ASSUME Len(n) = 2
            PROVE  FALSE
        <5>1. 2 > 2
          BY <1>5, <4>1
        <5> QED
          BY <5>1
      <4> QED
        BY <4>1
    <3> QED
      BY <2>3, <3>1
  <2> QED
    BY <1>5, <2>1, <2>2, <2>4 DEF AnswerItem
<1>6. ASSUME NEW n \in DOMAIN responded
      PROVE  n \in DOMAIN p /\ IsOpenIdVar(n) /\ Len(n) > 2
  <2>1. \E i \in Range(msg.args) : i.name = AssocHandle
    BY <1>2
  <2>2. PICK i \in Range(msg.args) : i.name = n
    BY <1>3, <2>1
  <2>3. i.value = responded[n]
    BY <1>3, <1>4, <2>2 DEF AnswerItem
  <2> QED
    BY <1>2, <1>3, <1>4, <2>2, <2>3
<1> QED
  BY <1>5, <1>6

\* The query of the page after a login.
LEMMA PageQueryIs ==
  ASSUME Inv, msg.at = "site", msg.from = "provider", msg.method = "GET",
         NEW p, p = ParseQueryString(msg.args), AssocHandle \in DOMAIN p,
         NEW q, q = PageQuery(p)
  PROVE  /\ IsQuery(q)
         /\ \A i \in Range(q) : /\ i.name \in DOMAIN p /\ i.value = p[i.name]
                                /\ Len(i.name) > 2 \/ ~IsOpenIdVar(i.name)
         /\ ExtensionsIn(q) = responded
<1>1. IsQuery(msg.args)
  BY DEF Inv, Shape, MessageOK
<1>2. /\ IsFiniteSet(DOMAIN p)
      /\ \A n \in DOMAIN p : \E i \in Range(msg.args) : i.name = n /\ i.value = p[n] /\ i.value # None
  BY <1>1, Parsed
<1>3. \A n : /\ n \in DOMAIN responded <=> n \in DOMAIN p /\ IsOpenIdVar(n) /\ Len(n) > 2
             /\ n \in DOMAIN responded => p[n] = responded[n]
  BY ResponseIs
<1>e. PICK ext : ext = GetExtensionParams(p)
  OBVIOUS
<1>o. PICK own : own = RemoveOpenIdVars(p)
  OBVIOUS
<1>m. PICK merged : merged = Assigned(own, ext)
  OBVIOUS
<1>4. /\ DOMAIN ext = {n \in DOMAIN p : Len(n) > 2}
      /\ ext = [n \in DOMAIN ext |-> p[n]]
      /\ IsFiniteSet(DOMAIN ext)
  <2>1. IsFiniteSet(DOMAIN p)
    BY <1>2
  <2> QED
    BY ONLY <1>e, <2>1, ExtensionsIs
<1>5. /\ DOMAIN own = {n \in DOMAIN p : ~IsOpenIdVar(n)}
      /\ own = [n \in DOMAIN own |-> p[n]]
      /\ IsFiniteSet(DOMAIN own)
  <2>1. IsFiniteSet(DOMAIN p)
    BY <1>2
  <2> QED
    BY ONLY <1>o, <2>1, RemovedIs
<1>6. /\ IsFiniteSet(DOMAIN merged)
      /\ \A n : n \in DOMAIN merged <=> n \in DOMAIN own \/ n \in DOMAIN ext
      /\ \A n \in DOMAIN ext : merged[n] = ext[n]
      /\ \A n \in DOMAIN own : n \notin DOMAIN ext => merged[n] = own[n]
      /\ IsFcn(merged)
  <2>1. IsFiniteSet(DOMAIN own) /\ IsFiniteSet(DOMAIN ext)
    BY <1>4, <1>5
  <2> QED
    BY ONLY <1>m, <2>1, AssignedGives
<1>7. \A n \in DOMAIN ext : n \in DOMAIN p /\ Len(n) > 2 /\ ext[n] = p[n]
  BY <1>4
<1>8. \A n \in DOMAIN own : n \in DOMAIN p /\ ~IsOpenIdVar(n) /\ own[n] = p[n]
  BY <1>5
<1>9. \A n : n \in DOMAIN merged <=> n \in DOMAIN p /\ (Len(n) > 2 \/ ~IsOpenIdVar(n))
  BY <1>4, <1>5, <1>6
<1>10. \A n \in DOMAIN merged : merged[n] = p[n] /\ p[n] # None
  BY <1>2, <1>6, <1>7, <1>8, <1>9
<1>11. q = Query(merged)
  BY <1>e, <1>o, <1>m DEF PageQuery, MergeParams
<1>12. IsQuery(q) /\ Range(q) = {Item(n, merged[n]) : n \in DOMAIN merged}
  BY <1>6, <1>11, Written
<1>13. ASSUME NEW i \in Range(q)
       PROVE  /\ i.name \in DOMAIN merged /\ i.value = merged[i.name]
  <2>1. PICK n \in DOMAIN merged : i = Item(n, merged[n])
    BY <1>12
  <2> QED
    BY <2>1 DEF Item
<1>14. ASSUME NEW i \in Range(q)
       PROVE  /\ i.name \in DOMAIN p /\ i.value = p[i.name]
              /\ Len(i.name) > 2 \/ ~IsOpenIdVar(i.name)
  BY <1>9, <1>10, <1>13
<1>x. PICK read : read = ParseQueryString(q)
  OBVIOUS
<1>15. /\ DOMAIN ExtensionsIn(q) = {n \in DOMAIN read : IsOpenIdVar(n)}
       /\ ExtensionsIn(q) = [n \in DOMAIN ExtensionsIn(q) |-> read[n]]
  BY <1>x DEF ExtensionsIn, RestrictDomain, Restrict
<1>16. responded = [n \in DOMAIN responded |-> responded[n]]
  BY DEF Inv, Responded
<1>17. CASE \A n \in DOMAIN merged : merged[n] = Empty => DOMAIN merged # {n}
  <2>1. read = merged
    <3>1. \A n \in DOMAIN merged : merged[n] # None
      BY <1>10
    <3>2. IsFiniteSet(DOMAIN merged) /\ merged = [n \in DOMAIN merged |-> merged[n]]
      BY <1>6 DEF IsFcn
    <3> QED
      BY <1>11, <1>17, <1>x, <3>1, <3>2, ReadBack
  <2>2. \A n : n \in DOMAIN ExtensionsIn(q) <=> n \in DOMAIN responded
    BY <1>3, <1>9, <1>15, <2>1
  <2>3. \A n \in DOMAIN responded : read[n] = responded[n]
    BY <1>3, <1>9, <1>10, <2>1
  <2>4. DOMAIN ExtensionsIn(q) = DOMAIN responded
    BY <2>2
  <2>5. ExtensionsIn(q) = [n \in DOMAIN responded |-> read[n]]
    BY <1>15, <2>4
  <2>6. ExtensionsIn(q) = [n \in DOMAIN responded |-> responded[n]]
    BY <2>3, <2>5
  <2> QED
    BY <1>12, <1>14, <1>16, <2>6
<1>18. CASE \E n \in DOMAIN merged : merged[n] = Empty /\ DOMAIN merged = {n}
  <2>1. PICK n \in DOMAIN merged : merged[n] = Empty /\ DOMAIN merged = {n}
    BY <1>18
  <2>2. DOMAIN responded \subseteq {n}
    BY <1>3, <1>9, <2>1
  <2>3. DOMAIN responded = {}
    <3>1. ASSUME n \in DOMAIN responded
          PROVE  FALSE
      <4>1. responded[n] = Empty /\ DOMAIN responded = {n}
        BY <1>3, <1>10, <2>1, <2>2, <3>1
      <4> QED
        BY <3>1, <4>1 DEF Inv, Responded
    <3> QED
      BY <2>2, <3>1
  <2>4. \A m \in DOMAIN read : m = n
    <3>1. \A m \in DOMAIN read : \E i \in Range(q) : i.name = m
      BY <1>12, <1>x, Parsed
    <3> QED
      BY <1>13, <2>1, <3>1
  <2>5. ~IsOpenIdVar(n)
    BY <1>3, <1>9, <2>1, <2>3
  <2>6. DOMAIN ExtensionsIn(q) = {}
    BY <1>15, <2>4, <2>5
  <2>7. ExtensionsIn(q) = [m \in {} |-> read[m]] /\ responded = [m \in {} |-> responded[m]]
    BY <1>15, <1>16, <2>3, <2>6
  <2> QED
    BY <1>12, <1>14, <2>7
<1> QED
  BY <1>17, <1>18

\* Only a response by GET is let in when a cookie is to be set.
LEMMA GrantedFrom ==
  ASSUME Inv, msg.at = "site", ~(cookie /\ conf.use_cookie), NEW p \in GetRequestParams(msg),
         AssocHandle \in DOMAIN p, Nonce \in DOMAIN p, conf.use_cookie \/ msg.from = "provider"
  PROVE  msg.from = "provider" /\ msg.method = "GET" /\ p = ParseQueryString(msg.args)
<1>1. MessageOK(msg) /\ msg.from \in {"user", "login_page", "provider"}
  BY Handled
<1>2. /\ \A n \in DOMAIN p : \E i \in Range(msg.args) \cup Range(msg.body) : i.name = n
      /\ msg.method = "GET" => p = ParseQueryString(msg.args)
      /\ msg.method = "POST" => \A n \in DOMAIN p : \E i \in Range(msg.body) : i.name = n
  BY <1>1, ParamsOf
<1>3. msg.from = "provider"
  <2>1. ASSUME conf.use_cookie, msg.from # "provider"
        PROVE  FALSE
    <3>1. Bare(msg.args) /\ Bare(msg.body)
      BY <2>1 DEF Inv, Cookies
    <3>2. PICK i \in Range(msg.args) \cup Range(msg.body) : i.name = AssocHandle
      BY <1>2
    <3> QED
      BY <3>1, <3>2 DEF Bare
  <2> QED
    BY <2>1
<1>4. msg.method # "POST"
  <2>1. ASSUME msg.method = "POST"
        PROVE  FALSE
    <3>1. \A i \in Range(msg.body) : i.name # Nonce
      BY <1>3, <2>1 DEF Inv, Answers
    <3> QED
      BY <1>2, <2>1, <3>1
  <2> QED
    BY <2>1
<1> QED
  BY <1>1, <1>2, <1>3, <1>4 DEF MessageOK

LEMMA AttributesOf ==
  ASSUME Inv, msg.at = "site", msg.from = "provider", msg.method = "GET",
         NEW p, p = ParseQueryString(msg.args), AssocHandle \in DOMAIN p, AxError(conf, p) = None
  PROVE  \A a \in Range(conf.ax_attrs) : \E n \in DOMAIN responded :
           /\ Len(n) = 4 /\ n[3] = "value" /\ n[4] = a
           /\ responded[n] \in conf.ax_attr_patterns[a]
<1> SUFFICES ASSUME NEW a \in Range(conf.ax_attrs)
             PROVE  \E n \in DOMAIN responded : /\ Len(n) = 4 /\ n[3] = "value" /\ n[4] = a
                                                /\ responded[n] \in conf.ax_attr_patterns[a]
  OBVIOUS
<1>1. conf.ax_attrs \in Seq(Alias) /\ conf.use_ax
  <2>1. conf.ax_attrs \in Seq(Alias) /\ (conf.use_ax <=> conf.ax_attrs # <<>>)
    BY DEF Inv, ConfOK
  <2>2. conf.ax_attrs # <<>>
    BY EmptyQuery
  <2> QED
    BY <2>1, <2>2
<1>2. AxMatches(conf, p, a)
  BY <1>1, NoneMissing
<1>n. PICK n : n = AxValue(p, a)
  OBVIOUS
<1>3. n \in DOMAIN p /\ p[n] \in conf.ax_attr_patterns[a]
  BY <1>2, <1>n DEF AxMatches
<1>4. Len(n) = 4 /\ n[1] = "openid" /\ n[3] = "value" /\ n[4] = a
  BY <1>n DEF AxValue
<1>5. IsOpenIdVar(n) /\ Len(n) > 2
  BY <1>4 DEF IsOpenIdVar
<1>6. n \in DOMAIN responded /\ p[n] = responded[n]
  BY <1>3, <1>5, ResponseIs
<1> QED
  BY <1>3, <1>4, <1>6

\* The browser is let in: it is sent to the page without what the response had
\* beside its extension parameters, or it gets the page at once.
LetIn ==
  \/ /\ msg.method = "GET" /\ msg'.at = "site" /\ msg'.method = "GET"
     /\ msg'.args = PageQuery(ParseQueryString(msg.args))
  \/ msg'.at = "page" /\ msg'.args = msg.args

LEMMA GrantedInv ==
  ASSUME Inv, msg.at = "site", ~(cookie /\ conf.use_cookie), NEW p \in GetRequestParams(msg),
         section' = section, directives' = directives, conf' = conf, responded' = responded,
         attempt' = attempt, AssocHandle \in DOMAIN p, Nonce \in DOMAIN p, Granted(p)
  PROVE  Inv' /\ LetIn
<1>1. /\ MessageOK(msg) /\ ~cookie /\ msg.from \in {"user", "login_page", "provider"}
      /\ \A i \in Range(msg.args) \cup Range(msg.body) : Familiar(i)
  BY Handled
<1>2. /\ AxError(conf, p) = None /\ alive' = alive \ {p[Nonce]} /\ cookie' = conf.use_cookie
      /\ conf.use_cookie => msg' = Get("site", "site", PageQuery(p))
      /\ ~conf.use_cookie => msg' = [msg EXCEPT !.at = "page"]
  BY DEF Granted
<1>3. /\ cookie' \in BOOLEAN /\ attempt' \in 0 .. MaxLogins /\ alive' \subseteq 1 .. attempt'
  BY <1>2 DEF Inv, ConfOK, Shape
<1>4. CASE conf.use_cookie
  <2>1. msg.from = "provider" /\ msg.method = "GET" /\ p = ParseQueryString(msg.args)
    BY <1>4, GrantedFrom
  <2>q. PICK q : q = PageQuery(p)
    OBVIOUS
  <2>2. msg' = Get("site", "site", q)
    BY <1>2, <1>4, <2>q
  <2>3. /\ msg'.at = "site" /\ msg'.from = "site" /\ msg'.method = "GET" /\ msg'.type = None
        /\ msg'.args = q /\ msg'.body = <<>>
        /\ msg' = [at |-> msg'.at, from |-> msg'.from, method |-> msg'.method, type |-> msg'.type,
                   args |-> msg'.args, body |-> msg'.body]
    BY <2>2, GetIs
  <2>4. /\ IsQuery(q)
        /\ \A i \in Range(q) : /\ i.name \in DOMAIN p /\ i.value = p[i.name]
                               /\ Len(i.name) > 2 \/ ~IsOpenIdVar(i.name)
        /\ ExtensionsIn(q) = responded
    BY <2>1, <2>q, PageQueryIs
  <2>5. MessageOK(msg')
    BY <2>3, <2>4, EmptyQuery DEF MessageOK
  <2>6. Shape'
    BY <1>3, <2>5, ShapeOf DEF Inv, Shape
  <2>7. ASSUME NEW i \in Range(q)
        PROVE  Familiar(i) /\ i.name \notin {Mode, AssocHandle, Nonce}
    <3>1. PICK j \in Range(msg.args) : j.name = i.name /\ j.value = i.value
      <4>1. IsQuery(msg.args)
        BY <1>1 DEF MessageOK
      <4>2. \A n \in DOMAIN p : \E j \in Range(msg.args) : j.name = n /\ j.value = p[n]
        BY <2>1, <4>1, Parsed
      <4> QED
        BY <2>4, <4>2
    <3>2. Familiar(i)
      BY <1>1, <3>1 DEF Familiar
    <3>3. \A n \in {Mode, AssocHandle, Nonce} : Len(n) = 2 /\ IsOpenIdVar(n)
      BY NamesDiffer
    <3>4. ASSUME i.name \in {Mode, AssocHandle, Nonce}
          PROVE  FALSE
      <4>1. Len(i.name) = 2 /\ Len(i.name) > 2
        BY <2>4, <3>3, <3>4
      <4>2. 2 > 2
        BY <4>1
      <4> QED
        BY <4>2
    <3> QED
      BY <3>2, <3>4
  <2>8. Addresses'
    <3>1. msg'.at = "site" /\ msg'.args = q /\ msg'.body = <<>> /\ Range(<<>>) = {}
      BY <2>3, EmptyQuery
    <3> QED
      BY <2>7, <3>1 DEF Addresses, Familiar
  <2>9. Cookies'
    <3>1. Bare(msg'.args) /\ Bare(msg'.body)
      BY <2>3, <2>7, EmptyQuery DEF Bare
    <3> QED
      BY <1>2, <1>4, <2>3, <3>1 DEF Cookies
  <2>10. Answers'
    BY <2>3 DEF Answers
  <2>11. AttributesHeld'
    <3>1. \A a \in Range(conf.ax_attrs) : \E n \in DOMAIN responded :
            /\ Len(n) = 4 /\ n[3] = "value" /\ n[4] = a
            /\ responded[n] \in conf.ax_attr_patterns[a]
      BY <1>2, <2>1, AttributesOf
    <3> QED
      BY <3>1 DEF AttributesHeld
  <2>12. ExtensionsOfThisLogin'
    <3>1. ExtensionsIn(msg'.args) = responded'
      BY <2>3, <2>4
    <3> QED
      BY <3>1, ExtensionsAre
  <2>13. LetIn
    BY <2>1, <2>3, <2>q DEF LetIn
  <2>14. Inv'
    BY <2>6, <2>8, <2>9, <2>10, <2>11, <2>12, ConfKept, ResponseKept DEF Inv
  <2> QED
    BY <2>13, <2>14
<1>5. CASE ~conf.use_cookie
  <2>1. /\ msg'.at = "page" /\ msg'.from = msg.from /\ msg'.method = msg.method /\ msg'.type = msg.type
        /\ msg'.args = msg.args /\ msg'.body = msg.body
        /\ msg' = [at |-> msg'.at, from |-> msg'.from, method |-> msg'.method, type |-> msg'.type,
                   args |-> msg'.args, body |-> msg'.body]
    BY <1>1, <1>2, <1>5 DEF MessageOK
  <2>2. MessageOK(msg')
    BY <1>1, <2>1 DEF MessageOK
  <2>3. Shape'
    BY <1>3, <2>2, ShapeOf DEF Inv, Shape
  <2>4. Addresses'
    <3>1. msg.method = "GET" => msg.body = <<>>
      BY DEF Inv, Addresses
    <3>2. \A i \in Range(msg'.args) \cup Range(msg'.body) : Familiar(i)
      BY <1>1, <2>1
    <3>3. msg'.at = "page" /\ (msg'.method = "GET" => msg'.body = <<>>)
      BY <2>1, <3>1
    <3> QED
      BY <3>2, <3>3 DEF Addresses, Familiar
  <2>5. ~cookie'
    BY <1>2, <1>5
  <2>6. Cookies'
    BY <1>1, <1>5, <2>1, <2>5 DEF Cookies
  <2>7. Answers'
    BY <2>1 DEF Answers
  <2>8. AfterLogin' => msg.from = "provider"
    BY <1>1, <2>1 DEF AfterLogin
  <2>9. AttributesHeld'
    <3>1. ASSUME msg.from = "provider"
          PROVE  \A a \in Range(conf.ax_attrs) : \E n \in DOMAIN responded :
                   /\ Len(n) = 4 /\ n[3] = "value" /\ n[4] = a
                   /\ responded[n] \in conf.ax_attr_patterns[a]
      <4>1. msg.method = "GET" /\ p = ParseQueryString(msg.args)
        BY <3>1, GrantedFrom
      <4> QED
        BY <1>2, <3>1, <4>1, AttributesOf
    <3> QED
      BY <2>8, <3>1 DEF AttributesHeld
  <2>10. ExtensionsOfThisLogin'
    BY <1>5, ExtensionsAre
  <2>11. LetIn
    BY <2>1 DEF LetIn
  <2>12. Inv'
    BY <2>3, <2>4, <2>6, <2>7, <2>9, <2>10, ConfKept, ResponseKept DEF Inv
  <2> QED
    BY <2>11, <2>12
<1> QED
  BY <1>4, <1>5

LEMMA RefusedInv ==
  ASSUME Inv, msg.at = "site", ~(cookie /\ conf.use_cookie), NEW p,
         section' = section, directives' = directives, conf' = conf, responded' = responded,
         attempt' = attempt, Refused(p)
  PROVE  Inv' /\ Shown
<1>1. cookie' = cookie /\ alive' = alive
  BY DEF Refused
<1>2. attempt' \in 0 .. MaxLogins /\ alive' \subseteq 1 .. attempt'
  BY <1>1 DEF Inv, Shape
<1>3. PICK e \in Errors \cup {None} : ShowInput(e)
  <2>1. {"unspecified", "invalid_nonce", "unauthorized", "ax_bad_response"} \subseteq Errors
    BY DEF Errors
  <2>2. AxError(conf, p) \in Errors \cup {None}
    BY <2>1, AxErrorIs
  <2> QED
    BY <2>1, <2>2 DEF Refused
<1> QED
  BY <1>1, <1>2, <1>3, ShowInputInv

LEMMA HandleRequestInv ==
  ASSUME Inv, HandleRequest
  PROVE  Inv' /\ (Shown \/ LetIn \/ \E p \in GetRequestParams(msg) : Sent(p))
<1>a. /\ msg.at = "site" /\ ~(cookie /\ conf.use_cookie)
      /\ section' = section /\ directives' = directives /\ conf' = conf /\ responded' = responded
  BY DEF HandleRequest
<1>1. PICK p \in GetRequestParams(msg) :
        \/ AssocHandle \in DOMAIN p /\ ValidateAuthentication(p)
        \/ \E e \in {None, "canceled"} :
             ShowInput(e) /\ cookie' = cookie /\ attempt' = attempt /\ alive' = alive
        \/ StartAuthentication(p)
  BY DEF HandleRequest
<1>2. CASE AssocHandle \in DOMAIN p /\ ValidateAuthentication(p)
  <2>1. attempt' = attempt
    BY <1>2 DEF ValidateAuthentication
  <2>2. CASE Nonce \in DOMAIN p
    <3>1. Granted(p) \/ Refused(p)
      BY <1>2, <2>2 DEF ValidateAuthentication
    <3> QED
      BY <1>a, <1>2, <2>1, <2>2, <3>1, GrantedInv, RefusedInv
  <2>3. CASE Nonce \notin DOMAIN p
    <3>1. ShowInput("invalid_nonce") /\ cookie' = cookie /\ alive' = alive
      BY <1>2, <2>3 DEF ValidateAuthentication
    <3>2. "invalid_nonce" \in Errors
      BY DEF Errors
    <3>3. attempt' \in 0 .. MaxLogins /\ alive' \subseteq 1 .. attempt'
      BY <2>1, <3>1 DEF Inv, Shape
    <3> QED
      BY <1>a, <3>1, <3>2, <3>3, ShowInputInv
  <2> QED
    BY <2>2, <2>3
<1>3. CASE \E e \in {None, "canceled"} :
             ShowInput(e) /\ cookie' = cookie /\ attempt' = attempt /\ alive' = alive
  <2>1. PICK e \in {None, "canceled"} :
          ShowInput(e) /\ cookie' = cookie /\ attempt' = attempt /\ alive' = alive
    BY <1>3
  <2>2. e \in Errors \cup {None}
    BY DEF Errors
  <2>3. attempt' \in 0 .. MaxLogins /\ alive' \subseteq 1 .. attempt'
    BY <2>1 DEF Inv, Shape
  <2> QED
    BY <1>a, <2>1, <2>2, <2>3, ShowInputInv
<1>4. CASE StartAuthentication(p)
  BY <1>a, <1>4, StartInv
<1> QED
  BY <1>1, <1>2, <1>3, <1>4

LEMMA StutterInv ==
  ASSUME Inv, UNCHANGED vars
  PROVE  Inv'
<1>1. /\ section' = section /\ directives' = directives /\ conf' = conf /\ msg' = msg
      /\ cookie' = cookie /\ attempt' = attempt /\ alive' = alive /\ responded' = responded
  BY DEF vars, tripVars
<1>2. ConfOK' /\ Responded'
  BY <1>1, ConfKept, ResponseKept DEF Inv
<1>3. Shape'
  BY <1>1 DEF Inv, Shape
<1>4. Addresses'
  BY <1>1 DEF Inv, Addresses, Received
<1>5. Cookies' /\ Answers'
  BY <1>1 DEF Inv, Cookies, Answers, AnswerItem
<1>6. AfterLogin' = AfterLogin
  BY <1>1 DEF AfterLogin
<1>7. AttributesHeld'
  BY <1>1, <1>6 DEF Inv, AttributesHeld
<1>8. ExtensionsOfThisLogin'
  BY <1>1, <1>6, ExtensionsAre DEF Inv, ExtensionsIn
<1> QED
  BY <1>2, <1>3, <1>4, <1>5, <1>7, <1>8 DEF Inv

LEMMA StepInv ==
  ASSUME Inv, [Next]_vars
  PROVE  Inv'
<1>1. CASE ReadDirective \/ Serve
  BY <1>1, ReadDirectiveInv, ServeInv
<1>2. CASE AskForPage \/ Reload \/ FillIn
  BY <1>2, AskForPageInv, ReloadInv, FillInInv
<1>3. CASE LoginPageReturns \/ ProviderResponds \/ ProviderCancels
  BY <1>3, LoginPageReturnsInv, ProviderRespondsInv, ProviderCancelsInv
<1>4. CASE HasValidSession \/ HandleRequest \/ NoContentType
  BY <1>4, HasValidSessionInv, HandleRequestInv, NoContentTypeInv
<1>5. CASE UNCHANGED vars
  BY <1>5, StutterInv
<1> QED
  BY <1>1, <1>2, <1>3, <1>4, <1>5 DEF Next

LEMMA Invariant == Spec => []Inv
  BY InitInv, StepInv, PTL DEF Spec

--------------------------------------------------------------------------------
(* What the invariant says of the properties.                              *)

\* In whatever order Apache reads the directives, whatever a switch of the record
\* stands for is there when the handlers take it without asking (std::string of
\* auth_program and single_idp_url, the tables of the attributes).
THEOREM SwitchesAreBacked == Spec => []NothingMissing
<1>1. Inv => NothingMissing
  BY DEF Inv, ConfOK, RecordOK, NothingMissing
<1> QED
  BY <1>1, Invariant, PTL

\* The variables are of their types: in particular no nonce is alive that was not
\* given out, and a login page is told of an error by a name of error_to_string.
THEOREM TypeCorrect == Spec => []TypeOK
<1>1. Inv => TypeOK
  BY DEF Inv, Shape, MessageOK, Addresses, TypeOK
<1> QED
  BY <1>1, Invariant, PTL

\* With cookies, no request but the provider's brings mode, handle or nonce to the
\* handler: neither the redirect of set_session_cookie nor a reload of the page,
\* nor what a form or a login page sends back.
THEOREM AnswersAreTheProviders == Spec => []OnlyProviderAnswers
<1>1. ASSUME Inv
      PROVE  OnlyProviderAnswers
  <2>1. SUFFICES ASSUME conf.use_cookie, msg.at = "site", msg.from # "provider"
                 PROVE  \A i \in Range(msg.args \o msg.body) : i.name \notin {Mode, AssocHandle, Nonce}
    BY DEF OnlyProviderAnswers
  <2>2. Range(msg.args \o msg.body) = Range(msg.args) \cup Range(msg.body)
    BY <1>1, Concatenated DEF Inv, Shape, MessageOK
  <2>3. Bare(msg.args) /\ Bare(msg.body)
    BY <1>1, <2>1 DEF Inv, Cookies
  <2> QED
    BY <2>2, <2>3 DEF Bare
<1> QED
  BY <1>1, Invariant, PTL

\* The nonce that start_authentication_session puts into return_to comes back with
\* every response that comes by GET, and it is the one of the attempt it answers.
THEOREM NonceComesBack == Spec => []GetResponseHasNonce
<1>1. ASSUME Inv
      PROVE  GetResponseHasNonce
  <2>1. SUFFICES ASSUME msg.at = "site", msg.from = "provider", msg.method = "GET",
                        NEW p, p = ParseQueryString(msg.args)
                 PROVE  Nonce \in DOMAIN p /\ p[Nonce] = attempt
    BY DEF GetResponseHasNonce
  <2>2. IsQuery(msg.args)
    BY <1>1 DEF Inv, Shape, MessageOK
  <2>3. /\ \A i \in Range(msg.args) : AnswerItem(i)
        /\ \E i \in Range(msg.args) : i.name = Nonce
        /\ Len(msg.args) > 1
    BY <1>1, <2>1 DEF Inv, Answers
  <2>4. ASSUME Len(msg.args) = 1
        PROVE  FALSE
    <3>1. 1 > 1
      BY <2>3, <2>4
    <3> QED
      BY <3>1
  <2>5. Nonce \notin DOMAIN responded
    BY <1>1 DEF Inv, Responded
  <2>6. \A i \in Range(msg.args) : i.name = Nonce => i.value = attempt
    BY <2>3, <2>5, NamesDiffer DEF AnswerItem
  <2>7. attempt # None
    BY <1>1, SentinelAssumption DEF Inv, Shape
  <2>8. /\ \A n \in DOMAIN p : \E i \in Range(msg.args) : i.name = n /\ i.value = p[n] /\ i.value # None
        /\ \A i \in Range(msg.args) : i.value # None /\ Len(msg.args) # 1 => i.name \in DOMAIN p
    BY <2>1, <2>2, Parsed
  <2>9. Nonce \in DOMAIN p
    BY <2>3, <2>4, <2>6, <2>7, <2>8
  <2> QED
    BY <2>6, <2>8, <2>9
<1> QED
  BY <1>1, Invariant, PTL

\* Nobody is past a login without a response in which each attribute of the
\* AuthOpenIDAXRequire directives has a value that its pattern matches.
THEOREM AttributesAreHeld == Spec => []AttributesHeld
<1>1. Inv => AttributesHeld
  BY DEF Inv
<1> QED
  BY <1>1, Invariant, PTL

\* The page gets the extension parameters of the response that let the user in and
\* none of an earlier login (get_extension_params, merge_params, set_session_cookie).
THEOREM ExtensionsAreThisLogins == Spec => []ExtensionsOfThisLogin
<1>1. Inv => ExtensionsOfThisLogin
  BY DEF Inv
<1> QED
  BY <1>1, Invariant, PTL

================================================================================
