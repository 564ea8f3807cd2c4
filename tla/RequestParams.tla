----------------------------- MODULE RequestParams -----------------------------
(***************************************************************************)
(* What http_helpers.cpp and full_uri of mod_auth_openid.cpp do to request *)
(* parameters.  A name is the sequence of its pieces between the dots, a   *)
(* query string the sequence of its items between the "&"s, a params_t a   *)
(* function from names to values.  url_encode and url_decode are left out: *)
(* names and values are what they stand for.  The URL of a protected page  *)
(* is given by its query: what is before the "?" (the scheme, host and     *)
(* port, or AuthOpenIDServerName, and the path) is always the same.        *)
(***************************************************************************)
EXTENDS Integers, SequencesExt

CONSTANTS
  Empty,       \* the empty string
  None,        \* no "=" in an item; no such header
  BodyFaults,  \* may reading the body of a POST fail?
  Beginning(_) \* what is left of a value that is cut short, if not the empty string

\* Names that the module knows.
Identifier == <<"openid_identifier">>
Mode == <<"openid", "mode">>
AssocHandle == <<"openid", "assoc_handle">>
ReturnTo == <<"openid", "return_to">>
Nonce == <<"modauthopenid", "nonce">>
Referrer == <<"modauthopenid", "referrer">>
ErrorName == <<"modauthopenid", "error">>
AxNs(alias) == <<"openid", "ns", alias>>

Item(name, value) == [name |-> name, value |-> value]
NoParams == <<>>

\* params[name] = value, and all of the parameters q assigned to p.
With(p, name, value) == [n \in DOMAIN p \cup {name} |-> IF n = name THEN value ELSE p[n]]
Assigned(p, q) == [n \in DOMAIN p \cup DOMAIN q |-> IF n \in DOMAIN q THEN q[n] ELSE p[n]]

\* parse_query_string: a later item replaces an earlier one of the same name; an
\* item without "=" is skipped, and so is "k=" if there is nothing else (the
\* position of the "=" is compared with the size of the whole string).
ParseQueryString(str) ==
  LET skipped(i) == i.value = None \/ (Len(str) = 1 /\ i.value = Empty)
  IN FoldLeft(LAMBDA p, i : IF skipped(i) THEN p ELSE With(p, i.name, i.value), NoParams, str)

\* What a query says of a parameter: its last value, and Empty if it has none.
Said(q, name) ==
  LET given == {k \in DOMAIN q : q[k].name = name /\ q[k].value # None}
  IN IF given = {} THEN Empty ELSE q[Max(given)].value

\* params.append_query: the parameters as the end of a query string.
Query(p) == FoldSet(LAMBDA n, q : Append(q, Item(n, p[n])), <<>>, DOMAIN p)

\* "openid." or "modauthopenid." and something after it, or openid_identifier.
IsOpenIdVar(n) ==
  \/ n = Identifier
  \/ Len(n) > 1 /\ n[1] \in {"openid", "modauthopenid"}

\* (wrong: only the module's own parameters are removed)
RemoveModuleVars(p) == RestrictDomain(p, LAMBDA n : n[1] # "modauthopenid")
RemoveOpenIdVars(p) == RestrictDomain(p, LAMBDA n : ~IsOpenIdVar(n))

\* (wrong: names with one dot count)
GetDottedParams(p) == RestrictDomain(p, LAMBDA n : Len(n) > 1)
\* More than two pieces.
GetExtensionParams(p) == RestrictDomain(p, LAMBDA n : Len(n) > 2)

\* (wrong: the extension parameters come alone)
MergeNothing(one, two) == one
MergeParams(one, two) == Assigned(two, one)

--------------------------------------------------------------------------------
(* Requests: [method, type, args, body], where type is the Content-Type,   *)
(* args is r->args (<<>> when it is NULL) and body a string like args.     *)

\* The values an item may have where the string ends inside it: a cut name has no
\* "=", and of the value there is nothing or a beginning.
CutValues(i) ==
  {None} \cup (IF i.value \in {None, Empty} THEN {} ELSE {Empty, Beginning(i.value)})

\* What a string may be when only its first bytes have been read: some of its
\* items, and perhaps one more that is cut.
CutShort(str) ==
  Prefixes(str) \cup
  UNION {{Append(SubSeq(str, 1, k - 1), Item(str[k].name, v)) : v \in CutValues(str[k])} :
         k \in DOMAIN str}

\* get_post_data: the string read, or None when it returns false.  When a bucket
\* cannot be read the rest is ignored, and what was read before it is returned.
GetPostData(r) ==
  IF r.type # "form" THEN {None}
  ELSE {r.body} \cup (IF BodyFaults THEN {None} \cup CutShort(r.body) ELSE {})

\* The sets of parameters get_request_params may leave.
GetRequestParams(r) ==
  CASE r.method = "GET" -> {ParseQueryString(r.args)}
    [] r.method = "POST" ->
         {IF q = None THEN NoParams ELSE ParseQueryString(q) : q \in GetPostData(r)}

\* (wrong: the parameters are never cleaned)
FullUriAsIs(r, clean) == r.args

\* full_uri.
FullUri(r, clean) ==
  IF clean THEN Query(RemoveOpenIdVars(ParseQueryString(r.args))) ELSE r.args

--------------------------------------------------------------------------------
(* Attribute exchange, as configured in c.                                 *)

\* The extension parameters ext with the request for the attributes.
AxTypes(c) ==
  [n \in {<<"openid", "ax", "type", a>> : a \in Range(c.ax_attrs)} |-> c.ax_attr_uris[n[4]]]
AxRequest(c, ext) ==
  IF ~c.use_ax THEN ext
  ELSE With(With(With(Assigned(ext, AxTypes(c)),
         AxNs("ax"), "AX_NAMESPACE"),
         <<"openid", "ax", "mode">>, "fetch_request"),
         <<"openid", "ax", "required">>, c.ax_attrs)

\* The names of the namespace parameters a provider declared attributes with;
\* it chooses the alias.
AxSpaces(p) == {n \in DOMAIN p : Len(n) = 3 /\ n = AxNs(n[3]) /\ p[n] = "AX_NAMESPACE"}
AxValue(p, a) == <<"openid", (CHOOSE n \in AxSpaces(p) : TRUE)[3], "value", a>>

\* (wrong: the pattern of any attribute will do)
AxMatchesSome(c, p, a) ==
  AxValue(p, a) \in DOMAIN p /\ \E b \in Range(c.ax_attrs) : p[AxValue(p, a)] \in c.ax_attr_patterns[b]

\* A pattern is the set of the values it matches.
AxMatches(c, p, a) ==
  AxValue(p, a) \in DOMAIN p /\ p[AxValue(p, a)] \in c.ax_attr_patterns[a]

\* The error a response's attributes lead to, None if there is none: the first
\* attribute that is missing or does not match decides.
AxError(c, p) ==
  LET first == SelectInSeq(c.ax_attrs, LAMBDA a : ~AxMatches(c, p, a))
      named == /\ c.ax_username_attr \in Range(c.ax_attrs)
               /\ p[AxValue(p, c.ax_username_attr)] # Empty
  IN CASE ~c.use_ax -> None
       [] c.use_ax /\ AxSpaces(p) = {} -> "ax_bad_response"
       [] c.use_ax /\ AxSpaces(p) # {} /\ first # 0 ->
            IF AxValue(p, c.ax_attrs[first]) \in DOMAIN p THEN "unauthorized" ELSE "ax_bad_response"
       [] OTHER -> IF c.use_ax_username /\ ~named THEN "unauthorized" ELSE None

================================================================================
