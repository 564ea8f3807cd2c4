--------------------------------- MODULE Strings --------------------------------
(***************************************************************************)
(* The string functions of moid_utils.cpp and http_helpers.cpp, and what   *)
(* the handlers expect of them, on every short string text.  A string is a *)
(* sequence of characters ("quot;", "amp;" ... count as one).              *)
(***************************************************************************)
EXTENDS Integers, SequencesExt

CONSTANTS
  Char,
  MaxLength    \* of text

VARIABLE text

\* s.find(c, i), one past the end if there is none.  Everything that is searched
\* for is one character.
Find(s, c, i) == Min({j \in i .. Len(s) : s[j] = c} \cup {Len(s) + 1})

\* The pieces between the separators, but those of length zero: pieces[i] are
\* those that are found once all before i is erased.
Explode(s, e) ==
  LET pieces[i \in 1 .. Len(s) + 1] ==
        LET iPos == Find(s, e, i)
        IN (IF iPos = i THEN <<>> ELSE <<SubSeq(s, i, iPos - 1)>>)
             \o (IF iPos > Len(s) THEN <<>> ELSE pieces[iPos + 1])
  IN pieces[1]

\* (wrong: the last piece is followed by a replacement as well)
StrReplaceBehindAll(needle, replacement, haystack) ==
  LET v == Explode(haystack, needle)
  IN FlattenSeq([i \in DOMAIN v |-> v[i] \o replacement])

StrReplace(needle, replacement, haystack) ==
  LET v == Explode(haystack, needle)
  IN FlattenSeq([i \in DOMAIN v |-> IF i < Len(v) THEN v[i] \o replacement ELSE v[i]])

Strip(s) ==
  LET kept == {i \in DOMAIN s : s[i] # " "}
  IN IF kept = {} THEN <<>> ELSE SubSeq(s, Min(kept), Max(kept))

Entity(c) ==
  CASE c = "&" -> <<"&", "amp;">> [] c = "'" -> <<"&", "#39;">> [] c = "\"" -> <<"&", "quot;">>
    [] c = "<" -> <<"&", "lt;">> [] c = ">" -> <<"&", "gt;">>

Escaped(s, c) == StrReplace(c, Entity(c), s)

\* (wrong: the "&" of an entity is escaped once more)
HtmlEscapeAmpLast(s) ==
  Escaped(Escaped(Escaped(Escaped(Escaped(s, "'"), "\""), "<"), ">"), "&")
HtmlEscape(s) ==
  Escaped(Escaped(Escaped(Escaped(Escaped(s, "&"), "'"), "\""), "<"), ">")

\* (wrong: a "/" in the query counts)
BaseDirOfAll(path) == SubSeq(path, 1, Max({0} \cup {i \in DOMAIN path : path[i] = "/"}))

\* base_dir: up to the last "/" before a "?".
BaseDir(path) ==
  LET q == Find(path, "?", 1)
  IN SubSeq(path, 1, Max({0} \cup {i \in DOMAIN path : path[i] = "/" /\ i <= q}))

\* (wrong: the names of all cookies but the first begin with a space)
GetSessionIdUnstripped(cookies, cookie_name) ==
  LET pairs == Explode(cookies, ";")
      found == SelectInSeq(pairs, LAMBDA p :
        LET pair == Explode(p, "=") IN Len(pair) = 2 /\ pair[1] = cookie_name)
  IN IF found = 0 THEN <<>> ELSE Explode(pairs[found], "=")[2]

\* get_session_id: the first pair with that name; the value keeps its spaces.
GetSessionId(cookies, cookie_name) ==
  LET pairs == Explode(cookies, ";")
      found == SelectInSeq(pairs, LAMBDA p :
        LET pair == Explode(p, "=") IN Len(pair) = 2 /\ Strip(pair[1]) = cookie_name)
  IN IF found = 0 THEN <<>> ELSE Explode(pairs[found], "=")[2]

--------------------------------------------------------------------------------

AnyText == text \in UNION {[1 .. n -> Char] : n \in 0 .. MaxLength}

\* The characters c of s at its ends and behind another c, of which explode leaves
\* no empty piece.
Lost(s, c) ==
  {i \in DOMAIN s : s[i] = c /\ (i = 1 \/ s[i - 1] = c \/ \A j \in i .. Len(s) : s[j] = c)}

\* s with r in the place of every c.
Replaced(s, c, r) == FlattenSeq([i \in DOMAIN s |-> IF s[i] = c THEN r ELSE <<s[i]>>])

\* moid_utils.h: "replace needle with replacement in haystack".
NeedlesReplaced ==
  \A c \in Char : StrReplace(c, <<"%", "20">>, text) = Replaced(text, c, <<"%", "20">>)

\* url_decode and html_escape replace characters with str_replace: whatever it
\* makes of the needles, it touches nothing else, and where none is at an end or
\* doubled every one is replaced.
NothingElseReplaced ==
  \A c \in Char :
    /\ StrReplace(c, <<>>, text) = Replaced(text, c, <<>>)
    /\ Lost(text, c) = {} => StrReplace(c, <<"%", "20">>, text) = Replaced(text, c, <<"%", "20">>)

Special == {"&", "'", "\"", "<", ">"}

\* What a browser reads from a quoted value.
Unescaped(s) ==
  LET named(i) == {c \in Special : i < Len(s) /\ <<s[i], s[i + 1]>> = Entity(c)}
      read(i) == IF i > 1 /\ named(i - 1) # {} THEN <<>>
                 ELSE IF named(i) # {} THEN <<CHOOSE c \in named(i) : TRUE>> ELSE <<s[i]>>
  IN FlattenSeq([i \in DOMAIN s |-> read(i)])

\* show_html_input keeps the user's parameters as hidden fields: a browser
\* reads there what was escaped, neither less nor escaped once more, and the
\* value ends where it should - but for special characters that str_replace
\* loses.
HiddenFieldsSurvive ==
  (\A c \in Special : Lost(text, c) = {}) =>
    /\ Unescaped(HtmlEscape(text)) = text
    /\ ~Contains(HtmlEscape(text), "\"")

\* The trust root is base_dir of return_to: the directory of the page, whatever
\* is in the query.
TrustRootIgnoresQuery ==
  LET url == <<"/">> \o text
      page == SubSeq(url, 1, Find(url, "?", 1) - 1)
      root == BaseDir(url)
  IN /\ IsPrefix(root, page) /\ Last(root) = "/"
     /\ ~Contains(SubSeq(page, Len(root) + 1, Len(page)), "/")

\* Is there a cookie of that name in s, given what explode and strip drop?
HasCookie(s, name) ==
  \E i, k \in DOMAIN s :
    /\ i < k /\ s[i] = name /\ s[k] = "=" /\ \A j \in i + 1 .. k - 1 : s[j] = " "
    /\ \E h \in 0 .. i - 1 :
         (h = 0 \/ s[h] = ";") /\ \A j \in h + 1 .. i - 1 : s[j] \in {" ", "="}

\* has_valid_session finds the module's own cookie before all others, and after
\* others unless one of them has its name.  They may be empty, have no "=" or
\* more of them, and have the name as a value.
OwnCookieFound ==
  LET own == <<"n", "=", "v">> IN
  \A other \in {text, <<"m", "=">> \o text} :
    /\ GetSessionId(own \o <<";", " ">> \o other, <<"n">>) = <<"v">>
    /\ ~HasCookie(other, "n") => GetSessionId(other \o <<";", " ">> \o own, <<"n">>) = <<"v">>

================================================================================
