----------------------------- MODULE HeaderBlock -----------------------------
(***************************************************************************)
(* Which response headers an entry keeps and how a hit puts them back      *)
(* (cacher_cache.c).  A header table gives each name its values in the     *)
(* order they were added; names that differ in case only are one name.     *)
(***************************************************************************)
EXTENDS Sequences, Naturals

CONSTANT HeaderNames

ASSUME HeaderNamesAssumption == {"Content-Type", "X-Cacher", "Age", "Set-Cookie"} \subseteq HeaderNames

\* Mutant: the module's own headers are stored and replayed like any other.
OnlyTransferHeaders(name) ==
    name \in {"Connection", "Keep-Alive", "Transfer-Encoding", "Content-Length", "Set-Cookie"}

\* Mutant: Set-Cookie is forgotten.
AllButSetCookie(name) ==
    name \in {"Connection", "Keep-Alive", "Transfer-Encoding", "Content-Length",
              "X-Cacher", "Age"}

is_uncacheable_header(name) ==
    name \in {"Connection", "Keep-Alive", "Transfer-Encoding", "Content-Length",
              "Set-Cookie", "X-Cacher", "Age"}

NoHeaders == [n \in HeaderNames |-> <<>>]

\* apr_table_setn and apr_table_addn
SetHeader(table, name, value) == [table EXCEPT ![name] = <<value>>]
AddHeaders(table, more) == [n \in HeaderNames |-> table[n] \o more[n]]

\* dump_header_cb over the whole table.
Dump(table) ==
    [n \in HeaderNames |-> IF is_uncacheable_header(n) THEN <<>> ELSE table[n]]

Last(s) == s[Len(s)]

\* The lines of a stored block are set one after the other, so that the last
\* of several of one name is the one that stays.  Content-Type goes into
\* r->content_type instead.
Replay(table, block) ==
    [n \in HeaderNames |->
        IF is_uncacheable_header(n) \/ n = "Content-Type" \/ block[n] = <<>>
        THEN table[n] ELSE <<Last(block[n])>>]

ReplayContentType(type, block) ==
    IF block["Content-Type"] = <<>> THEN type ELSE Last(block["Content-Type"])
=============================================================================
