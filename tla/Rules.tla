-------------------------------- MODULE Rules --------------------------------
(***************************************************************************)
(* cacher_rules.c: what a rules document means.  A JSON value is a record  *)
(* of its type and content, a document that does not parse has the type    *)
(* "error", and a member that is missing the type "none".  A C array that  *)
(* is NULL when it would be empty is a set or sequence that may be empty.  *)
(* How a pattern is matched is GlobMatch's subject; here a pattern stands  *)
(* for the values it matches.                                              *)
(***************************************************************************)
EXTENDS Integers, Sequences

CONSTANT Globs   \* the values each pattern matches

Glob(pattern, value) == value \in Globs[pattern]

Absent == [t |-> "none"]

\* cJSON_GetObjectItemCaseSensitive
Member(j, name) == IF j.t = "object" /\ name \in DOMAIN j.v THEN j.v[name] ELSE Absent

\* The elements of a JSON array that have the wanted type, in order; the
\* others are passed over, and anything but an array has none.
Items(j, t) ==
    IF j.t # "array" THEN <<>>
    ELSE LET s == SelectSeq(j.v, LAMBDA e : e.t = t) IN [i \in DOMAIN s |-> s[i].v]

Elements(s) == {s[i] : i \in DOMAIN s}

\* Method names are raised to upper case when parsed and compared without
\* regard to case.
Upper(m) == CASE m = "get" -> "GET" [] m = "head" -> "HEAD" [] OTHER -> m

\* The text of a JSON string; a field that is not a string stays NULL.
Text(j) == IF j.t = "str" THEN {j.v} ELSE {}

parse_rule(o) ==
    LET match == Member(o, "match")
        codes == Items(Member(o, "status_codes"), "num")
    IN  [path           |-> Text(Member(match, "path")),
         query          |-> Text(Member(match, "query")),
         methods        |-> {Upper(m) : m \in Elements(Items(Member(match, "methods"), "str"))},
         enabled        |-> Member(o, "enabled").t = "bool" => Member(o, "enabled").v,
         ttl_seconds    |-> IF Member(o, "ttl").t = "num" THEN Member(o, "ttl").v ELSE 0,
         status_codes   |-> IF codes = <<>> THEN <<200>> ELSE codes,
         content_types  |-> Elements(Items(Member(o, "content_types"), "str")),
         bypass_cookies |-> Elements(Items(Member(o, "bypass_cookies"), "str")),
         vary           |-> Items(Member(o, "vary"), "str")]

\* NULL for a syntax error or without a top-level "rules" array; elements of
\* it that are not objects are left out.
NoRuleset == [usable |-> FALSE, rules |-> <<>>]

cacher_ruleset_parse(doc) ==
    LET arr == Member(doc, "rules")
        o   == Items(arr, "object")
    IN  IF arr.t # "array" THEN NoRuleset
        ELSE [usable |-> TRUE,
              rules  |-> [i \in DOMAIN o |-> parse_rule([t |-> "object", v |-> o[i]])]]

\* The match clause; a request without a query string has the empty one.
Applies(rule, path, query, method) ==
    /\ \A g \in rule.path : Glob(g, path)
    /\ \A g \in rule.query : Glob(g, query)
    /\ rule.methods # {} => Upper(method) \in rule.methods

Matching(rs, path, query, method) ==
    {i \in 1..Len(rs.rules) : Applies(rs.rules[i], path, query, method)}

\* The first rule that matches, enabled or not.
cacher_ruleset_match(rs, path, query, method) ==
    LET m == Matching(rs, path, query, method)
    IN  rs.rules[CHOOSE i \in m : \A j \in m : i <= j]

\* The list ends at the first -1.
cacher_rule_allows_status(rule, status) ==
    \E i \in DOMAIN rule.status_codes :
        /\ rule.status_codes[i] = status
        /\ \A j \in 1..i : rule.status_codes[j] # -1

\* A content type up to its parameters.
Base(type) == IF type = "text/html; charset=UTF-8" THEN "text/html" ELSE type

\* A response without a type passes only if the rule names none.
cacher_rule_allows_content_type(rule, type) ==
    rule.content_types # {} =>
        type # "NULL" /\ \E g \in rule.content_types : Glob(g, Base(type))

cacher_rule_bypasses_cookie(rule, name) == \E g \in rule.bypass_cookies : Glob(g, name)
=============================================================================
