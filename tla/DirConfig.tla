------------------------------ MODULE DirConfig ------------------------------
(***************************************************************************)
(* Settings per directory and per server (cacher_config.c): directives,    *)
(* inheritance through nested directories, and which rules a request gets. *)
(* A flag is -1 (CACHER_UNSET), 0 or 1.  A CacherRulesFile argument is a   *)
(* name and, if it is absolute, its directory.                             *)
(***************************************************************************)
EXTENDS Rules

CONSTANT Docs   \* the JSON value each rules text stands for

UNSET   == -1
NoText  == "NULL"
NoFile  == [dir |-> NoText, name |-> NoText]

cacher_create_dir_config(dir) ==
    [enabled |-> UNSET, rules_json |-> NoText, rules_file |-> NoFile, config_dir |-> dir,
     admin_path |-> NoText, admin_require_user |-> UNSET, status_header |-> UNSET]

\* The setting of the inner level, if it has one.
Inner(base, add, unset) == IF add # unset THEN add ELSE base

\* Mutant: a rules file set further out gives way to inline rules set here.
ShadowedFile(base, add) ==
    IF add.rules_json # NoText THEN add.rules_file
    ELSE Inner(base.rules_file, add.rules_file, NoFile)

InheritedFile(base, add) == Inner(base.rules_file, add.rules_file, NoFile)

\* A rules file set at any level silences all inline rules.
cacher_merge_dir_config(base, add) ==
    [enabled    |-> Inner(base.enabled, add.enabled, UNSET),
     rules_file |-> InheritedFile(base, add),
     rules_json |-> IF InheritedFile(base, add) # NoFile THEN NoText
                    ELSE Inner(base.rules_json, add.rules_json, NoText),
     config_dir |-> Inner(base.config_dir, add.config_dir, NoText),
     admin_path |-> Inner(base.admin_path, add.admin_path, NoText),
     admin_require_user |-> Inner(base.admin_require_user, add.admin_require_user, UNSET),
     status_header |-> Inner(base.status_header, add.status_header, UNSET)]

\* CacherCacheRoot of the main server and of a virtual host.
cacher_merge_server_config(base, add) == Inner(base, add, NoText)

-----------------------------------------------------------------------------
(* Directives.  The argument of CacherRules is raw: blanks around it are   *)
(* dropped, then one pair of equal quotes.                                 *)

Blank == {" ", "\t"}
Quote == {"'", "\""}

Trim(args) ==
    LET kept == {i \in DOMAIN args : args[i] \notin Blank}
        lo   == CHOOSE i \in kept : \A j \in kept : i <= j
        hi   == CHOOSE i \in kept : \A j \in kept : i >= j
    IN  IF kept = {} THEN <<>> ELSE SubSeq(args, lo, hi)

Unquote(args) ==
    LET s == Trim(args) IN
    IF Len(s) >= 2 /\ s[1] \in Quote /\ s[Len(s)] = s[1] THEN SubSeq(s, 2, Len(s) - 1) ELSE s

\* The text that is left, if it is one of the documents.
RulesText(args) ==
    IF Len(Unquote(args)) = 1 /\ Unquote(args)[1] \in DOMAIN Docs
    THEN Unquote(args)[1] ELSE "garbled"

\* A directive's effect on the settings of its level.  CacherAdminPath takes
\* only paths that begin with '/'; Apache refuses the configuration otherwise.
Apply(c, d) ==
    CASE d.name = "CacherEnable"           -> [c EXCEPT !.enabled = d.arg]
      [] d.name = "CacherRules"            -> [c EXCEPT !.rules_json = RulesText(d.arg)]
      [] d.name = "CacherRulesFile"        -> [c EXCEPT !.rules_file = d.arg]
      [] d.name = "CacherAdminPath"        -> [c EXCEPT !.admin_path = d.arg]
      [] d.name = "CacherAdminRequireUser" -> [c EXCEPT !.admin_require_user = d.arg]
      [] d.name = "CacherStatusHeader"     -> [c EXCEPT !.status_header = d.arg]

\* The settings a section or .htaccess of directives ds gives directory dir.
Section(dir, ds) ==
    LET c[i \in 0..Len(ds)] ==
          IF i = 0 THEN cacher_create_dir_config(dir) ELSE Apply(c[i - 1], ds[i])
    IN  c[Len(ds)]

\* Inheritance along the levels of a path, the outermost first.  The outermost
\* one always has settings; of the others Apache merges those that do.
Merged(levels, settings) ==
    LET m[i \in 1..Len(levels)] ==
          IF i = 1 THEN settings[levels[1]]
          ELSE IF levels[i] \in DOMAIN settings
               THEN cacher_merge_dir_config(m[i - 1], settings[levels[i]]) ELSE m[i - 1]
    IN  m[Len(levels)]

-----------------------------------------------------------------------------
(* The rules of a request.                                                 *)

\* The file's directory and name.  Without a directory of its own a context
\* resolves nothing, not even an absolute name.
resolve_rules_file_path(c) ==
    IF c.config_dir = NoText THEN NoFile
    ELSE [dir  |-> IF c.rules_file.dir # NoText THEN c.rules_file.dir ELSE c.config_dir,
          name |-> c.rules_file.name]

\* The ruleset each text stands for.
Parsed == [text \in DOMAIN Docs |-> cacher_ruleset_parse(Docs[text])]

ASSUME DocsAssumption ==
    \A text \in DOMAIN Docs : \A i \in 1..Len(Parsed[text].rules) :
        Parsed[text].rules[i].ttl_seconds \in Int

\* files gives the text in each file there is.
cacher_config_get_ruleset(c, files) ==
    LET path == resolve_rules_file_path(c)
        text == IF c.rules_file = NoFile THEN c.rules_json
                ELSE IF path \in DOMAIN files THEN files[path] ELSE NoText
    IN  IF text \in DOMAIN Docs THEN Parsed[text] ELSE NoRuleset
=============================================================================
