------------------------------ MODULE RuleToken ------------------------------
(***************************************************************************)
(* The token compiler of the device-rule loader: RuleToken::parse_token    *)
(* (src/exts/devmaster/src/lib/rules/rule_load.rs) turns one captured      *)
(* key{attr} op "value" into a rule token, or rejects it with a            *)
(* RulesLoadError, or with an IgnoreError for a token that "takes no       *)
(* effect".  Pure operators: the loader (RuleLoad) applies them per token. *)
(*                                                                         *)
(* Data abstraction.  An attribute or a value is reduced to what the arms  *)
(* of parse_token test of it:                                              *)
(*   attr  "none" (no {attr}), "arch", "virt", "file", "program",          *)
(*         "builtin", "db", "cmdline", "parent" (the names some key tests),*)
(*         "reserved" (an ENV name that can not be set, e.g. DEVNAME),     *)
(*         "mode" (parses as a file mode), "name" (any other well-formed   *)
(*         attribute), "badfmt" (rejected by check_attr_format);           *)
(*   value "name" (a plain word naming an existing user or group),         *)
(*         "missing" (a plain word naming none), "num" (a number, so a     *)
(*         uid, gid or mode), "%k", "subst" (another string with a         *)
(*         substitution), "builtin" (a builtin command line), and the      *)
(*         OPTIONS forms "flag" (string_escape=..., db_persist, watch,     *)
(*         nowatch), "static_node", "prio"/"prio_bad" (link_priority= a    *)
(*         number or not), "level"/"level_bad" (log_level= rest or a       *)
(*         number, or not).                                                *)
(* A value is never empty: RE_TOKEN's value group is [^"]+.  The op text   *)
(* is what RE_TOKEN's [!:+-=]?= captures; "<=" stands for the texts that   *)
(* class admits (it holds the range '+'..'=') and OperatorType rejects.    *)
(***************************************************************************)

Keys == {"ACTION", "DEVPATH", "KERNEL", "SYMLINK", "NAME", "ENV", "CONST",
         "TAG", "SUBSYSTEM", "DRIVER", "ATTR", "SYSCTL", "KERNELS",
         "SUBSYSTEMS", "DRIVERS", "ATTRS", "TAGS", "TEST", "PROGRAM",
         "IMPORT", "RESULT", "OPTIONS", "OWNER", "GROUP", "MODE",
         "SECLABEL", "RUN", "GOTO", "LABEL", "UNKNOWN"}
Attrs == {"none", "arch", "virt", "file", "program", "builtin", "db",
          "cmdline", "parent", "reserved", "mode", "name", "badfmt"}
Values == {"name", "missing", "num", "%k", "subst", "builtin", "flag",
           "static_node", "prio", "prio_bad", "level", "level_bad"}
OpTexts == {"==", "!=", "=", "+=", "-=", ":=", "<="}
ResolveNameTimes == {"Early", "Late", "Never"}

\* The results: a token of some type carrying an operator, or an error.
Ok(t, o)  == [res |-> "ok", type |-> t, op |-> o]
LoadError == [res |-> "error", type |-> "none", op |-> "none"]
Ignore    == [res |-> "ignore", type |-> "none", op |-> "none"]

IsMatch(o) == o \in {"==", "!="}

\* Helpers of crate::utils and basic, outside this tree: what they accept.
attr_format_ok(a) == a \notin {"none", "badfmt"}
is_builtin(v)     == v = "builtin"
is_plain(v)       == v \notin {"%k", "subst"}

-----------------------------------------------------------------------------
\* ACTION, DEVPATH, KERNEL (and the other keys of this shape): no attribute,
\* a match operator only.
match_only(t, a, o) ==
    CASE a # "none" -> LoadError
      [] ~IsMatch(o) -> LoadError
      [] OTHER       -> Ok(t, o)

\* SYMLINK, NAME, ENV, CONST, TAG: match or assign tokens.
parse_assign_key(k, a, o, v) ==
    CASE k = "SYMLINK" ->
           CASE a # "none" \/ o = "-=" -> LoadError
             [] ~IsMatch(o)            -> Ok("AssignDevlink", o)
             [] OTHER                  -> Ok("MatchDevlink", o)
      [] k = "NAME" ->
           LET op == IF o = "+=" THEN "=" ELSE o IN
           CASE a # "none" \/ o = "-=" -> LoadError
             [] ~IsMatch(o) /\ v = "%k" -> LoadError
             [] ~IsMatch(o)            -> Ok("AssignName", op)
             [] OTHER                  -> Ok("MatchName", op)
      [] k = "ENV" ->
           LET op == IF o = ":=" THEN "=" ELSE o IN
           CASE a = "none" \/ o = "-=" -> LoadError
             [] ~IsMatch(o) /\ a = "reserved" -> LoadError
             [] ~IsMatch(o)            -> Ok("AssignEnv", op)
             [] OTHER                  -> Ok("MatchEnv", op)
      [] k = "CONST" ->
           CASE a \in {"none", "arch", "virt"} -> LoadError
             [] ~IsMatch(o)            -> LoadError
             [] OTHER                  -> Ok("MatchConst", o)
      [] k = "TAG" ->
           LET op == IF o = ":=" THEN "=" ELSE o IN
           CASE a # "none"             -> LoadError
             [] ~IsMatch(o)            -> Ok("AssignTag", op)
             [] OTHER                  -> Ok("MatchTag", op)

\* SUBSYSTEM .. TAGS: the keys matching the device or its parents.  KERNELS
\* yields MatchParentsSubsystem, as SUBSYSTEMS does; SYSCTL yields the ATTR
\* token types.
parse_match_key(k, a, o, v) ==
    CASE k = "SUBSYSTEM"  -> match_only("MatchSubsystem", a, o)
      [] k = "DRIVER"     -> match_only("MatchDriver", a, o)
      [] k \in {"ATTR", "SYSCTL"} ->
           LET op == IF o \in {"+=", ":="} THEN "=" ELSE o IN
           CASE ~attr_format_ok(a) \/ o = "-=" -> LoadError
             [] ~IsMatch(o)            -> Ok("AssignAttr", op)
             [] OTHER                  -> Ok("MatchAttr", op)
      [] k = "KERNELS"    -> match_only("MatchParentsSubsystem", a, o)
      [] k = "SUBSYSTEMS" -> match_only("MatchParentsSubsystem", a, o)
      [] k = "DRIVERS"    -> match_only("MatchParentsDriver", a, o)
      [] k = "ATTRS" ->
           CASE ~attr_format_ok(a) \/ ~IsMatch(o) -> LoadError
             [] OTHER                  -> Ok("MatchParentsAttr", o)
      [] k = "TAGS"       -> match_only("MatchParentsTag", a, o)

\* TEST, PROGRAM, IMPORT, RESULT.
parse_program_key(k, a, o, v) ==
    CASE k = "TEST" ->
           CASE a \notin {"none", "mode"} \/ ~IsMatch(o) -> LoadError
             [] OTHER                  -> Ok("MatchTest", o)
      [] k = "PROGRAM" ->
           CASE a # "none" \/ o = "-=" -> LoadError
             [] OTHER -> Ok("MatchProgram", IF IsMatch(o) THEN o ELSE "==")
      [] k = "IMPORT" ->
           LET op == IF IsMatch(o) THEN o ELSE "==" IN
           CASE a = "none"             -> LoadError
             [] a = "file"             -> Ok("MatchImportFile", op)
             [] a = "program" /\ is_builtin(v) -> Ok("MatchImportBuiltin", op)
             [] a = "program"          -> Ok("MatchImportProgram", op)
             [] a = "builtin" /\ ~is_builtin(v) -> LoadError
             [] a = "builtin"          -> Ok("MatchImportBuiltin", op)
             [] a = "db"               -> Ok("MatchImportDb", op)
             [] a = "cmdline"          -> Ok("MatchImportCmdline", op)
             [] a = "parent"           -> Ok("MatchImportParent", op)
             [] OTHER                  -> LoadError
      [] k = "RESULT"     -> match_only("MatchResult", a, o)

\* OPTIONS: an assignment whose value selects the option.
parse_options(a, o, v) ==
    LET op == IF o = "+=" THEN "=" ELSE o IN
    CASE a # "none" \/ IsMatch(o) \/ o = "-=" -> LoadError
      [] v = "flag"                  -> Ok("AssignOptions", op)
      [] v = "static_node"           -> Ok("AssignOptionsStaticNode", op)
      [] v = "prio"                  -> Ok("AssignOptionsDevlinkPriority", op)
      [] v = "level"                 -> Ok("AssignOptionsLogLevel", op)
      [] OTHER                       -> LoadError
\* Rules::resolve_user / resolve_group: the users and groups maps are looked
\* up first but never filled, so every call asks the system database; a
\* name it does not know is a RulesLoadError.
resolve_user(v)  == v = "name"
resolve_group(v) == v = "name"

\* OWNER and GROUP, with the rules object given (the loader always passes
\* it): a number is an id; under Early a plain name is resolved to an id
\* now; under Late (and Early with substitutions) the name is kept; under
\* Never the token is ignored.
parse_owner(k, a, o, v, time) ==
    LET op       == IF o = "+=" THEN "=" ELSE o
        resolved == IF k = "OWNER" THEN resolve_user(v) ELSE resolve_group(v)
        IdType   == IF k = "OWNER" THEN "AssignOwnerId" ELSE "AssignGroupId"
        NameType == IF k = "OWNER" THEN "AssignOwner" ELSE "AssignGroup"
    IN
    CASE a # "none" \/ IsMatch(o) \/ o = "-=" -> LoadError
      [] v = "num"                   -> Ok(IdType, op)
      [] time = "Early" /\ is_plain(v) /\ ~resolved -> LoadError
      [] time = "Early" /\ is_plain(v) -> Ok(IdType, op)
      [] time # "Never"              -> Ok(NameType, op)
      [] OTHER                       -> Ignore

\* MODE, SECLABEL, RUN, GOTO, LABEL, and any other key.
parse_assign_misc(k, a, o, v) ==
    CASE k = "MODE" ->
           LET op == IF o = "+=" THEN "=" ELSE o IN
           CASE a # "none" \/ IsMatch(o) \/ o = "-=" -> LoadError
             [] v = "num"              -> Ok("AssignModeId", op)
             [] OTHER                  -> Ok("AssignMode", op)
      [] k = "SECLABEL" ->
           CASE a = "none" \/ IsMatch(o) \/ o = "-=" -> LoadError
             [] OTHER -> Ok("AssignSeclabel", IF o = ":=" THEN "=" ELSE o)
      [] k = "RUN" ->
           CASE IsMatch(o) \/ o = "-=" -> LoadError
             [] a \in {"none", "program"} -> Ok("AssignRunProgram", o)
             [] a = "builtin" /\ ~is_builtin(v) -> LoadError
             [] a = "builtin"          -> Ok("AssignRunBuiltin", o)
             [] OTHER                  -> Ignore
      [] k \in {"GOTO", "LABEL"} ->
           CASE a # "none" \/ o # "=" -> LoadError
             [] OTHER -> Ok(IF k = "GOTO" THEN "Goto" ELSE "Label", o)
      [] OTHER -> LoadError

\* parse_token: an op text OperatorType does not know is an error; then the
\* arm of the key.
parse_token(k, a, o, v, time) ==
    CASE o = "<=" -> LoadError
      [] k \in {"ACTION", "DEVPATH", "KERNEL"} ->
           match_only(CASE k = "ACTION" -> "MatchAction"
                        [] k = "DEVPATH" -> "MatchDevpath"
                        [] OTHER -> "MatchKernel", a, o)
      [] k \in {"SYMLINK", "NAME", "ENV", "CONST", "TAG"} ->
           parse_assign_key(k, a, o, v)
      [] k \in {"SUBSYSTEM", "DRIVER", "ATTR", "SYSCTL", "KERNELS",
                "SUBSYSTEMS", "DRIVERS", "ATTRS", "TAGS"} ->
           parse_match_key(k, a, o, v)
      [] k \in {"TEST", "PROGRAM", "IMPORT", "RESULT"} ->
           parse_program_key(k, a, o, v)
      [] k = "OPTIONS" -> parse_options(a, o, v)
      [] k \in {"OWNER", "GROUP"} -> parse_owner(k, a, o, v, time)
      [] OTHER -> parse_assign_misc(k, a, o, v)
=============================================================================
