----------------------------- MODULE MCRuleLoad -----------------------------
(* The device-rule loader over two directories, two file names and two     *)
(* physical lines per file, with a rule token, GOTO, LABEL and an OWNER     *)
(* naming an unknown user (compiled, ignored or rejected by the name       *)
(* resolution time).                                                        *)
EXTENDS RuleLoad

MCToks ==
    { [key |-> "ACTION", attr |-> "none", op |-> "==", value |-> "name"],
      [key |-> "GOTO",   attr |-> "none", op |-> "=",  value |-> "name"],
      [key |-> "LABEL",  attr |-> "none", op |-> "=",  value |-> "missing"],
      [key |-> "OWNER",  attr |-> "none", op |-> "=",  value |-> "missing"] }
=============================================================================
