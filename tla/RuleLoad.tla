------------------------------ MODULE RuleLoad ------------------------------
(***************************************************************************)
(* The device-rule loader (src/exts/devmaster/src/lib/rules/rule_load.rs): *)
(* Rules::load_rules walks the rule directories in order; in each valid    *)
(* one it lists the entries, keeps the names ending in .rules, sorts them  *)
(* and parses each file: RuleFile::parse_lines reads the physical lines,  *)
(* drops comment, blank and unreadable ones, joins a line ending in '\'   *)
(* with the next, and hands each complete line to RuleLine::load_line,    *)
(* which compiles its tokens (RuleToken) and keeps GOTO and LABEL apart.   *)
(* A parsed file is appended to the rules' doubly linked list of files.   *)
(*                                                                         *)
(* One sequential thread; the file system's contents are the input.  A    *)
(* directory is an index, a file name a number (so sorting is by number), *)
(* a physical line its kind and the tokens RE_TOKEN captures in it.  The  *)
(* lines are read one at a time, each chosen when it is read.             *)
(***************************************************************************)
EXTENDS RuleToken, Integers, SequencesExt

CONSTANTS
    NDirs,      \* rule directories, in DEFAULT_RULES_DIRS order
    Names,      \* file names, a set of numbers
    Toks,       \* the tokens a line may hold: [key, attr, op, value]
    MaxLines    \* physical lines per file

ASSUME NDirs \in Nat \ {0} /\ Names \subseteq Nat /\ MaxLines \in Nat
ASSUME Toks \subseteq [key : Keys, attr : Attrs, op : OpTexts, value : Values]

Dirs    == 1..NDirs
FileIds == Dirs \X Names
NoFile  == <<0, 0>>
Entries == [name : Names, kind : {"rules", "other"}]

\* A physical line: "skip" (comment or blank after trimming), "readerr"
\* (lines() yields an Err), "cont" (ends with '\'), "end"; with the tokens
\* captured in its text (none when the text holds no key op "value").
TokSeqs  == {<<>>} \cup {<<t>> : t \in Toks}
PhysLines ==
    [kind : {"skip", "readerr"}, toks : {<<>>}] \cup
    [kind : {"cont", "end"}, toks : TokSeqs]

\* A loaded rule line.
NoLabel == "none"

VARIABLES
    resolve_name_time,
    dir_valid,      \* dir -> exists and is a directory
    listing,        \* dir -> its entries in read_dir order
    pc,             \* "dirs", "files", "lines", "done", "panicked"
    di,             \* the directory parse_rules is at
    pending,        \* the sorted names of this directory not yet parsed
    cur,            \* the file being parsed
    files, files_tail, next, prev,  \* Rules' linked list of RuleFiles
    physical,       \* the physical lines of cur read so far
    full_line,      \* tokens of the continued line being assembled
    offset,         \* continuation lines in full_line
    lines,          \* cur's RuleLines so far
    failure         \* the error that aborted loading, or "none"

input == <<resolve_name_time, dir_valid, listing>>
list  == <<files, files_tail, next, prev>>
vars  == <<input, pc, di, pending, cur, list, physical, full_line, offset,
           lines, failure>>
-----------------------------------------------------------------------------
\* RuleLine::load_line, from the first captured token on: each is compiled
\* with parse_token and an error returns at once ('?'); GOTO and LABEL set
\* the line's goto_label and label, any other token is add_token'ed.
RECURSIVE load_tokens(_, _)
load_tokens(toks, line) ==
    IF toks = <<>> THEN line
    ELSE LET t == Head(toks)
             r == parse_token(t.key, t.attr, t.op, t.value, resolve_name_time)
         IN CASE r.res # "ok"     -> [line EXCEPT !.res = r.res]
              [] r.type = "Goto"  -> load_tokens(Tail(toks),
                                        [line EXCEPT !.goto_label = t.value])
              [] r.type = "Label" -> load_tokens(Tail(toks),
                                        [line EXCEPT !.label = t.value])
              [] OTHER -> load_tokens(Tail(toks),
                                        [line EXCEPT !.tokens = Append(@, r.type)])

\* RuleLine::load_line: RuleLine::new keeps the full line's text (here the
\* tokens it holds); a line in which RE_LINE finds no token is an error.
load_line(toks, number) ==
    IF toks = <<>>
    THEN [res |-> "error", line |-> toks, number |-> number, label |-> NoLabel,
          goto_label |-> NoLabel, tokens |-> <<>>]
    ELSE load_tokens(toks, [res |-> "ok", line |-> toks, number |-> number,
                            label |-> NoLabel, goto_label |-> NoLabel,
                            tokens |-> <<>>])

\* Rules::add_file: append to the linked list (has_tail is true when there
\* is no tail yet).
add_file(f) ==
    /\ IF files_tail = NoFile
       THEN /\ files' = f
            /\ UNCHANGED <<next, prev>>
       ELSE /\ next' = [next EXCEPT ![files_tail] = f]
            /\ prev' = [prev EXCEPT ![f] = files_tail]
            /\ UNCHANGED files
    /\ files_tail' = f

rules_names_unsorted(l) ==
    [i \in 1..Len(SelectSeq(l, LAMBDA e : e.kind = "rules")) |->
       SelectSeq(l, LAMBDA e : e.kind = "rules")[i].name]

\* The names parse_rules keeps of a listing: those ending in .rules, in
\* read_dir order, then files.sort().
rules_names(l) ==
    SortSeq([i \in 1..Len(SelectSeq(l, LAMBDA e : e.kind = "rules")) |->
               SelectSeq(l, LAMBDA e : e.kind = "rules")[i].name],
            LAMBDA x, y : x < y)

-----------------------------------------------------------------------------
\* Rules::new and the inputs: any directory validity and listing (distinct
\* names per directory), any ResolveNameTime.
Init ==
    /\ resolve_name_time \in ResolveNameTimes
    /\ dir_valid \in [Dirs -> BOOLEAN]
    /\ listing \in [Dirs -> {l \in UNION {[1..n -> Entries] : n \in 0..Cardinality(Names)} :
                                \A i, j \in DOMAIN l : i # j => l[i].name # l[j].name}]
    /\ pc = "dirs" /\ di = 1 /\ pending = <<>> /\ cur = NoFile
    /\ files = NoFile /\ files_tail = NoFile
    /\ next = [f \in FileIds |-> NoFile] /\ prev = [f \in FileIds |-> NoFile]
    /\ physical = <<>> /\ full_line = <<>> /\ offset = 0 /\ lines = <<>>
    /\ failure = "none"

ScanDir_advance ==
    /\ pc = "dirs" /\ di \in Dirs
    /\ IF dir_valid[di]
       THEN pc' = "files" /\ pending' = rules_names(listing[di]) /\ di' = di + 1
       ELSE di' = di + 1 /\ UNCHANGED <<pc, pending>>
    /\ UNCHANGED <<input, cur, list, physical, full_line, offset, lines, failure>>

\* parse_rules, at a directory: skip one that does not exist or is not a
\* directory; else list it and sort the .rules names.
ScanDir ==
    /\ pc = "dirs" /\ di \in Dirs
    /\ IF dir_valid[di]
       THEN pc' = "files" /\ pending' = rules_names(listing[di]) /\ UNCHANGED di
       ELSE di' = di + 1 /\ UNCHANGED <<pc, pending>>
    /\ UNCHANGED <<input, cur, list, physical, full_line, offset, lines, failure>>

\* parse_rules returns after the last directory.
AllDirsDone ==
    /\ pc = "dirs" /\ di = NDirs + 1
    /\ pc' = "done"
    /\ UNCHANGED <<input, di, pending, cur, list, physical, full_line, offset,
                   lines, failure>>

\* The for loop over the sorted names: parse_file on the next one
\* (load_file, RuleFile::new, parse_lines opens it), or the next directory.
NextFile ==
    /\ pc = "files"
    /\ IF pending = <<>>
       THEN /\ pc' = "dirs" /\ di' = di + 1
            /\ UNCHANGED <<pending, cur, physical, full_line, offset, lines>>
       ELSE /\ pc' = "lines" /\ cur' = <<di, Head(pending)>>
            /\ pending' = Tail(pending)
            /\ physical' = <<>> /\ full_line' = <<>> /\ offset' = 0
            /\ lines' = <<>>
            /\ UNCHANGED di
    /\ UNCHANGED <<input, list, failure>>

ReadLine_keep_line(l) ==
    /\ pc = "lines" /\ Len(physical) < MaxLines
    /\ physical' = Append(physical, l)
    /\ CASE l.kind \in {"skip", "readerr"} ->
              UNCHANGED <<pc, full_line, offset, lines, failure>>
         [] l.kind = "cont" ->
              /\ full_line' = full_line \o l.toks
              /\ offset' = offset + 1
              /\ UNCHANGED <<pc, lines, failure>>
         [] l.kind = "end" ->
              LET r == load_line(full_line \o l.toks, Len(physical) + 1 - offset)
              IN IF r.res = "ok"
                 THEN /\ lines' = Append(lines, r)
                      /\ full_line' = full_line \o l.toks /\ offset' = 0
                      /\ UNCHANGED <<pc, failure>>
                 ELSE /\ pc' = "panicked" /\ failure' = r.res
                      /\ UNCHANGED <<full_line, offset, lines>>
    /\ UNCHANGED <<input, di, pending, cur, list>>

\* One iteration of parse_lines' loop over reader.lines(): an unreadable,
\* comment or blank line is skipped; a line ending in '\' is appended to
\* full_line; any other completes full_line, which load_line compiles with
\* the number line_number + 1 - offset; its unwrap() panics on an error,
\* else add_line appends it and full_line and offset are reset.
ReadLine(l) ==
    /\ pc = "lines" /\ Len(physical) < MaxLines
    /\ physical' = Append(physical, l)
    /\ CASE l.kind \in {"skip", "readerr"} ->
              UNCHANGED <<pc, full_line, offset, lines, failure>>
         [] l.kind = "cont" ->
              /\ full_line' = full_line \o l.toks
              /\ offset' = offset + 1
              /\ UNCHANGED <<pc, lines, failure>>
         [] l.kind = "end" ->
              LET r == load_line(full_line \o l.toks, Len(physical) + 1 - offset)
              IN IF r.res = "ok"
                 THEN /\ lines' = Append(lines, r)
                      /\ full_line' = <<>> /\ offset' = 0
                      /\ UNCHANGED <<pc, failure>>
                 ELSE /\ pc' = "panicked" /\ failure' = r.res
                      /\ UNCHANGED <<full_line, offset, lines>>
    /\ UNCHANGED <<input, di, pending, cur, list>>

\* End of the file: parse_lines returns (a continuation still open is
\* dropped with full_line), load_file returns the file and add_file links it.
EndOfFile ==
    /\ pc = "lines"
    /\ add_file(cur)
    /\ pc' = "files"
    /\ UNCHANGED <<input, di, pending, cur, physical, full_line, offset, lines,
                   failure>>

\* load_rules returned, or a panic ended the thread.
Finished == pc \in {"done", "panicked"} /\ UNCHANGED vars

Next ==
    \/ ScanDir \/ AllDirsDone \/ NextFile \/ EndOfFile \/ Finished
    \/ \E l \in PhysLines : ReadLine(l)

Spec == Init /\ [][Next]_vars

-----------------------------------------------------------------------------
\* The reference: what the file and directory layout says the rules are.

\* The files to load: the .rules files of every valid directory, directory
\* by directory, each directory's in name order.
ExpectedFiles ==
    FlattenSeq([d \in Dirs |->
        IF dir_valid[d]
        THEN [i \in 1..Cardinality({e.name : e \in {x \in Range(listing[d]) : x.kind = "rules"}}) |->
                <<d, SetToSortSeq({e.name : e \in {x \in Range(listing[d]) : x.kind = "rules"}},
                                  LAMBDA x, y : x < y)[i]>>]
        ELSE <<>>])

\* The list as seen walking next from files, and prev from files_tail.
RECURSIVE Walk(_, _, _)
Walk(f, link, n) ==
    IF f = NoFile \/ n = 0 THEN <<>> ELSE <<f>> \o Walk(link[f], link, n - 1)

\* The rules of a file: comment, blank and unreadable lines hold nothing; a
\* line ending in '\' goes on with the next line that holds something; a
\* continuation still open at the end of the file is no rule.
RECURSIVE Rules(_, _)
Rules(ph, open) ==
    IF ph = <<>> THEN <<>>
    ELSE CASE Head(ph).kind \in {"skip", "readerr"} -> Rules(Tail(ph), open)
           [] Head(ph).kind = "cont" -> Rules(Tail(ph), open \o Head(ph).toks)
           [] OTHER -> <<open \o Head(ph).toks>> \o Rules(Tail(ph), <<>>)

-----------------------------------------------------------------------------
TypeOK ==
    /\ resolve_name_time \in ResolveNameTimes
    /\ dir_valid \in [Dirs -> BOOLEAN]
    /\ pc \in {"dirs", "files", "lines", "done", "panicked"}
    /\ di \in 1..NDirs + 1
    /\ cur \in FileIds \cup {NoFile}
    /\ files \in FileIds \cup {NoFile} /\ files_tail \in FileIds \cup {NoFile}
    /\ next \in [FileIds -> FileIds \cup {NoFile}]
    /\ prev \in [FileIds -> FileIds \cup {NoFile}]
    /\ physical \in Seq(PhysLines) /\ Len(physical) <= MaxLines
    /\ offset \in 0..MaxLines
    /\ failure \in {"none", "error", "ignore"}

(* The linked list of rule files that load_rules builds holds exactly the  *)
(* .rules files of the valid directories, directory by directory and each  *)
(* directory's in name order, whatever order read_dir returned them in:   *)
(* walking next from files gives a prefix of that order (all of it once    *)
(* loading is done), and walking prev from files_tail gives it backwards.  *)
FilesFollowDirectories ==
    LET w == Walk(files, next, Cardinality(FileIds)) IN
    /\ IsPrefix(w, ExpectedFiles)
    /\ Walk(files_tail, prev, Cardinality(FileIds)) = Reverse(w)
    /\ pc = "done" => w = ExpectedFiles

(* The RuleLines of the file being parsed are its rules, one per complete  *)
(* line in order, each holding the text of its physical lines joined: the *)
(* continuation state of parse_lines (full_line, offset) carries nothing  *)
(* across a rule and loses nothing within one.  How load_line then splits *)
(* a line into tokens, GOTO and LABEL is not part of this property.       *)
LinesFollowFile ==
    pc # "panicked" =>
      LET R == Rules(physical, <<>>) IN
      /\ Len(lines) = Len(R)
      /\ \A i \in DOMAIN lines : lines[i].line = R[i]
=============================================================================
