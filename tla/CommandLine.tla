---------------------------- MODULE CommandLine ----------------------------
(***************************************************************************)
(* cmdutils.c: a command line is split into groups of options, one group   *)
(* for each file it names, and an option of a group is matched with the    *)
(* streams of the file by its stream specifier.                            *)
(*                                                                         *)
(* A word is a string.  Defs tells the words that are options: the name of *)
(* the option, its stream specifier, whether an argument follows, the      *)
(* value it has without one ("0" for -nofoo), and the kinds of group it    *)
(* may be in (none: a global option).  What an argument means is left to   *)
(* the operators that read it.                                             *)
(***************************************************************************)
EXTENDS Lists

Separators == [w \in {"-i", "-dec"} |-> IF w = "-i" THEN "input" ELSE "dec"]

EmptySplit == [global |-> <<>>, output |-> <<>>, input |-> <<>>, dec |-> <<>>,
               cur |-> <<>>, err |-> ""]

\* finish_group: the options gathered so far belong to this file.
FinishGroup(octx, kind, arg) ==
    [octx EXCEPT ![kind] = Append(@, [arg |-> arg, opts |-> octx.cur]), !.cur = <<>>]

\* add_opt: a global option does not wait for a file.
AddOpt(octx, def, val) ==
    [octx EXCEPT ![IF def.files = {} THEN "global" ELSE "cur"] =
        Append(@, [name |-> def.name, spec |-> def.spec, val |-> val, files |-> def.files])]

\* One word.  Files are the words without a dash; "--" lets the next word be a
\* file whatever it looks like.
SplitWord(Defs, Files, st, w) ==
    CASE st.octx.err # "" -> st
      [] st.octx.err = "" /\ st.wants \in DOMAIN Separators ->
           [st EXCEPT !.wants = "", !.octx = FinishGroup(@, Separators[st.wants], w)]
      [] st.octx.err = "" /\ st.wants \in DOMAIN Defs ->
           [st EXCEPT !.wants = "", !.octx = AddOpt(@, Defs[st.wants], w)]
      [] OTHER ->
           CASE w = "--" -> [st EXCEPT !.dashed = TRUE]
             [] w # "--" /\ (st.dashed \/ w \in Files) ->
                  [st EXCEPT !.dashed = FALSE, !.octx = FinishGroup(@, "output", w)]
             [] ~st.dashed /\ w \in DOMAIN Separators -> [st EXCEPT !.wants = w]
             [] ~st.dashed /\ w \in DOMAIN Defs /\ Defs[w].arg -> [st EXCEPT !.wants = w]
             [] ~st.dashed /\ w \in DOMAIN Defs /\ ~Defs[w].arg ->
                  [st EXCEPT !.octx = AddOpt(@, Defs[w], Defs[w].val)]
             [] OTHER -> [st EXCEPT !.octx.err = "unrecognized option"]

\* split_commandline.  Options behind the last file stay in cur and are ignored.
SplitCommandline(Defs, Files, argv) ==
    LET end == FoldLeft(LAMBDA st, w : SplitWord(Defs, Files, st, w),
                        [wants |-> "", dashed |-> FALSE, octx |-> EmptySplit], argv)
    IN  IF end.wants # "" /\ end.octx.err = ""
        THEN [end.octx EXCEPT !.err = "missing argument"]
        ELSE end.octx

\* parse_optgroup: no option of a group of a file is meant for another kind of file.
GroupAccepted(kind, group) == \A i \in DOMAIN group.opts : kind \in group.opts[i].files

-----------------------------------------------------------------------------
(* Stream specifiers                                                       *)

NoIdx == -1

\* Any stream; each field restricts it further.
AnyStream == [list |-> "all", id |-> 0, type |-> "any", noApic |-> FALSE, usable |-> FALSE,
              default |-> FALSE, idx |-> NoIdx]

Typed(type)     == [AnyStream EXCEPT !.type = type]
Nth(type, n)    == [AnyStream EXCEPT !.type = type, !.idx = n]
InGroup(g)      == [AnyStream EXCEPT !.list = "group", !.id = g]
InGroupNth(g,n) == [AnyStream EXCEPT !.list = "group", !.id = g, !.idx = n]
InProgram(p)    == [AnyStream EXCEPT !.list = "program", !.id = p]

\* The streams the specifier counts, in its order; no program or group of that
\* number: none.
Candidates(ss, file) ==
    CASE ss.list = "all"     -> [i \in DOMAIN file.streams |-> i]
      [] ss.list = "id"      -> SelectSeq([i \in DOMAIN file.streams |-> i],
                                              LAMBDA i : file.streams[i].id = ss.id)
      [] ss.list = "program" -> IF ss.id \in DOMAIN file.programs
                                THEN file.programs[ss.id] ELSE <<>>
      [] ss.list = "group"   -> IF ss.id \in DOMAIN file.groups
                                THEN file.groups[ss.id].streams ELSE <<>>

Passes(ss, st) ==
    /\ ss.type # "any" => ss.type = st.type /\ ~(ss.noApic /\ st.pic)
    /\ ss.usable => st.usable /\ st.type # "unknown"
    /\ ss.default => st.default

\* stream_specifier_match: the idx-th stream that passes, or every one.
StreamSpecifierMatch(ss, file, s) ==
    LET passing == SelectSeq(Candidates(ss, file), LAMBDA i : Passes(ss, file.streams[i]))
    IN  /\ s \in Range(passing)
        /\ ss.idx # NoIdx => ss.idx + 1 \in DOMAIN passing /\ passing[ss.idx + 1] = s

\* opt_match_per_stream: of the options of a name that match, the last counts.
OptFor(opts, name, file, s, default) ==
    LET matching == SelectSeq(opts, LAMBDA o : /\ o.name = name
                                                   /\ StreamSpecifierMatch(o.spec, file, s))
    IN  IF matching = <<>> THEN default ELSE Last(matching).val

\* An option that is not per stream: the last one given counts.
Opt(opts, name, default) ==
    LET given == SelectSeq(opts, LAMBDA o : o.name = name)
    IN  IF given = <<>> THEN default ELSE Last(given).val

\* The values of an option that adds up.
OptAll(opts, name) ==
    LET given == Those(opts, LAMBDA o : o.name = name)
    IN  [i \in DOMAIN given |-> given[i].val]
=============================================================================
