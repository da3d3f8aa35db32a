----------------------------- MODULE RsyncArgs -----------------------------
(***************************************************************************)
(* The argument vector of rsync (config/rsync.go and                       *)
(* config/rsync_blacklist.go): the filter rules built from the included    *)
(* and excluded paths, and the arguments of the config without those       *)
(* zackup reserves for itself.                                             *)
(*                                                                         *)
(* A path is the sequence of its elements, a filter pattern a path whose   *)
(* elements may be "*".  An argument is an option, in one of the spellings *)
(* rsync knows, or a word that is not an option.                           *)
(***************************************************************************)
EXTENDS Integers, Sequences, SequencesExt

\* filepath.Clean of an absolute path, element by element.
cleanElems(raw) ==
    LET upTo[n \in 0..Len(raw)] ==
            IF n = 0 \/ (raw[n] = ".." /\ upTo[n - 1] = <<>>) THEN <<>>
            ELSE IF raw[n] = ".." THEN Front(upTo[n - 1])
            ELSE IF raw[n] \in {"", "."} THEN upTo[n - 1]
            ELSE Append(upTo[n - 1], raw[n])
    IN  upTo
Clean(raw) == cleanElems(raw)[Len(raw)]

\* The append that incDone and excDone guard.
AppendNew(list, f) == IF Contains(list, f) THEN list ELSE Append(list, f)

\* The path up to level n, and the pattern for its siblings there.
Level(file, n) == SubSeq(file, 1, n)

\* Mutant of Siblings: f has grown by the element before fs is made of it.
SiblingsBelow(file, n) == Append(SubSeq(file, 1, n), "*")

Siblings(file, n) == Append(SubSeq(file, 1, n - 1), "*")

\* The loop over the elements of one path, from the lists made so far.
addLevels(lists, file) ==
    LET upTo[n \in 0..Len(file)] ==
            IF n = 0 THEN lists
            ELSE [inc |-> AppendNew(upTo[n - 1].inc, Level(file, n)),
                  exc |-> AppendNew(upTo[n - 1].exc, Siblings(file, n))]
    IN  upTo

\* What one included path adds: "/" is included, without excluding "/*".
AddIncluded(lists, file) ==
    IF file = <<>> THEN [lists EXCEPT !.inc = Append(@, <<>>)]
    ELSE addLevels(lists, file)[Len(file)]

\* The loop over the included paths.
ruleLists(included) ==
    LET upTo[n \in 0..Len(included)] ==
            IF n = 0 THEN [inc |-> <<>>, exc |-> <<>>]
            ELSE AddIncluded(upTo[n - 1], Clean(included[n]))
    IN  upTo

Option(form, name, val) == [form |-> form, name |-> name, val |-> val]
Anchored(f)             == [anchored |-> TRUE, elems |-> f]

includeRules(list) == [n \in 1..Len(list) |-> Option("long=", "include", Anchored(list[n]))]
excludeRules(list) == [n \in 1..Len(list) |-> Option("long=", "exclude", Anchored(list[n]))]
configRules(r)     == [n \in 1..Len(r.excluded) |-> Option("long=", "exclude", r.excluded[n])]

\* Mutant of filter: the configured excludes come first.
filterExcludedFirst(r) ==
    LET lists == ruleLists(r.included)[Len(r.included)]
    IN  configRules(r) \o includeRules(lists.inc) \o excludeRules(lists.exc)

\* All the includes, then all the excludes, then the configured excludes.
filter(r) ==
    LET lists == ruleLists(r.included)[Len(r.included)]
    IN  includeRules(lists.inc) \o excludeRules(lists.exc) \o configRules(r)

----------------------------------------------------------------------------
(* The blacklist.                                                          *)

Blacklisted(long, short, opt) == [long |-> long, short |-> short, opt |-> opt]

\* short: the option has a one-letter form; opt: it takes a value.
blacklistArgs ==
    {Blacklisted(long, FALSE, TRUE)  : long \in {"debug", "info", "include", "exclude", "out-format"}}
    \cup {Blacklisted(long, TRUE, TRUE)   : long \in {"rsh", "filter"}}
    \cup {Blacklisted(long, TRUE, FALSE)  : long \in {"verbose", "quiet", "itemize-changes", "progress"}}
    \cup {Blacklisted(long, FALSE, FALSE) : long \in {"delete*", "del", "force", "partial", "daemon"}}

\* match.Match(arg, "--delete*"): the options of rsync with this beginning.
DeleteOptions == {"delete", "delete-after", "delete-excluded", "delete-delay"}

Matches(bla, arg) ==
    \/ arg.form = "short" /\ arg.name = bla.long /\ bla.short
    \/ arg.form = "shortval" /\ arg.name = bla.long /\ bla.short /\ bla.opt
    \/ arg.form = "long" /\ arg.name = bla.long
    \/ arg.form \in {"long", "long="} /\ bla.long = "delete*" /\ arg.name \in DeleteOptions
    \/ arg.form = "long=" /\ arg.name = bla.long /\ bla.opt

\* Mutant of Swallows: any form of an option takes the next token with it.
SwallowsAlways(bla, arg) == IF bla.opt THEN 1 ELSE 0

\* How many of the following tokens go with the argument.
Swallows(bla, arg) == IF arg.form \in {"short", "long"} /\ bla.opt THEN 1 ELSE 0

args(arguments) ==
    LET hits(i) == {bla \in blacklistArgs : Matches(bla, arguments[i])}
        from[i \in 1..Len(arguments) + 2] ==
            IF i > Len(arguments) THEN <<>>
            ELSE IF hits(i) = {} THEN <<arguments[i]>> \o from[i + 1]
            ELSE from[i + 1 + Swallows(CHOOSE bla \in hits(i) : TRUE, arguments[i])]
    IN  from[1]

Word(w)  == [form |-> "word", name |-> w, val |-> "none"]
Slash(d) == [d EXCEPT !.slash = TRUE]

\* What zackup adds after the configured arguments.
Enforced ==
    [n \in 1..4 |-> Option("long", <<"delete", "delete-excluded", "delete-delay",
                                     "itemize-changes">>[n], "none")]

BuildArgVector(r, ssh, src, dst) ==
    filter(r) \o <<Option("short", "rsh", "none"), Word(ssh)>> \o args(r.arguments)
    \o Enforced \o <<Word(Slash(src)), Word(Slash(dst))>>

----------------------------------------------------------------------------
(* rsync, as zackup uses it.                                               *)

\* The pattern matches the file: all of its path, or the end of it.
MatchesFile(pattern, path) ==
    LET n == Len(pattern.elems)
        d == IF pattern.anchored THEN 0 ELSE Len(path) - n
    IN  /\ IF pattern.anchored THEN Len(path) = n ELSE d >= 0
        /\ n > 0
        /\ \A i \in 1..n : pattern.elems[i] \in {"*", path[i + d]}

\* The first rule that matches decides, and what is left out is not entered.
Decides(rules, n, path) ==
    /\ MatchesFile(rules[n].val, path)
    /\ \A m \in 1..n - 1 : ~MatchesFile(rules[m].val, path)

Copied(rules, path) ==
    \A q \in Prefixes(path), n \in 1..Len(rules) :
        Decides(rules, n, q) => rules[n].name = "include"

TakesValue(name) ==
    name \in {"rsh", "filter", "include", "exclude", "debug", "info", "out-format", "bwlimit"}

\* How rsync reads an argument vector: the options with their values, and the
\* words that belong to no option.
Parse(argv) ==
    LET from[i \in 1..Len(argv) + 2] ==
            IF i > Len(argv) THEN <<>>
            ELSE IF argv[i].form \in {"short", "long"} /\ TakesValue(argv[i].name) /\ i < Len(argv)
                 THEN <<<<argv[i].name, argv[i + 1].name>>>> \o from[i + 2]
            ELSE <<<<argv[i].name, argv[i].val>>>> \o from[i + 1]
    IN  from[1]
=============================================================================
