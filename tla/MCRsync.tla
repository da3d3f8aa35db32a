------------------------------ MODULE MCRsync ------------------------------
(* The argument vector for every rsync config up to the bounds: the config *)
(* grows by one included path, one excluded pattern or one argument, as    *)
(* mergeGlobals appends them.                                              *)
EXTENDS RsyncArgs

CONSTANTS
    MaxIncluded,    \* bound on the included paths
    MaxArguments    \* bound on the options among the arguments

VARIABLES
    r,              \* the RsyncConfig
    given           \* how many options its arguments hold

\* Included paths as they are written: with slashes too many, relative, and
\* leading out of the root.
Paths ==
    {<<"">>, <<"etc">>, <<"home", "">>, <<"", "home", ".", "craig">>,
     <<"home", "craig", "log">>, <<"..", "home", "log", "..", "bob">>}

Patterns ==
    {[anchored |-> FALSE, elems |-> <<"log">>], [anchored |-> FALSE, elems |-> <<"home">>],
     [anchored |-> TRUE, elems |-> <<"home", "craig", "log">>]}

\* Each option with its value, in the spellings rsync knows.
Units ==
    {<<Option("short", "verbose", "none")>>,
     <<Option("long", "delete-after", "none")>>,
     <<Option("long", "numeric-ids", "none")>>,
     <<Option("short", "rsh", "none"), Word("val")>>,
     <<Option("shortval", "rsh", "val")>>,
     <<Option("long=", "rsh", "val")>>,
     <<Option("long", "include", "none"), Word("val")>>,
     <<Option("long=", "include", "val")>>,
     <<Option("long", "bwlimit", "none"), Word("val")>>,
     <<Option("long=", "bwlimit", "val")>>}

Init == r = [included |-> <<>>, excluded |-> <<>>, arguments |-> <<>>] /\ given = 0

Include ==
    /\ Len(r.included) < MaxIncluded /\ given = 0
    /\ \E incl \in Paths : r' = [r EXCEPT !.included = Append(@, incl)]
    /\ UNCHANGED given

Exclude ==
    /\ r.excluded = <<>>
    /\ \E excl \in Patterns : r' = [r EXCEPT !.excluded = <<excl>>]
    /\ UNCHANGED given

Argument ==
    /\ given < MaxArguments /\ Len(r.included) < 2
    /\ \E unit \in Units : r' = [r EXCEPT !.arguments = @ \o unit]
    /\ given' = given + 1

Next == Include \/ Exclude \/ Argument

Spec == Init /\ [][Next]_<<r, given>>

----------------------------------------------------------------------------
(* Properties.                                                             *)

\* The files of the remote host; no config names "other".
Names == {"etc", "home", "craig", "bob", "log", "other"}
Files == UNION {[1..n -> Names] : n \in 1..3}

Included == {Clean(r.included[n]) : n \in DOMAIN r.included}

\* The file is an included path or leads to one.
Leads(path) == \E incl \in Included : IsPrefix(path, incl)

\* What the config asks for: everything below an included path that no
\* pattern excludes.
Wanted(path) ==
    \A q \in Prefixes(path) :
        \/ Leads(q)
        \/ /\ \E incl \in Included : IsPrefix(incl, q)
           /\ \A n \in DOMAIN r.excluded : ~MatchesFile(r.excluded[n], q)

Nested == \E a, b \in Included : IsStrictPrefix(a, b)

\* filter copies nothing that is outside of the included paths, in whatever
\* order they come and however they are written.
FilterNeverWidens ==
    Included # {} =>
        \A path \in Files : Copied(filter(r), path) =>
            Leads(path) \/ \E incl \in Included : IsPrefix(incl, path)

\* filter says "we do all the includes first and all of the excludes at the
\* end (hopefully they commute)".  They do, and rsync copies exactly what is
\* wanted, as long as no included path lies below another; otherwise the
\* siblings of the inner path are left out, and deleted from the backup.
FilterExact ==
    Included # {} =>
        (~Nested <=> \A path \in Files : Copied(filter(r), path) <=> Wanted(path))

\* zackup does not keep the option for itself.
Free(read) == read[1] \notin DeleteOptions \cup {bla.long : bla \in blacklistArgs}

\* Of what rsync reads, in the order given, what the config may say.
allowedUpTo(readings) ==
    LET upTo[n \in 0..Len(readings)] ==
            IF n = 0 THEN <<>>
            ELSE IF Free(readings[n]) THEN Append(upTo[n - 1], readings[n])
            ELSE upTo[n - 1]
    IN  upTo
Allowed(readings) == allowedUpTo(readings)[Len(readings)]

\* Whatever arguments are configured, rsync reads filter's rules and no other,
\* one remote shell (zackup's), the other arguments with their values in the
\* order given, the deletion at the end, and two paths with a trailing slash.
ArgVectorRead ==
    LET src == [path |-> "src", slash |-> FALSE]
        dst == [path |-> "dst", slash |-> TRUE]
    IN  Parse(BuildArgVector(r, "ssh", src, dst)) =
            Parse(filter(r)) \o <<<<"rsh", "ssh">>>> \o Allowed(Parse(r.arguments))
            \o Parse(Enforced) \o <<<<Slash(src), "none">>, <<Slash(dst), "none">>>>
=============================================================================
