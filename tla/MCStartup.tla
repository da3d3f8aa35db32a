----------------------------- MODULE MCStartup -----------------------------
(* Startup with the config directories in which something can go wrong:    *)
(* files that are missing or unreadable, hosts configured twice, settings  *)
(* left to the globals, and inline scripts of several lengths.             *)
EXTENDS Startup

MCRoots == {"etc", "alt"}

Lists(i, x, a) == [k \in Kind |-> CASE k = "include" -> i [] k = "exclude" -> x [] k = "args" -> a]
Some(b)        == [k \in Kind |-> b /\ k # "exclude"]
Only(pre)      == [w \in When |-> IF w = "pre" THEN pre ELSE <<>>]

OneFile(ssh, rsync, pre) == [ssh |-> ssh, rsync |-> rsync, inline |-> Only(pre)]
Plain(pre)            == <<OneFile(<<>>, <<>>, pre)>>

SSHs    == {<<>>} \cup {<<[user |-> u, port |-> p, timeout |-> "unset"]>> :
                            u \in {"unset", "bob"}, p \in {"unset", "2222"}}
RSyncs  == {<<>>} \cup {<<[list |-> Lists(<<"home">>, <<>>, <<"-x">>), override |-> Some(b)]>> :
                            b \in BOOLEAN}
Globals == {<<OneFile(<<>>, <<>>, <<>>)>>,
            <<OneFile(<<[user |-> "root", port |-> "22", timeout |-> "10"]>>,
                   <<[list |-> Lists(<<"etc">>, <<"tmp">>, <<"-y">>), override |-> Some(FALSE)]>>,
                   <<>>)>>}

NoHooks == [w \in When |-> <<>>]
Service == <<[parallel |-> 2, level |-> "info"]>>

Directory(svc, globals, a, b, hooks) ==
    [service |-> svc, globals |-> globals, a |-> a, b |-> b,
     hooks |-> [h \in DOMAIN a \cup DOMAIN b |-> hooks]]

\* Settings: one host, each combination of its file and the globals.
Merges ==
    {Directory(Service, g, [h \in {"h1"} |-> <<OneFile(ssh, rsync, <<>>)>>], [h \in {} |-> <<>>], NoHooks) :
        g \in Globals, ssh \in SSHs, rsync \in RSyncs}

\* Scripts: three hosts with up to two lines each, after up to five global lines.
GlobalLines == {<<>>, <<"g1">>, <<"g1", "blank", "g2">>, <<"comment", "g1", "g2", "g3">>,
                <<"g1", "g2", "g3", "g4", "g5">>}
HostLines(h) == {<<>>, <<h>>, <<"blank", h, "twice">>}

Scripts ==
    {Directory(Service, Plain(g),
               [h \in {"h1", "h2"} |-> Plain(IF h = "h1" THEN l1 ELSE l2)],
               [h \in {"h3"} |-> Plain(l3)],
               Only(<<<<"k1", "comment">>, <<"k2">>>>)) :
        g \in GlobalLines, l1 \in HostLines("h1"), l2 \in HostLines("h2"), l3 \in HostLines("h3")}

\* Failures: each of the files, and a host that is configured twice.
Failures ==
    {Directory(s, g, [h \in {"h1", "h2"} |-> IF h = "h1" THEN a ELSE Plain(<<"l">>)],
               [h \in bs |-> Plain(<<"l">>)], hooks) :
        s \in {<<>>, Service, <<[parallel |-> 0, level |-> ""]>>, <<[parallel |-> 1, level |-> "panic"]>>},
        g \in {<<>>, Plain(<<"overlong">>), Plain(<<"g1">>)},
        a \in {<<>>, Plain(<<"l">>)},
        bs \in {{}, {"h1"}, {"h3"}},
        hooks \in {NoHooks, Only(<<<<"k1">>, <<"overlong">>>>)}}

Small == Directory(Service, Plain(<<"g1">>), [h \in {"h1"} |-> Plain(<<"l">>)], [h \in {} |-> <<>>], NoHooks)

MCDisks ==
    {[x \in MCRoots |-> IF x = "alt" THEN d ELSE Small] : d \in Merges \cup Scripts \cup Failures}

MCInvocations ==
    {[flag |-> "alt", env |-> "", verbosity |-> 0, gelf |-> "graylog"],
     [flag |-> "", env |-> "alt", verbosity |-> 1, gelf |-> "graylog"],
     [flag |-> "", env |-> "", verbosity |-> 2, gelf |-> ""],
     [flag |-> "etc", env |-> "alt", verbosity |-> 3, gelf |-> "graylog"]}
=============================================================================
