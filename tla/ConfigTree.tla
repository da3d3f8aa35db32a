----------------------------- MODULE ConfigTree -----------------------------
(***************************************************************************)
(* The config tree (config/tree.go, hosts.go, job.go, script.go): how      *)
(* SetRoot reads a directory, file by file, and merges the global config   *)
(* into the config of each host.  Every file may be unreadable, and then   *)
(* the tree keeps what has been read so far.                               *)
(*                                                                         *)
(* A nil pointer is <<>>, a pointer to v is <<v>>, and so is a file: <<>>  *)
(* when it cannot be opened or decoded.  YAML itself is external.          *)
(***************************************************************************)
EXTENDS Integers, Sequences, SequencesExt

CONSTANTS
    Disks,         \* what the roots may hold: functions from Roots to directories
    Roots,         \* the config directories
    DefaultRoot    \* the one that is compiled in

ASSUME RootsAssumption == DefaultRoot \in Roots /\ "" \notin Roots

When == {"pre", "post"}                  \* PreScript and PostScript
Kind == {"include", "exclude", "args"}   \* the lists of RsyncConfig

\* A pointer, or a file: to nothing, or to one element of S.
Optional(S) == {p \in Seq(S) : Len(p) <= 1}

\* What a config file may hold.
SSHConfig   == [{"user", "port", "timeout"} -> STRING]
RsyncConfig == [list : [Kind -> Seq(STRING)], override : [Kind -> BOOLEAN]]
File        == [ssh : Optional(SSHConfig), rsync : Optional(RsyncConfig), inline : [When -> Seq(STRING)]]

\* The scripts for which Capacity, below, is what append does.
MaxInline == 512

\* The files of a directory: a and b are hosts/*/config.yml and hosts/*.yml.
ASSUME DisksAssumption ==
    \A d \in Disks : \A r \in Roots :
        /\ d[r].service \in Optional([parallel : 0..255, level : STRING])
        /\ d[r].globals \in Optional(File)
        /\ d[r].a \in [DOMAIN d[r].a -> Optional(File)]
        /\ d[r].b \in [DOMAIN d[r].b -> Optional(File)]
        /\ d[r].hooks \in [DOMAIN d[r].a \cup DOMAIN d[r].b -> [When -> Seq(Seq(STRING))]]
        /\ d[r].globals # <<>> =>
              \A w \in When : Len(d[r].globals[1].inline[w]) <= MaxInline

VARIABLES
    disk,       \* the config directories
    root,       \* t.root
    stage,      \* how far reload has come; "ok" and "failed" when it is over
    todo,       \* what is left of the loop of this stage
    service,    \* t.service
    global,     \* t.global
    spare,      \* the arrays behind t.global's inline scripts, up to their capacity
    hosts       \* t.hosts

diskVars == <<disk>>
treeVars == <<root, stage, todo, service, global, spare, hosts>>

dir  == disk[root]

\* The loop of cleanScript: blank lines and comments are dropped.
Blank == {"blank", "comment"}
cleaned(raw) ==
    LET upTo[n \in 0..Len(raw)] ==
            IF n = 0 THEN <<>>
            ELSE IF raw[n] \in Blank THEN upTo[n - 1] ELSE Append(upTo[n - 1], raw[n])
    IN  upTo
cleanScript(raw) == cleaned(raw)[Len(raw)]

\* The scanner's limit: cleanScript returns an error.
Unscannable(raw) == Contains(raw, "overlong")

\* The capacity of a slice that has grown by appending n times one element, up
\* to MaxInline, where append ceases to double it.
Capacity(n) ==
    IF n = 0 THEN 0
    ELSE CHOOSE c \in {1, 2, 4, 8, 16, 32, 64, 128, 256, 512} : n <= c /\ c < 2 * n

\* A slice: its own elements, or the beginning of a shared array.
Own(lines)    == [shared |-> FALSE, lines |-> lines]
Shared(lines) == [shared |-> TRUE, lines |-> lines]

\* What the slice holds now.
Inline(slice, array) ==
    IF slice.shared THEN SubSeq(array, 1, Len(slice.lines)) ELSE slice.lines

\* A JobConfig as its file is decoded.
Decoded(file) ==
    [ssh |-> file.ssh, rsync |-> file.rsync,
     inline |-> [w \in When |-> Own(cleanScript(file.inline[w]))],
     scripts |-> [w \in When |-> <<>>]]

\* A file that decodes.
Readable(f) == f # <<>> /\ \A w \in When : ~Unscannable(f[1].inline[w])

NoJob == Decoded([ssh |-> <<>>, rsync |-> <<>>, inline |-> [w \in When |-> <<>>]])

TreeInit ==
    /\ disk \in Disks
    /\ root = "" /\ stage = "idle" /\ todo = {}
    /\ service = <<>> /\ global = NoJob /\ hosts = [h \in {} |-> NoJob]
    /\ spare = [w \in When |-> <<>>]

----------------------------------------------------------------------------
(* mergeGlobals.                                                           *)

mergeSSH(ssh, globals) ==
    IF globals = <<>> \/ ssh = <<>> THEN ssh \o globals
    ELSE <<[field \in {"user", "port", "timeout"} |->
               IF ssh[1][field] = "unset" THEN globals[1][field] ELSE ssh[1][field]]>>

mergeRSync(rsync, globals) ==
    IF globals = <<>> \/ rsync = <<>> THEN rsync \o globals
    ELSE <<[rsync[1] EXCEPT !.list =
               [k \in Kind |-> IF rsync[1].override[k] THEN @[k] ELSE @[k] \o globals[1].list[k]]]>>

\* append(globals.inline, own...) writes behind the global lines when the
\* array has room, and copies them otherwise.
Fits(lines, own) == lines # <<>> /\ Len(lines) + Len(own) <= Capacity(Len(lines))

\* Mutant of mergeInline: the capacity of the array is not looked at.
mergeInlineShares(lines, own) ==
    IF lines # <<>> THEN Shared(lines \o own) ELSE Own(lines \o own)

mergeInline(lines, own) ==
    IF Fits(lines, own) THEN Shared(lines \o own) ELSE Own(lines \o own)

\* Mutant of overwrite: the host's lines begin at the last global one.
overwriteLast(array, lines, own) ==
    [n \in DOMAIN array |->
        IF Fits(lines, own) /\ n - Len(lines) + 1 \in DOMAIN own
        THEN own[n - Len(lines) + 1] ELSE array[n]]

overwrite(array, lines, own) ==
    [n \in DOMAIN array |->
        IF Fits(lines, own) /\ n \in DOMAIN (lines \o own) THEN (lines \o own)[n] ELSE array[n]]

mergeGlobals(h) ==
    LET own(w)   == hosts[h].inline[w].lines
        lines(w) == global.inline[w].lines
    IN  /\ hosts' = [hosts EXCEPT
               ![h].ssh     = mergeSSH(@, global.ssh),
               ![h].rsync   = mergeRSync(@, global.rsync),
               ![h].inline  = [w \in When |-> mergeInline(lines(w), own(w))],
               ![h].scripts = [w \in When |-> global.scripts[w] \o @[w]]]
        /\ spare' = [w \in When |-> overwrite(spare[w], lines(w), own(w))]

----------------------------------------------------------------------------
(* SetRoot and reload.                                                     *)

\* The root that is set already is not read again.
SetRoot(newRoot) ==
    /\ stage' = IF root = newRoot THEN "ok" ELSE "service"
    /\ root' = IF root # newRoot /\ newRoot = "" THEN DefaultRoot ELSE newRoot
    /\ UNCHANGED <<todo, service, global, spare, hosts>>

\* The zero ServiceConfig, which config.yml is decoded into.
NoService == [parallel |-> 0, level |-> ""]

ReadService ==
    /\ stage = "service"
    /\ service' = IF dir.service = <<>> THEN <<NoService>> ELSE dir.service
    /\ stage' = IF dir.service = <<>> THEN "failed" ELSE "globals"
    /\ UNCHANGED <<root, todo, global, spare, hosts>>

\* t.hosts is made anew, unless globals.yml cannot be read.
ReadGlobals ==
    /\ stage = "globals"
    /\ IF Readable(dir.globals)
       THEN /\ hosts' = [h \in {} |-> NoJob]
            /\ global' = Decoded(dir.globals[1])
            /\ spare' = [w \in When |->
                   LET lines == cleanScript(dir.globals[1].inline[w]) IN
                   lines \o [n \in 1..Capacity(Len(lines)) - Len(lines) |-> "unused"]]
            /\ stage' = "a" /\ todo' = DOMAIN dir.a
       ELSE /\ global' = NoJob /\ spare' = [w \in When |-> <<>>]
            /\ stage' = "failed" /\ UNCHANGED <<todo, hosts>>
    /\ UNCHANGED <<root, service>>

\* Mutant of readHostConfig: the second config of a host replaces the first.
readHostConfigReplaces(h) ==
    LET file == dir[stage][h] IN
    IF Readable(file)
    THEN /\ hosts' = [g \in DOMAIN hosts \cup {h} |-> IF g = h THEN Decoded(file[1]) ELSE hosts[g]]
         /\ todo' = todo \ {h} /\ UNCHANGED stage
    ELSE stage' = "failed" /\ UNCHANGED <<hosts, todo>>

readHostConfig(h) ==
    LET file == dir[stage][h] IN
    IF h \notin DOMAIN hosts /\ Readable(file)
    THEN /\ hosts' = [g \in DOMAIN hosts \cup {h} |-> IF g = h THEN Decoded(file[1]) ELSE hosts[g]]
         /\ todo' = todo \ {h} /\ UNCHANGED stage
    ELSE stage' = "failed" /\ UNCHANGED <<hosts, todo>>

\* readGlob, first for hosts/*/config.yml, then for hosts/*.yml.
ReadGlob ==
    /\ stage \in {"a", "b"}
    /\ \E h \in todo : readHostConfig(h)
    /\ UNCHANGED <<root, service, global, spare>>

\* readHooks: the files of each host, in the order of their names.  They are
\* found in ROOT/$host, while the README puts them into ROOT/hosts/$host.
ReadHooks ==
    /\ stage = "hooks"
    /\ \E h \in todo :
        LET files == dir.hooks[h] IN
        IF \A w \in When : \A n \in DOMAIN files[w] : ~Unscannable(files[w][n])
        THEN /\ hosts' = [hosts EXCEPT ![h].scripts =
                    [w \in When |-> FlattenSeq([n \in DOMAIN files[w] |-> cleanScript(files[w][n])])]]
             /\ todo' = todo \ {h} /\ UNCHANGED stage
        ELSE stage' = "failed" /\ UNCHANGED <<hosts, todo>>
    /\ UNCHANGED <<root, service, global, spare>>

\* Go ranges over a map in any order.
Merge ==
    /\ stage = "merge"
    /\ \E h \in todo : mergeGlobals(h) /\ todo' = todo \ {h}
    /\ UNCHANGED <<root, stage, service, global>>

\* A loop has ended.
NextStage ==
    /\ todo = {}
    /\ \/ stage = "a" /\ stage' = "b" /\ todo' = DOMAIN dir.b
       \/ stage = "b" /\ stage' = "hooks" /\ todo' = DOMAIN hosts
       \/ stage = "hooks" /\ stage' = "merge" /\ todo' = DOMAIN hosts
       \/ stage = "merge" /\ stage' = "ok" /\ UNCHANGED todo
    /\ UNCHANGED <<root, service, global, spare, hosts>>

Reload == ReadService \/ ReadGlobals \/ ReadGlob \/ ReadHooks \/ Merge \/ NextStage

----------------------------------------------------------------------------
(* What the rest of the program gets.                                      *)

Loaded == stage = "ok" /\ service # <<>>

\* Host(name) merges the job into an empty one: its own lines follow none, so
\* the scripts are the very slices of the tree.
ScriptLines(h, w) == Inline(hosts[h].inline[w], spare[w]) \o hosts[h].scripts[w]

TreeTypeOK ==
    /\ disk \in Disks
    /\ root \in Roots \cup {""}
    /\ stage \in {"idle", "service", "globals", "a", "b", "hooks", "merge", "ok", "failed"}
    /\ todo \subseteq DOMAIN hosts \cup (IF root = "" THEN {} ELSE DOMAIN dir.a \cup DOMAIN dir.b)
    /\ \A h \in DOMAIN hosts, w \in When :
          hosts[h].inline[w].shared => Len(hosts[h].inline[w].lines) <= Len(spare[w])

----------------------------------------------------------------------------
(* The reference: what the files of one directory say, in any order.       *)

FileOf(h) == IF h \in DOMAIN dir.a THEN dir.a[h][1] ELSE dir.b[h][1]

\* The host's own setting, or else the global one.
RefSSH(h, field) ==
    LET mine == FileOf(h).ssh
        all  == dir.globals[1].ssh
    IN  IF mine # <<>> /\ (mine[1][field] # "unset" \/ all = <<>>)
        THEN mine[1][field] ELSE all[1][field]

\* The host's own list and, unless it wants a fresh start, the global one.
RefRSync(h, k) ==
    LET list(rsync) == IF rsync = <<>> THEN <<>> ELSE rsync[1].list[k]
        mine        == FileOf(h).rsync
    IN  IF mine # <<>> /\ mine[1].override[k] THEN list(mine)
        ELSE list(mine) \o list(dir.globals[1].rsync)

\* The global inline script, the host's, and the hook files, one after the
\* other, as "cat $host/pre.*.sh | ssh $host" (README) would send them.
RefGlobal(w)   == cleanScript(dir.globals[1].inline[w])
RefInline(h, w) == cleanScript(FileOf(h).inline[w])
RefHooks(h, w)  == cleanScript(FlattenSeq(dir.hooks[h][w]))

\* A tree that is loaded is the tree of one directory and all of it: every
\* host has one config file, every setting of a host comes from that file or
\* is the global one, and its hooks are those where readFiles looks for them.
WholeTree ==
    Loaded =>
        /\ service = dir.service
        /\ DOMAIN hosts = DOMAIN dir.a \cup DOMAIN dir.b
        /\ DOMAIN dir.a \cap DOMAIN dir.b = {}
        /\ \A h \in DOMAIN hosts :
              /\ hosts[h].ssh = <<>> <=> FileOf(h).ssh \o dir.globals[1].ssh = <<>>
              /\ hosts[h].ssh # <<>> => \A f \in DOMAIN hosts[h].ssh[1] :
                    hosts[h].ssh[1][f] = RefSSH(h, f)
              /\ hosts[h].rsync = <<>> <=> FileOf(h).rsync \o dir.globals[1].rsync = <<>>
              /\ hosts[h].rsync # <<>> => \A k \in Kind :
                    hosts[h].rsync[1].list[k] = RefRSync(h, k)
              /\ \A w \in When : hosts[h].scripts[w] = RefHooks(h, w)

\* Whose inline lines are written into the spare room of the global array.
Writers(w) == {h \in DOMAIN hosts : RefInline(h, w) # <<>> /\ Fits(RefGlobal(w), RefInline(h, w))}

\* After the merge, in whatever order the map is walked, a host runs the global
\* inline script and then its own.  The exception is a host that shares the
\* spare room of the global array (append in mergeGlobals) with another one:
\* it keeps the global lines, and as many more as it has itself.
InlineExact ==
    Loaded => \A h \in DOMAIN hosts, w \in When :
        LET lines == Inline(hosts[h].inline[w], spare[w]) IN
        /\ Len(lines) = Len(RefGlobal(w)) + Len(RefInline(h, w))
        /\ IsPrefix(RefGlobal(w), lines)
        /\ lines = RefGlobal(w) \o RefInline(h, w) \/ (h \in Writers(w) /\ Writers(w) # {h})

\* The script of a host is the global one followed by its own: README, "a
\* single host's config is basically merged into the global config".
OwnScripts ==
    Loaded => \A h \in DOMAIN hosts, w \in When :
        ScriptLines(h, w) = RefGlobal(w) \o RefInline(h, w) \o RefHooks(h, w)
=============================================================================
