----------------------------- MODULE RsyncProofs -----------------------------
(***************************************************************************)
(* The filter rules of rsync, for every list of included and excluded      *)
(* paths: nothing is copied but what lies below an included path and what  *)
(* leads to one, and exactly that, without what a configured pattern       *)
(* excludes, unless one included path lies below another.                  *)
(*                                                                         *)
(* The loops of filter are recursive functions.  Which rules they make is  *)
(* said as sets: an include rule for every level of every included path,   *)
(* an exclude rule for the siblings of every level (RuleListsExact).  All  *)
(* includes come first, so a path is let in when an include rule matches   *)
(* it or no rule does (RulesDecide).                                       *)
(*                                                                         *)
(* The argument vector, for every list of options with their values: rsync *)
(* reads filter's rules, zackup's remote shell, the arguments that zackup  *)
(* does not reserve, the deletion and the two paths, and nothing else      *)
(* (VectorReadsConfig).                                                    *)
(***************************************************************************)
EXTENDS MCRsync, Induction

----------------------------------------------------------------------------
(* The loops of filter and filepath.Clean.                                 *)

\* The elements of a list, which AppendNew adds to.
Elems(list) == {list[i] : i \in 1..Len(list)}

LEMMA AppendNewAdds ==
    ASSUME NEW S, NEW list \in Seq(S), NEW f \in S
    PROVE  /\ AppendNew(list, f) \in Seq(S)
           /\ Elems(AppendNew(list, f)) = Elems(list) \cup {f}
<1>1. CASE Contains(list, f)
  <2>1. f \in Elems(list)
    BY <1>1 DEF Contains, Elems
  <2> QED BY <1>1, <2>1 DEF AppendNew
<1>2. CASE ~Contains(list, f)
  <2>1. AppendNew(list, f) = Append(list, f)
    BY <1>2 DEF AppendNew
  <2>2. Append(list, f) \in Seq(S) /\ Elems(Append(list, f)) = Elems(list) \cup {f}
    <3>1. /\ Len(Append(list, f)) = Len(list) + 1
          /\ \A i \in 1..Len(list) : Append(list, f)[i] = list[i]
          /\ Append(list, f)[Len(list) + 1] = f
      OBVIOUS
    <3> QED BY <3>1 DEF Elems
  <2> QED BY <2>1, <2>2
<1> QED BY <1>1, <1>2

\* The beginnings of a path.
LEMMA PathLevel ==
    ASSUME NEW Y, NEW path \in Seq(Y), NEW k \in 0..Len(path)
    PROVE  /\ SubSeq(path, 1, k) \in Seq(Y) /\ Len(SubSeq(path, 1, k)) = k
           /\ \A i \in 1..k : SubSeq(path, 1, k)[i] = path[i]
           /\ SubSeq(path, 1, k) \in Prefixes(path)
<1>1. k \in Nat /\ Len(path) \in Nat /\ k <= Len(path) /\ 1..k \subseteq 1..Len(path)
  OBVIOUS
<1>2. /\ SubSeq(path, 1, k) \in Seq(Y) /\ Len(SubSeq(path, 1, k)) = k
      /\ \A i \in 1..k : SubSeq(path, 1, k)[i] = path[i]
  BY <1>1
<1> QED BY <1>2 DEF Prefixes

\* What one element of a raw path makes of the clean path before it.
Entered(p, elem) ==
    IF elem = ".." /\ p = <<>> THEN <<>>
    ELSE IF elem = ".." THEN Front(p)
    ELSE IF elem \in {"", "."} THEN p
    ELSE Append(p, elem)

\* The elements that a clean path may hold.
Solid(E) == E \ {"", ".", ".."}

LEMMA EnteredTypes ==
    ASSUME NEW E, NEW p \in Seq(Solid(E)), NEW elem \in E
    PROVE  /\ Entered(p, elem) \in Seq(Solid(E))
           /\ Len(Entered(p, elem)) <= Len(p) + 1
           /\ elem \in {"", ".", ".."} => Len(Entered(p, elem)) <= Len(p)
<1>1. PICK S : S = Solid(E)
  OBVIOUS
<1>2. PICK e : e = Entered(p, elem)
  OBVIOUS
<1>3. PICK l \in Nat : l = Len(p) /\ (p # <<>> => l # 0)
  OBVIOUS
<1> DEFINE Good == /\ e \in Seq(S) /\ Len(e) <= l + 1
                   /\ elem \in {"", ".", ".."} => Len(e) <= l
<1>4. ASSUME elem = ".." /\ p = <<>> PROVE Good
  <2>1. e = <<>>
    BY <1>2, <1>4 DEF Entered
  <2>2. e \in Seq(S) /\ Len(e) = 0
    BY <2>1
  <2>3. Len(e) <= l
    BY <1>3, <2>2
  <2>4. Len(e) <= l + 1
    BY <2>2, <1>3
  <2> QED BY <2>2, <2>3, <2>4
<1>5. ASSUME elem = ".." /\ p # <<>> PROVE Good
  <2>1. e = SubSeq(p, 1, l - 1)
    BY <1>2, <1>3, <1>5 DEF Entered, Front
  <2>2. e \in Seq(S) /\ Len(e) = l - 1
    <3>1. p \in Seq(S) /\ l - 1 \in 0..Len(p)
      BY <1>1, <1>3, <1>5
    <3> QED BY <2>1, <3>1, PathLevel
  <2>3. Len(e) <= l /\ Len(e) <= l + 1
    BY <1>3, <1>5, <2>2
  <2> QED BY <2>2, <2>3
<1>6. ASSUME elem \in {"", "."} PROVE Good
  <2>1. e = p
    BY <1>2, <1>6 DEF Entered
  <2>2. e \in Seq(S) /\ Len(e) = l /\ l <= l + 1
    BY <1>1, <1>3, <2>1
  <2> QED BY <2>2
<1>7. ASSUME elem \notin {"", ".", ".."} PROVE Good
  <2>1. e = Append(p, elem)
    BY <1>2, <1>7 DEF Entered
  <2>2. elem \in S /\ p \in Seq(S)
    BY <1>1, <1>7 DEF Solid
  <2>3. e \in Seq(S) /\ Len(e) = l + 1
    BY <1>3, <2>1, <2>2
  <2>4. Len(e) <= l + 1
    BY <2>3
  <2> QED BY <1>7, <2>3, <2>4
<1>8. Good
  <2> HIDE DEF Good
  <2> QED BY <1>4, <1>5, <1>6, <1>7
<1>9. e \in Seq(Solid(E)) /\ Len(e) <= Len(p) + 1
  BY <1>1, <1>3, <1>8
<1>10. elem \in {"", ".", ".."} => Len(e) <= Len(p)
  BY <1>3, <1>8
<1> QED BY <1>2, <1>9, <1>10

\* The loop enters one element after the other.
LEMMA CleanLoop ==
    ASSUME NEW E, NEW raw \in Seq(E)
    PROVE  /\ cleanElems(raw)[0] = <<>>
           /\ \A n \in 0..Len(raw) : cleanElems(raw)[n] \in Seq(Solid(E))
           /\ \A n \in 1..Len(raw) : cleanElems(raw)[n] = Entered(cleanElems(raw)[n - 1], raw[n])
<1> DEFINE Def(g, N) ==
               [n \in 0..N |->
                   IF n = 0 \/ (raw[n] = ".." /\ g[n - 1] = <<>>) THEN <<>>
                   ELSE IF raw[n] = ".." THEN Front(g[n - 1])
                   ELSE IF raw[n] \in {"", "."} THEN g[n - 1]
                   ELSE Append(g[n - 1], raw[n])]
           S == Seq(Solid(E))
<1>1. cleanElems(raw) = CHOOSE g : g = Def(g, Len(raw))
  BY DEF cleanElems
<1>2. PICK N \in Nat : N = Len(raw) /\ \A n \in 1..N : raw[n] \in E
  OBVIOUS
<1>3. ASSUME NEW n \in 1..N, NEW p \in S PROVE Entered(p, raw[n]) \in S
  BY <1>2, EnteredTypes
<1> HIDE DEF S
<1>4. \E g : g = Def(g, N)
  <2> DEFINE next == [n \in Nat |-> [p \in S |-> IF n \in 1..N THEN Entered(p, raw[n]) ELSE p]]
  <2>1. next \in [Nat -> [S -> S]]
    <3>1. ASSUME NEW n \in Nat, NEW p \in S
          PROVE  (IF n \in 1..N THEN Entered(p, raw[n]) ELSE p) \in S
      BY <1>3
    <3> QED BY <3>1
  <2>2. ASSUME NEW n \in 1..N, NEW p \in S PROVE next[n][p] = Entered(p, raw[n])
    BY n \in Nat
  <2> HIDE DEF next
  <2>3. PICK g \in [0..N -> S] :
           g[0] = <<>> /\ \A n \in 1..N : g[n] = next[n][g[n - 1]]
    <3>1. <<>> \in S
      BY DEF S
    <3>2. PICK g \in [0..N -> S] : Iterates(g, <<>>, next, N)
      BY <2>1, <3>1, Recursion
    <3> QED BY <3>2 DEF Iterates
  <2>4. ASSUME NEW n \in 1..N PROVE g[n] = Entered(g[n - 1], raw[n])
    <3>1. n - 1 \in 0..N /\ g[n - 1] \in S
      OBVIOUS
    <3> QED BY <2>2, <2>3, <3>1
  <2>5. ASSUME NEW n \in 0..N PROVE g[n] = Def(g, N)[n]
    <3>1. n = 0 \/ n \in 1..N
      OBVIOUS
    <3> QED BY <2>3, <2>4, <3>1 DEF Entered
  <2>6. g = Def(g, N)
    BY <2>5
  <2> QED BY <2>6
<1>5. cleanElems(raw) = Def(cleanElems(raw), N)
  <2> HIDE DEF Def
  <2> QED BY <1>1, <1>2, <1>4
<1>6. cleanElems(raw)[0] = <<>>
  <2>1. 0 \in 0..N
    OBVIOUS
  <2> QED BY <1>5, <2>1
<1>7. ASSUME NEW n \in 1..N PROVE cleanElems(raw)[n] = Entered(cleanElems(raw)[n - 1], raw[n])
  <2>1. n \in 0..N /\ n # 0
    OBVIOUS
  <2> QED BY <1>5, <2>1 DEF Entered
<1> DEFINE T == {n \in 0..N : cleanElems(raw)[n] \in S}
<1>8. 0 \in T /\ \A n \in 1..N : n - 1 \in T => n \in T
  <2>1. cleanElems(raw)[0] \in S
    BY <1>6 DEF S
  <2>2. ASSUME NEW n \in 1..N, cleanElems(raw)[n - 1] \in S PROVE cleanElems(raw)[n] \in S
    BY <1>3, <1>7, <2>2
  <2>3. 0 \in 0..N /\ \A n \in 1..N : n \in 0..N
    OBVIOUS
  <2> QED BY <2>1, <2>2, <2>3
<1>9. \A n \in 0..N : cleanElems(raw)[n] \in S
  <2>1. 0..N \subseteq T
    <3> HIDE DEF T
    <3> QED BY <1>8, BoundedInduction
  <2> QED BY <2>1
<1> QED BY <1>2, <1>6, <1>7, <1>9 DEF S

\* Clean makes a path of elements of the raw one, without empty and dotted
\* ones.
LEMMA CleanTypes ==
    ASSUME NEW E, NEW raw \in Seq(E)
    PROVE  Clean(raw) \in Seq(Solid(E)) /\ Clean(raw) \in Seq(E)
<1>1. PICK p \in Seq(Solid(E)) : p = Clean(raw)
  <2>1. Len(raw) \in 0..Len(raw)
    OBVIOUS
  <2> QED BY <2>1, CleanLoop DEF Clean
<1>2. p \in Seq(E)
  <2>1. Len(p) \in Nat /\ \A i \in 1..Len(p) : p[i] \in Solid(E)
    OBVIOUS
  <2>2. Len(p) \in Nat /\ \A i \in 1..Len(p) : p[i] \in E
    BY <2>1 DEF Solid
  <2> QED BY <2>2
<1> QED BY <1>1, <1>2

\* A path gets longer by one element at most, by a dotted one not at all.
LEMMA CleanLength ==
    ASSUME NEW E, NEW raw \in Seq(E)
    PROVE  \E l \in [0..Len(raw) -> Nat] :
              /\ l[0] = 0 /\ l[Len(raw)] = Len(Clean(raw))
              /\ \A n \in 1..Len(raw) : /\ l[n] <= l[n - 1] + 1
                                        /\ raw[n] \in {"", ".", ".."} => l[n] <= l[n - 1]
<1> DEFINE l == [n \in 0..Len(raw) |-> Len(cleanElems(raw)[n])]
<1>1. l \in [0..Len(raw) -> Nat]
  <2>1. ASSUME NEW n \in 0..Len(raw) PROVE Len(cleanElems(raw)[n]) \in Nat
    <3>1. PICK p \in Seq(Solid(E)) : p = cleanElems(raw)[n]
      BY CleanLoop
    <3> QED BY <3>1
  <2> QED BY <2>1
<1>2. l[0] = 0
  <2>1. cleanElems(raw)[0] = <<>> /\ 0 \in 0..Len(raw)
    BY CleanLoop
  <2>2. Len(cleanElems(raw)[0]) = 0
    BY <2>1
  <2> QED BY <2>1, <2>2
<1>3. l[Len(raw)] = Len(Clean(raw))
  <2>1. Len(raw) \in 0..Len(raw)
    OBVIOUS
  <2> QED BY <2>1 DEF Clean
<1>4. ASSUME NEW n \in 1..Len(raw)
      PROVE  l[n] <= l[n - 1] + 1 /\ (raw[n] \in {"", ".", ".."} => l[n] <= l[n - 1])
  <2>1. n \in 0..Len(raw) /\ n - 1 \in 0..Len(raw) /\ raw[n] \in E
    OBVIOUS
  <2>2. PICK p \in Seq(Solid(E)) : p = cleanElems(raw)[n - 1]
    BY <2>1, CleanLoop
  <2>3. PICK e \in Seq(Solid(E)) : e = cleanElems(raw)[n] /\ e = Entered(p, raw[n])
    BY <2>1, <2>2, CleanLoop
  <2>4. Len(e) <= Len(p) + 1 /\ (raw[n] \in {"", ".", ".."} => Len(e) <= Len(p))
    BY <2>1, <2>3, EnteredTypes
  <2>5. l[n] = Len(e) /\ l[n - 1] = Len(p)
    BY <2>1, <2>2, <2>3
  <2> QED BY <2>4, <2>5
<1> HIDE DEF l
<1> QED BY <1>1, <1>2, <1>3, <1>4

\* The lists of filter: paths, and the patterns made of them.
Pattern(E)   == Seq(E \cup {"*"})
RuleLists(E) == [inc : Seq(Pattern(E)), exc : Seq(Pattern(E))]

\* What is made of a path is a pattern.
LEMMA LevelTypes ==
    ASSUME NEW E, NEW file \in Seq(E), NEW n \in 1..Len(file)
    PROVE  Level(file, n) \in Pattern(E) /\ Siblings(file, n) \in Pattern(E)
<1>1. file \in Seq(E \cup {"*"})
  <2>1. Len(file) \in Nat /\ \A i \in 1..Len(file) : file[i] \in E \cup {"*"}
    OBVIOUS
  <2> QED BY <2>1
<1>2. SubSeq(file, 1, n) \in Pattern(E) /\ SubSeq(file, 1, n - 1) \in Pattern(E)
  <2>1. Len(file) \in Nat /\ \A i \in 1..Len(file) : file[i] \in E \cup {"*"}
    BY <1>1
  <2>2. n \in Nat /\ n - 1 \in Nat /\ n <= Len(file)
    BY <2>1
  <2> QED BY <1>1, <2>1, <2>2 DEF Pattern
<1>3. Append(SubSeq(file, 1, n - 1), "*") \in Pattern(E)
  BY <1>2 DEF Pattern
<1> QED BY <1>2, <1>3 DEF Level, Siblings

\* The lists with these elements added.
Adds(E, new, old, incs, excs) ==
    /\ new \in RuleLists(E)
    /\ Elems(new.inc) = Elems(old.inc) \cup incs
    /\ Elems(new.exc) = Elems(old.exc) \cup excs

\* One turn of the inner loop, and all its turns.
addLevel(file, n, lists) ==
    [inc |-> AppendNew(lists.inc, Level(file, n)), exc |-> AppendNew(lists.exc, Siblings(file, n))]

LEMMA AddLevelAdds ==
    ASSUME NEW E, NEW lists \in RuleLists(E), NEW file \in Seq(E), NEW n \in 1..Len(file)
    PROVE  Adds(E, addLevel(file, n, lists), lists, {Level(file, n)}, {Siblings(file, n)})
<1>1. lists.inc \in Seq(Pattern(E)) /\ lists.exc \in Seq(Pattern(E))
  BY DEF RuleLists
<1>2. /\ AppendNew(lists.inc, Level(file, n)) \in Seq(Pattern(E))
      /\ Elems(AppendNew(lists.inc, Level(file, n))) = Elems(lists.inc) \cup {Level(file, n)}
      /\ AppendNew(lists.exc, Siblings(file, n)) \in Seq(Pattern(E))
      /\ Elems(AppendNew(lists.exc, Siblings(file, n))) = Elems(lists.exc) \cup {Siblings(file, n)}
  <2>1. PICK S : S = Pattern(E)
    OBVIOUS
  <2>2. /\ lists.inc \in Seq(S) /\ lists.exc \in Seq(S)
        /\ Level(file, n) \in S /\ Siblings(file, n) \in S
    BY <1>1, <2>1, LevelTypes
  <2>3. /\ AppendNew(lists.inc, Level(file, n)) \in Seq(S)
        /\ Elems(AppendNew(lists.inc, Level(file, n))) = Elems(lists.inc) \cup {Level(file, n)}
    <3>1. PICK old \in Seq(S), f \in S : old = lists.inc /\ f = Level(file, n)
      BY <2>2
    <3>2. AppendNew(old, f) \in Seq(S) /\ Elems(AppendNew(old, f)) = Elems(old) \cup {f}
      BY AppendNewAdds
    <3> QED BY <3>1, <3>2
  <2>4. /\ AppendNew(lists.exc, Siblings(file, n)) \in Seq(S)
        /\ Elems(AppendNew(lists.exc, Siblings(file, n))) = Elems(lists.exc) \cup {Siblings(file, n)}
    <3>1. PICK old \in Seq(S), f \in S : old = lists.exc /\ f = Siblings(file, n)
      BY <2>2
    <3>2. AppendNew(old, f) \in Seq(S) /\ Elems(AppendNew(old, f)) = Elems(old) \cup {f}
      BY AppendNewAdds
    <3> QED BY <3>1, <3>2
  <2> QED BY <2>1, <2>3, <2>4
<1> QED BY <1>2 DEF addLevel, RuleLists, Adds

LEMMA AddLevelsLoop ==
    ASSUME NEW E, NEW lists \in RuleLists(E), NEW file \in Seq(E)
    PROVE  /\ addLevels(lists, file)[0] = lists
           /\ \A n \in 1..Len(file) :
                 addLevels(lists, file)[n] = addLevel(file, n, addLevels(lists, file)[n - 1])
<1> DEFINE Def(g, N) ==
               [n \in 0..N |->
                   IF n = 0 THEN lists
                   ELSE [inc |-> AppendNew(g[n - 1].inc, Level(file, n)),
                         exc |-> AppendNew(g[n - 1].exc, Siblings(file, n))]]
           F == addLevels(lists, file)
<1>1. F = CHOOSE g : g = Def(g, Len(file))
  BY DEF addLevels
<1>2. PICK N \in Nat : N = Len(file)
  OBVIOUS
<1>3. \A g : Def(g, N) = [n \in 0..N |-> IF n = 0 THEN lists ELSE addLevel(file, n, g[n - 1])]
  BY DEF addLevel
<1>4. \E g : g = Def(g, N)
  <2> DEFINE next == [n \in Nat |-> [l \in RuleLists(E) |->
                         IF n \in 1..N THEN addLevel(file, n, l) ELSE l]]
  <2>1. next \in [Nat -> [RuleLists(E) -> RuleLists(E)]]
    <3>1. ASSUME NEW n \in Nat, NEW l \in RuleLists(E)
          PROVE  (IF n \in 1..N THEN addLevel(file, n, l) ELSE l) \in RuleLists(E)
      BY <1>2, AddLevelAdds DEF Adds
    <3> QED BY <3>1
  <2>2. ASSUME NEW n \in 1..N, NEW l \in RuleLists(E) PROVE next[n][l] = addLevel(file, n, l)
    BY n \in Nat
  <2> HIDE DEF next, Def
  <2>3. PICK g \in [0..N -> RuleLists(E)] : Iterates(g, lists, next, N)
    BY <2>1, Recursion
  <2>4. ASSUME NEW n \in 1..N PROVE g[n] = addLevel(file, n, g[n - 1])
    <3>1. n - 1 \in 0..N /\ g[n - 1] \in RuleLists(E)
      OBVIOUS
    <3> QED BY <2>2, <2>3, <3>1 DEF Iterates
  <2>5. ASSUME NEW n \in 0..N
        PROVE  g[n] = IF n = 0 THEN lists ELSE addLevel(file, n, g[n - 1])
    <3>1. n = 0 \/ n \in 1..N
      OBVIOUS
    <3> QED BY <2>3, <2>4, <3>1 DEF Iterates
  <2>6. g = [n \in 0..N |-> IF n = 0 THEN lists ELSE addLevel(file, n, g[n - 1])]
    BY <2>5
  <2> QED BY <1>3, <2>6
<1>5. F = Def(F, N)
  <2> HIDE DEF Def, F
  <2> QED BY <1>1, <1>2, <1>4
<1> HIDE DEF F, Def
<1>6. F = [n \in 0..N |-> IF n = 0 THEN lists ELSE addLevel(file, n, F[n - 1])]
  BY <1>3, <1>5
<1>7. 0 \in 0..N /\ \A n \in 1..N : n \in 0..N /\ n # 0
  OBVIOUS
<1>8. F[0] = lists /\ \A n \in 1..N : F[n] = addLevel(file, n, F[n - 1])
  BY <1>6, <1>7
<1> QED BY <1>2, <1>8 DEF F

LEMMA AddLevelsAdds ==
    ASSUME NEW E, NEW lists \in RuleLists(E), NEW file \in Seq(E),
           NEW all, all = addLevels(lists, file)[Len(file)]
    PROVE  Adds(E, all, lists, {Level(file, k) : k \in 1..Len(file)},
                               {Siblings(file, k) : k \in 1..Len(file)})
<1> DEFINE F == addLevels(lists, file)
           Done(n) == Adds(E, F[n], lists, {Level(file, k) : k \in 1..n},
                                           {Siblings(file, k) : k \in 1..n})
           T == {n \in 0..Len(file) : Done(n)}
<1>1. PICK N \in Nat : N = Len(file)
  OBVIOUS
<1>2. F[0] = lists /\ \A n \in 1..N : F[n] = addLevel(file, n, F[n - 1])
  BY <1>1, AddLevelsLoop
<1> HIDE DEF F
<1>3. Done(0)
  BY <1>2 DEF Adds
<1>4. ASSUME NEW n \in 1..N, Done(n - 1) PROVE Done(n)
  <2>1. Adds(E, F[n], F[n - 1], {Level(file, n)}, {Siblings(file, n)})
    <3>1. PICK before \in RuleLists(E) : before = F[n - 1]
      BY <1>4 DEF Adds
    <3>2. n \in 1..Len(file)
      BY <1>1
    <3>3. Adds(E, addLevel(file, n, before), before, {Level(file, n)}, {Siblings(file, n)})
      BY <3>2, AddLevelAdds
    <3> QED BY <1>2, <3>1, <3>3
  <2>2. 1..n = (1..n - 1) \cup {n}
    OBVIOUS
  <2>3. /\ {Level(file, k) : k \in 1..n} = {Level(file, k) : k \in 1..n - 1} \cup {Level(file, n)}
        /\ {Siblings(file, k) : k \in 1..n}
             = {Siblings(file, k) : k \in 1..n - 1} \cup {Siblings(file, n)}
    BY <2>2
  <2> QED BY <1>4, <2>1, <2>3 DEF Adds
<1> HIDE DEF Done
<1>5. 0 \in T /\ \A n \in 1..N : n - 1 \in T => n \in T
  <2>1. 0 \in 0..N /\ \A n \in 1..N : n \in 0..N
    OBVIOUS
  <2> QED BY <1>1, <1>3, <1>4, <2>1
<1>6. Done(N)
  <2>1. N \in 0..N /\ (N \in T => Done(N))
    BY <1>1
  <2> HIDE DEF T
  <2>2. 0..N \subseteq T
    BY <1>5, BoundedInduction
  <2> QED BY <2>1, <2>2
<1> QED BY <1>1, <1>6 DEF Done, F

\* What one included path is turned into.
Levels(file)      == IF file = <<>> THEN {<<>>} ELSE {Level(file, k) : k \in 1..Len(file)}
AllSiblings(file) == {Siblings(file, k) : k \in 1..Len(file)}

LEMMA AddIncludedAdds ==
    ASSUME NEW E, NEW lists \in RuleLists(E), NEW file \in Seq(E)
    PROVE  Adds(E, AddIncluded(lists, file), lists, Levels(file), AllSiblings(file))
<1>1. CASE file = <<>>
  <2>1. lists.inc \in Seq(Pattern(E)) /\ lists.exc \in Seq(Pattern(E))
    BY DEF RuleLists
  <2>2. <<>> \in Pattern(E)
    BY DEF Pattern
  <2> DEFINE new == Append(lists.inc, <<>>)
  <2>3. new \in Seq(Pattern(E)) /\ Elems(new) = Elems(lists.inc) \cup {<<>>}
    <3>1. PICK S, e : S = Pattern(E) /\ e = <<>>
      OBVIOUS
    <3>2. lists.inc \in Seq(S) /\ e \in S
      BY <2>1, <2>2, <3>1
    <3>3. Append(lists.inc, e) \in Seq(S) /\ Elems(Append(lists.inc, e)) = Elems(lists.inc) \cup {e}
      <4>1. /\ Len(Append(lists.inc, e)) = Len(lists.inc) + 1
            /\ \A i \in 1..Len(lists.inc) : Append(lists.inc, e)[i] = lists.inc[i]
            /\ Append(lists.inc, e)[Len(lists.inc) + 1] = e
        BY <3>2
      <4> QED BY <3>2, <4>1 DEF Elems
    <3> QED BY <3>1, <3>3
  <2>4. AddIncluded(lists, file) = [inc |-> new, exc |-> lists.exc]
    BY <1>1 DEF AddIncluded, RuleLists
  <2> HIDE DEF new
  <2>5. Levels(file) = {<<>>} /\ AllSiblings(file) = {}
    BY <1>1 DEF Levels, AllSiblings
  <2> QED BY <2>1, <2>3, <2>4, <2>5 DEF Adds, RuleLists
<1>2. CASE file # <<>>
  BY <1>2, AddLevelsAdds DEF AddIncluded, Levels, AllSiblings
<1> QED BY <1>1, <1>2

\* The loop over the included paths.
NoRules == [inc |-> <<>>, exc |-> <<>>]

LEMMA RuleListsLoop ==
    ASSUME NEW E, NEW included \in Seq(Seq(E))
    PROVE  /\ ruleLists(included)[0] = NoRules
           /\ \A n \in 1..Len(included) :
                 ruleLists(included)[n] = AddIncluded(ruleLists(included)[n - 1], Clean(included[n]))
<1> DEFINE Def(g, N) ==
               [n \in 0..N |-> IF n = 0 THEN [inc |-> <<>>, exc |-> <<>>]
                               ELSE AddIncluded(g[n - 1], Clean(included[n]))]
           F == ruleLists(included)
<1>1. F = CHOOSE g : g = Def(g, Len(included))
  BY DEF ruleLists
<1>2. PICK N \in Nat : N = Len(included)
  OBVIOUS
<1>3. NoRules \in RuleLists(E)
  <2>1. <<>> \in Seq(Pattern(E))
    OBVIOUS
  <2> QED BY <2>1 DEF NoRules, RuleLists
<1>4. ASSUME NEW n \in 1..N, NEW l \in RuleLists(E)
      PROVE  AddIncluded(l, Clean(included[n])) \in RuleLists(E)
  <2>1. included[n] \in Seq(E)
    BY <1>2
  <2>2. Clean(included[n]) \in Seq(E)
    BY <2>1, CleanTypes
  <2> QED BY <2>2, AddIncludedAdds DEF Adds
<1>5. \E g : g = Def(g, N)
  <2> DEFINE next == [n \in Nat |-> [l \in RuleLists(E) |->
                         IF n \in 1..N THEN AddIncluded(l, Clean(included[n])) ELSE l]]
  <2>1. next \in [Nat -> [RuleLists(E) -> RuleLists(E)]]
    <3>1. ASSUME NEW n \in Nat, NEW l \in RuleLists(E)
          PROVE  (IF n \in 1..N THEN AddIncluded(l, Clean(included[n])) ELSE l) \in RuleLists(E)
      BY <1>4
    <3> QED BY <3>1
  <2>2. ASSUME NEW n \in 1..N, NEW l \in RuleLists(E)
        PROVE  next[n][l] = AddIncluded(l, Clean(included[n]))
    BY n \in Nat
  <2> HIDE DEF next, Def
  <2>3. PICK g \in [0..N -> RuleLists(E)] : Iterates(g, NoRules, next, N)
    BY <1>3, <2>1, Recursion
  <2>4. ASSUME NEW n \in 1..N PROVE g[n] = AddIncluded(g[n - 1], Clean(included[n]))
    <3>1. n - 1 \in 0..N /\ g[n - 1] \in RuleLists(E)
      OBVIOUS
    <3> QED BY <2>2, <2>3, <3>1 DEF Iterates
  <2>5. ASSUME NEW n \in 0..N
        PROVE  g[n] = IF n = 0 THEN NoRules ELSE AddIncluded(g[n - 1], Clean(included[n]))
    <3>1. n = 0 \/ n \in 1..N
      OBVIOUS
    <3> QED BY <2>3, <2>4, <3>1 DEF Iterates
  <2>6. g = [n \in 0..N |-> IF n = 0 THEN NoRules ELSE AddIncluded(g[n - 1], Clean(included[n]))]
    BY <2>5
  <2> QED BY <2>6 DEF Def, NoRules
<1>6. F = Def(F, N)
  <2> HIDE DEF Def, F
  <2> QED BY <1>1, <1>2, <1>5
<1> HIDE DEF F
<1>7. F = [n \in 0..N |-> IF n = 0 THEN NoRules ELSE AddIncluded(F[n - 1], Clean(included[n]))]
  BY <1>6 DEF NoRules
<1>8. 0 \in 0..N /\ \A n \in 1..N : n \in 0..N /\ n # 0
  OBVIOUS
<1> HIDE DEF Def
<1>9. F[0] = NoRules /\ \A n \in 1..N : F[n] = AddIncluded(F[n - 1], Clean(included[n]))
  BY <1>7, <1>8
<1> QED BY <1>2, <1>9 DEF F

\* What filter's loops have made of all included paths: inc has no path but
\* those that lead to an included one, exc the siblings of all of them.
LEMMA RuleListsExact ==
    ASSUME NEW E, NEW included \in Seq(Seq(E)),
           NEW all, all = ruleLists(included)[Len(included)]
    PROVE  Adds(E, all, NoRules, UNION {Levels(Clean(included[m])) : m \in 1..Len(included)},
                                 UNION {AllSiblings(Clean(included[m])) : m \in 1..Len(included)})
<1> DEFINE F == ruleLists(included)
           Incs(n) == UNION {Levels(Clean(included[m])) : m \in 1..n}
           Excs(n) == UNION {AllSiblings(Clean(included[m])) : m \in 1..n}
           Done(n) == Adds(E, F[n], NoRules, Incs(n), Excs(n))
           T == {n \in 0..Len(included) : Done(n)}
<1>1. PICK N \in Nat : N = Len(included)
  OBVIOUS
<1>2. F[0] = NoRules /\ \A n \in 1..N : F[n] = AddIncluded(F[n - 1], Clean(included[n]))
  BY <1>1, RuleListsLoop
<1> HIDE DEF F
<1>3. Done(0)
  <2>1. Incs(0) = {} /\ Excs(0) = {}
    OBVIOUS
  <2>2. NoRules \in RuleLists(E)
    <3>1. <<>> \in Seq(Pattern(E))
      OBVIOUS
    <3> QED BY <3>1 DEF NoRules, RuleLists
  <2> HIDE DEF Incs, Excs
  <2> QED BY <1>2, <2>1, <2>2 DEF Adds
<1>4. ASSUME NEW n \in 1..N, Done(n - 1) PROVE Done(n)
  <2>1. Adds(E, F[n], F[n - 1], Levels(Clean(included[n])), AllSiblings(Clean(included[n])))
    <3>1. PICK before \in RuleLists(E) : before = F[n - 1]
      BY <1>4 DEF Adds
    <3>2. included[n] \in Seq(E)
      BY <1>1
    <3>3. PICK file \in Seq(E) : file = Clean(included[n])
      BY <3>2, CleanTypes
    <3>4. Adds(E, AddIncluded(before, file), before, Levels(file), AllSiblings(file))
      BY AddIncludedAdds
    <3> QED BY <1>2, <3>1, <3>3, <3>4
  <2>2. 1..n = (1..n - 1) \cup {n}
    OBVIOUS
  <2>3. /\ Incs(n) = Incs(n - 1) \cup Levels(Clean(included[n]))
        /\ Excs(n) = Excs(n - 1) \cup AllSiblings(Clean(included[n]))
    BY <2>2
  <2> HIDE DEF Incs, Excs
  <2> QED BY <1>4, <2>1, <2>3 DEF Adds
<1> HIDE DEF Done
<1>5. 0 \in T /\ \A n \in 1..N : n - 1 \in T => n \in T
  <2>1. 0 \in 0..N /\ \A n \in 1..N : n \in 0..N
    OBVIOUS
  <2> QED BY <1>1, <1>3, <1>4, <2>1
<1>6. Done(N)
  <2>1. N \in 0..N /\ (N \in T => Done(N))
    BY <1>1
  <2> HIDE DEF T
  <2>2. 0..N \subseteq T
    BY <1>5, BoundedInduction
  <2> QED BY <2>1, <2>2
<1> QED BY <1>1, <1>6 DEF Done, F, Incs, Excs

----------------------------------------------------------------------------
(* Which rule decides.                                                     *)

\* A path leads to another when they agree on its levels.
LEMMA PrefixElements ==
    ASSUME NEW A, NEW B, NEW s \in Seq(A), NEW t \in Seq(B)
    PROVE  IsPrefix(s, t) <=> Len(s) <= Len(t) /\ \A i \in 1..Len(s) : s[i] = t[i]
<1>1. CASE Len(s) <= Len(t)
  <2>1. Len(s) \in Nat /\ Len(t) \in Nat
    OBVIOUS
  <2>2. SubSeq(s, 1, Len(s)) = [i \in 1..Len(s) |-> s[i]]
    BY <2>1
  <2>3. SubSeq(t, 1, Len(s)) = [i \in 1..Len(s) |-> t[i]]
    BY <1>1, <2>1
  <2> QED BY <1>1, <2>2, <2>3 DEF IsPrefix
<1>2. CASE ~(Len(s) <= Len(t))
  BY <1>2 DEF IsPrefix
<1> QED BY <1>1, <1>2

\* An anchored pattern matches paths of its length.
LEMMA AnchoredMatch ==
    ASSUME NEW f, NEW q, Len(f) \in Nat
    PROVE  MatchesFile(Anchored(f), q) <=>
              /\ Len(q) = Len(f) /\ Len(f) > 0
              /\ \A i \in 1..Len(f) : f[i] \in {"*", q[i]}
<1>1. Anchored(f).anchored /\ Anchored(f).elems = f
  BY DEF Anchored
<1>2. \A i \in 1..Len(f) : i + 0 = i
  OBVIOUS
<1> QED BY <1>1, <1>2 DEF MatchesFile

\* What two lists of rules make.
Joins(all, s, t) ==
    /\ Len(all) = Len(s) + Len(t)
    /\ \A n \in 1..Len(s) : all[n] = s[n]
    /\ \A n \in 1..Len(t) : all[Len(s) + n] = t[n]

LEMMA ConcatJoins ==
    ASSUME NEW R, NEW s \in Seq(R), NEW t \in Seq(R)
    PROVE  s \o t \in Seq(R) /\ Joins(s \o t, s, t)
BY DEF Joins

\* The includes come first, then the excludes, then the configured excludes.
RulesOf(rules, all, excluded) ==
    /\ Len(rules) = Len(all.inc) + Len(all.exc) + Len(excluded)
    /\ \A n \in 1..Len(all.inc) :
          rules[n].name = "include" /\ rules[n].val = Anchored(all.inc[n])
    /\ \A n \in 1..Len(all.exc) : /\ rules[Len(all.inc) + n].name = "exclude"
                                   /\ rules[Len(all.inc) + n].val = Anchored(all.exc[n])
    /\ \A n \in 1..Len(excluded) : /\ rules[Len(all.inc) + Len(all.exc) + n].name = "exclude"
                                    /\ rules[Len(all.inc) + Len(all.exc) + n].val = excluded[n]

LEMMA FilterRules ==
    ASSUME NEW c, NEW X, NEW Y, NEW Z, c.excluded \in Seq(X),
           NEW all, all = ruleLists(c.included)[Len(c.included)],
           all.inc \in Seq(Y), all.exc \in Seq(Z)
    PROVE  RulesOf(filter(c), all, c.excluded)
<1> DEFINE incs == includeRules(all.inc)
           excs == excludeRules(all.exc)
           more == configRules(c)
<1>1. filter(c) = incs \o excs \o more
  BY DEF filter
<1>2. PICK a \in Nat, b \in Nat, m \in Nat :
         a = Len(all.inc) /\ b = Len(all.exc) /\ m = Len(c.excluded)
  OBVIOUS
<1>3. /\ incs = [n \in 1..a |-> Option("long=", "include", Anchored(all.inc[n]))]
      /\ excs = [n \in 1..b |-> Option("long=", "exclude", Anchored(all.exc[n]))]
      /\ more = [n \in 1..m |-> Option("long=", "exclude", c.excluded[n])]
  BY <1>2 DEF includeRules, excludeRules, configRules
<1> HIDE DEF incs, excs, more
<1>4. PICK S : \A n \in 1..a : incs[n] \in S
  <2>1. \A n \in 1..a : incs[n] \in {incs[i] : i \in 1..a}
    OBVIOUS
  <2> QED BY <2>1
<1>5. PICK S2 : \A n \in 1..b : excs[n] \in S2
  <2>1. \A n \in 1..b : excs[n] \in {excs[i] : i \in 1..b}
    OBVIOUS
  <2> QED BY <2>1
<1>6. PICK S3 : \A n \in 1..m : more[n] \in S3
  <2>1. \A n \in 1..m : more[n] \in {more[i] : i \in 1..m}
    OBVIOUS
  <2> QED BY <2>1
<1>7. PICK R : R = S \cup S2 \cup S3
  OBVIOUS
<1>8. incs \in Seq(R) /\ excs \in Seq(R) /\ more \in Seq(R)
      /\ Len(incs) = a /\ Len(excs) = b /\ Len(more) = m
  BY <1>3, <1>4, <1>5, <1>6, <1>7
<1>9. PICK two \in Seq(R) : two = incs \o excs /\ Joins(two, incs, excs)
  BY <1>8, ConcatJoins
<1>10. Joins(filter(c), two, more)
  <2>1. filter(c) = two \o more
    BY <1>1, <1>9
  <2> QED BY <1>8, <2>1, ConcatJoins
<1>11. /\ Len(two) = a + b /\ \A n \in 1..a : two[n] = incs[n]
       /\ \A n \in 1..b : two[a + n] = excs[n]
  BY <1>8, <1>9 DEF Joins
<1>12. /\ Len(filter(c)) = a + b + m /\ \A n \in 1..a + b : filter(c)[n] = two[n]
       /\ \A n \in 1..m : filter(c)[a + b + n] = more[n]
  BY <1>8, <1>10, <1>11 DEF Joins
<1>13. /\ \A n \in 1..a : n \in 1..a + b
       /\ \A n \in 1..b : a + n \in 1..a + b
  OBVIOUS
<1>14. /\ \A n \in 1..a : filter(c)[n] = incs[n]
       /\ \A n \in 1..b : filter(c)[a + n] = excs[n]
  BY <1>11, <1>12, <1>13
<1>15. /\ \A n \in 1..a : incs[n].name = "include" /\ incs[n].val = Anchored(all.inc[n])
       /\ \A n \in 1..b : excs[n].name = "exclude" /\ excs[n].val = Anchored(all.exc[n])
       /\ \A n \in 1..m : more[n].name = "exclude" /\ more[n].val = c.excluded[n]
  BY <1>3 DEF Option
<1>16. ASSUME NEW n \in 1..a
       PROVE  filter(c)[n].name = "include" /\ filter(c)[n].val = Anchored(all.inc[n])
  <2>1. filter(c)[n] = incs[n]
    BY <1>14
  <2> QED BY <1>15, <2>1
<1>17. ASSUME NEW n \in 1..b
       PROVE  filter(c)[a + n].name = "exclude" /\ filter(c)[a + n].val = Anchored(all.exc[n])
  <2>1. filter(c)[a + n] = excs[n]
    BY <1>14
  <2> QED BY <1>15, <2>1
<1>18. ASSUME NEW n \in 1..m
       PROVE  filter(c)[a + b + n].name = "exclude" /\ filter(c)[a + b + n].val = c.excluded[n]
  <2>1. filter(c)[a + b + n] = more[n]
    BY <1>12
  <2> QED BY <1>15, <2>1
<1>19. Len(filter(c)) = a + b + m
  BY <1>12
<1> QED BY <1>2, <1>16, <1>17, <1>18, <1>19 DEF RulesOf

\* The rules of which sort match a path.
IncludeHits(c, q) == \E m \in 1..Len(c.included) :
                        \E f \in Levels(Clean(c.included[m])) : MatchesFile(Anchored(f), q)
ExcludeHits(c, q) == \E m \in 1..Len(c.included) :
                        \E f \in AllSiblings(Clean(c.included[m])) : MatchesFile(Anchored(f), q)
ConfigHits(c, q)  == \E n \in 1..Len(c.excluded) : MatchesFile(c.excluded[n], q)

\* The rules before a are the includes.
LEMMA RuleSections ==
    ASSUME NEW E, NEW c, c.included \in Seq(Seq(E)), NEW X, c.excluded \in Seq(X)
    PROVE  /\ Len(filter(c)) \in Nat
           /\ \E a \in 0..Len(filter(c)) : \A q :
                 /\ \A n \in 1..a : filter(c)[n].name = "include"
                 /\ \A n \in a + 1..Len(filter(c)) : filter(c)[n].name = "exclude"
                 /\ IncludeHits(c, q) <=> \E n \in 1..a : MatchesFile(filter(c)[n].val, q)
                 /\ ExcludeHits(c, q) \/ ConfigHits(c, q) <=>
                       \E n \in a + 1..Len(filter(c)) : MatchesFile(filter(c)[n].val, q)
<1> DEFINE M       == 1..Len(c.included)
           file(m) == Clean(c.included[m])
           rules   == filter(c)
<1>1. PICK all : all = ruleLists(c.included)[Len(c.included)]
  OBVIOUS
<1>2. /\ all.inc \in Seq(Pattern(E)) /\ all.exc \in Seq(Pattern(E))
      /\ Elems(all.inc) = UNION {Levels(file(m)) : m \in M}
      /\ Elems(all.exc) = UNION {AllSiblings(file(m)) : m \in M}
  <2>1. Adds(E, all, NoRules, UNION {Levels(Clean(c.included[m])) : m \in M},
                              UNION {AllSiblings(Clean(c.included[m])) : m \in M})
    BY <1>1, RuleListsExact
  <2>2. Elems(<<>>) = {}
    BY DEF Elems
  <2> QED BY <2>1, <2>2 DEF Adds, NoRules, RuleLists
<1>3. RulesOf(rules, all, c.excluded)
  BY <1>1, <1>2, FilterRules
<1>4. PICK a \in Nat, b \in Nat, e \in Nat :
         a = Len(all.inc) /\ b = Len(all.exc) /\ e = Len(c.excluded)
  BY <1>2
<1> HIDE DEF rules
<1>5. PICK L \in Nat : L = a + b + e /\ L = Len(rules)
  <2>1. Len(rules) = Len(all.inc) + Len(all.exc) + Len(c.excluded)
    BY <1>3 DEF RulesOf
  <2>2. a + b + e \in Nat
    OBVIOUS
  <2> QED BY <1>4, <2>1, <2>2
<1>6. /\ \A n \in 1..a : rules[n].name = "include" /\ rules[n].val = Anchored(all.inc[n])
      /\ \A n \in 1..b : rules[a + n].name = "exclude" /\ rules[a + n].val = Anchored(all.exc[n])
      /\ \A n \in 1..e : /\ rules[a + b + n].name = "exclude"
                          /\ rules[a + b + n].val = c.excluded[n]
  BY <1>3, <1>4 DEF RulesOf
<1>7. ASSUME NEW n \in a + 1..L
      PROVE  (\E i \in 1..b : n = a + i) \/ (\E i \in 1..e : n = a + b + i)
  <2>1. CASE n <= a + b
    <3>1. n - a \in 1..b /\ n = a + (n - a)
      BY <2>1
    <3> QED BY <3>1
  <2>2. CASE n > a + b
    <3>1. n - (a + b) \in 1..e /\ n = a + b + (n - (a + b))
      BY <1>5, <2>2
    <3> QED BY <3>1
  <2> QED BY <2>1, <2>2
<1>8. ASSUME NEW n \in a + 1..L PROVE rules[n].name = "exclude"
  <2>1. CASE \E i \in 1..b : n = a + i
    <3>1. PICK i \in 1..b : n = a + i
      BY <2>1
    <3> QED BY <1>6, <3>1, Zenon
  <2>2. CASE \E i \in 1..e : n = a + b + i
    <3>1. PICK i \in 1..e : n = a + b + i
      BY <2>2
    <3> QED BY <1>6, <3>1, Zenon
  <2> QED BY <1>7, <2>1, <2>2
<1>9. ASSUME NEW q
      PROVE  /\ IncludeHits(c, q) <=> \E n \in 1..a : MatchesFile(rules[n].val, q)
             /\ ExcludeHits(c, q) \/ ConfigHits(c, q) <=>
                   \E n \in a + 1..L : MatchesFile(rules[n].val, q)
  <2>1. IncludeHits(c, q) <=> \E f \in Elems(all.inc) : MatchesFile(Anchored(f), q)
    BY <1>2 DEF IncludeHits
  <2>2. (\E f \in Elems(all.inc) : MatchesFile(Anchored(f), q)) <=>
           \E n \in 1..a : MatchesFile(Anchored(all.inc[n]), q)
    BY <1>4 DEF Elems
  <2>3. ExcludeHits(c, q) <=> \E f \in Elems(all.exc) : MatchesFile(Anchored(f), q)
    BY <1>2 DEF ExcludeHits
  <2>4. (\E f \in Elems(all.exc) : MatchesFile(Anchored(f), q)) <=>
           \E n \in 1..b : MatchesFile(Anchored(all.exc[n]), q)
    BY <1>4 DEF Elems
  <2>5. ConfigHits(c, q) <=> \E n \in 1..e : MatchesFile(c.excluded[n], q)
    BY <1>4 DEF ConfigHits
  <2>6. (\E n \in 1..a : MatchesFile(Anchored(all.inc[n]), q)) <=>
           \E n \in 1..a : MatchesFile(rules[n].val, q)
    BY <1>6
  <2>7. ASSUME NEW n \in 1..b, MatchesFile(Anchored(all.exc[n]), q)
        PROVE  \E i \in a + 1..L : MatchesFile(rules[i].val, q)
    <3>1. a + n \in a + 1..L
      BY <1>5
    <3>2. MatchesFile(rules[a + n].val, q)
      BY <1>6, <2>7, Zenon
    <3> QED BY <3>1, <3>2
  <2>8. ASSUME NEW n \in 1..e, MatchesFile(c.excluded[n], q)
        PROVE  \E i \in a + 1..L : MatchesFile(rules[i].val, q)
    <3>1. a + b + n \in a + 1..L
      BY <1>5
    <3>2. MatchesFile(rules[a + b + n].val, q)
      BY <1>6, <2>8, Zenon
    <3> QED BY <3>1, <3>2
  <2>9. ASSUME NEW i \in a + 1..L, MatchesFile(rules[i].val, q)
        PROVE  \/ \E n \in 1..b : MatchesFile(Anchored(all.exc[n]), q)
               \/ \E n \in 1..e : MatchesFile(c.excluded[n], q)
    <3>1. ASSUME NEW n \in 1..b, i = a + n PROVE MatchesFile(Anchored(all.exc[n]), q)
      BY <1>6, <2>9, <3>1, Zenon
    <3>2. ASSUME NEW n \in 1..e, i = a + b + n PROVE MatchesFile(c.excluded[n], q)
      BY <1>6, <2>9, <3>2, Zenon
    <3> QED BY <1>7, <3>1, <3>2
  <2> QED BY <2>1, <2>2, <2>3, <2>4, <2>5, <2>6, <2>7, <2>8, <2>9
<1>10. a \in 0..L /\ \A n \in 1..a : rules[n].name = "include"
  BY <1>5, <1>6
<1> QED BY <1>5, <1>8, <1>9, <1>10 DEF rules

\* When a rule matches, the first that does decides.
LEMMA FirstDecides ==
    ASSUME NEW rules, Len(rules) \in Nat, NEW q, NEW n \in 1..Len(rules),
           MatchesFile(rules[n].val, q)
    PROVE  \E h \in 1..n : Decides(rules, h, q)
<1> DEFINE T == {i \in 1..n : MatchesFile(rules[i].val, q)}
<1>1. n \in Nat /\ n \in 1..n /\ 1..n \subseteq Nat
  OBVIOUS
<1>2. T # {} /\ T \in SUBSET Nat
  BY <1>1
<1>3. PICK h \in T : \A i \in T : h <= i
  <2> HIDE DEF T
  <2> QED BY <1>2, LeastElement
<1>4. ASSUME NEW i \in 1..h - 1 PROVE ~MatchesFile(rules[i].val, q)
  <2>1. i \in 1..n /\ ~(h <= i)
    BY <1>3
  <2> QED BY <1>3, <2>1
<1> QED BY <1>3, <1>4 DEF Decides

\* No rule of the filter leaves a path out when an include rule matches it, or
\* no exclude rule does.
Passes(rules, q) == \A n \in 1..Len(rules) : Decides(rules, n, q) => rules[n].name = "include"

LEMMA RulesDecide ==
    ASSUME NEW E, NEW c, c.included \in Seq(Seq(E)), NEW X, c.excluded \in Seq(X), NEW q
    PROVE  Passes(filter(c), q) <=>
              IncludeHits(c, q) \/ ~(ExcludeHits(c, q) \/ ConfigHits(c, q))
<1> DEFINE rules == filter(c)
<1>1. PICK L \in Nat : L = Len(rules)
  BY RuleSections
<1>2. PICK a \in 0..L :
         /\ \A n \in 1..a : rules[n].name = "include"
         /\ \A n \in a + 1..L : rules[n].name = "exclude"
         /\ IncludeHits(c, q) <=> \E n \in 1..a : MatchesFile(rules[n].val, q)
         /\ ExcludeHits(c, q) \/ ConfigHits(c, q) <=>
               \E n \in a + 1..L : MatchesFile(rules[n].val, q)
  BY <1>1, RuleSections
<1> HIDE DEF rules
<1>3. /\ \A n \in 1..L : n \in 1..a \/ n \in a + 1..L
      /\ \A n \in 1..a : n \in 1..L
      /\ \A n \in a + 1..L : n \in 1..L /\ n \notin 1..a
  OBVIOUS
<1>4. ASSUME IncludeHits(c, q), NEW n \in 1..L, Decides(rules, n, q)
      PROVE  rules[n].name = "include"
  <2>1. PICK i \in 1..a : MatchesFile(rules[i].val, q)
    BY <1>2, <1>4
  <2>2. i \notin 1..n - 1
    BY <1>4, <2>1 DEF Decides
  <2>3. n \in 1..a
    BY <2>2
  <2> QED BY <1>2, <2>3
<1>5. ASSUME ~(ExcludeHits(c, q) \/ ConfigHits(c, q)), NEW n \in 1..L, Decides(rules, n, q)
      PROVE  rules[n].name = "include"
  <2>1. MatchesFile(rules[n].val, q)
    BY <1>5 DEF Decides
  <2>2. n \in 1..a
    BY <1>2, <1>3, <1>5, <2>1
  <2> QED BY <1>2, <2>2
<1>6. ASSUME ~IncludeHits(c, q), ExcludeHits(c, q) \/ ConfigHits(c, q)
      PROVE  ~Passes(rules, q)
  <2>1. PICK n \in a + 1..L : MatchesFile(rules[n].val, q)
    BY <1>2, <1>6
  <2>2. PICK h \in 1..n : Decides(rules, h, q)
    BY <1>1, <1>3, <2>1, FirstDecides
  <2>3. h \in 1..L /\ h \notin 1..a
    <3>1. h \in 1..L
      OBVIOUS
    <3> QED BY <1>2, <1>6, <2>2, <3>1 DEF Decides
  <2>4. rules[h].name = "exclude"
    BY <1>2, <1>3, <2>3
  <2> QED BY <1>1, <2>2, <2>3, <2>4 DEF Passes
<1> QED BY <1>1, <1>4, <1>5, <1>6 DEF Passes, rules

----------------------------------------------------------------------------
(* What is copied.                                                         *)

\* No include rule matches a path that does not lead to the included one.
LEMMA IncludeRuleLeads ==
    ASSUME NEW E, "*" \notin E, NEW file \in Seq(E), NEW f \in Levels(file),
           NEW Y, NEW q \in Seq(Y), MatchesFile(Anchored(f), q)
    PROVE  IsPrefix(q, file)
<1>1. f = <<>> \/ \E k \in 1..Len(file) : f = Level(file, k)
  BY DEF Levels
<1>2. CASE f = <<>>
  <2>1. Len(f) = 0
    BY <1>2
  <2> QED BY <2>1, AnchoredMatch
<1>3. ASSUME NEW k \in 1..Len(file), f = Level(file, k) PROVE IsPrefix(q, file)
  <2>1. k \in 0..Len(file) /\ Len(file) \in Nat /\ k <= Len(file)
    OBVIOUS
  <2>2. Len(f) = k /\ \A i \in 1..k : f[i] = file[i]
    BY <1>3, <2>1, PathLevel DEF Level
  <2>3. Len(q) = k /\ \A i \in 1..k : f[i] \in {"*", q[i]}
    BY <2>1, <2>2, AnchoredMatch
  <2>4. ASSUME NEW i \in 1..k PROVE q[i] = file[i]
    <3>1. file[i] \in E
      BY <2>1
    <3> QED BY <2>2, <2>3, <3>1
  <2> QED BY <2>1, <2>3, <2>4, PrefixElements
<1> QED BY <1>1, <1>2, <1>3

\* The siblings of a level that leads to the included path, among them all
\* that do not, are matched by its exclude rule.
LEMMA ExcludeRuleMatches ==
    ASSUME NEW E, NEW file \in Seq(E), NEW Y, NEW path \in Seq(Y), NEW k \in 1..Len(path),
           IsPrefix(SubSeq(path, 1, k - 1), file), ~IsPrefix(file, path)
    PROVE  /\ Siblings(file, k) \in AllSiblings(file)
           /\ MatchesFile(Anchored(Siblings(file, k)), SubSeq(path, 1, k))
<1>1. /\ k \in 0..Len(path) /\ k - 1 \in 0..Len(path) /\ Len(path) \in Nat /\ Len(file) \in Nat
      /\ k \in Nat /\ k - 1 \in Nat /\ k <= Len(path) /\ (k - 1) + 1 = k
  OBVIOUS
<1>2. PICK p \in Seq(Y) : p = SubSeq(path, 1, k - 1) /\ Len(p) = k - 1
                        /\ \A i \in 1..k - 1 : p[i] = path[i]
  BY <1>1, PathLevel
<1>3. k - 1 <= Len(file) /\ \A i \in 1..k - 1 : file[i] = path[i]
  <2>1. Len(p) <= Len(file) /\ \A i \in 1..Len(p) : p[i] = file[i]
    <3>1. IsPrefix(p, file)
      BY <1>2
    <3> QED BY <3>1, PrefixElements
  <2> QED BY <1>2, <2>1
<1>4. k <= Len(file)
  <2> SUFFICES ASSUME Len(file) = k - 1 PROVE FALSE
    BY <1>1, <1>3
  <2>1. IsPrefix(file, path)
    BY <1>1, <1>3, PrefixElements
  <2> QED BY <2>1
<1>5. PICK d \in Seq(E) : d = SubSeq(file, 1, k - 1) /\ Len(d) = k - 1
                        /\ \A i \in 1..k - 1 : d[i] = file[i]
  <2>1. k - 1 \in 0..Len(file)
    BY <1>1, <1>3
  <2> QED BY <2>1, PathLevel
<1>6. PICK f : f = Siblings(file, k)
  OBVIOUS
<1>7. Len(f) = k /\ f[k] = "*" /\ \A i \in 1..k - 1 : f[i] = path[i]
  <2>1. f = Append(d, "*")
    BY <1>5, <1>6 DEF Siblings
  <2>2. Len(Append(d, "*")) = Len(d) + 1 /\ Append(d, "*")[Len(d) + 1] = "*"
        /\ \A i \in 1..Len(d) : Append(d, "*")[i] = d[i]
    <3>1. d \in Seq(E \cup {"*"})
      <4>1. Len(d) \in Nat /\ \A i \in 1..Len(d) : d[i] \in E \cup {"*"}
        OBVIOUS
      <4> QED BY <4>1
    <3> QED BY <3>1
  <2> QED BY <1>1, <1>3, <1>5, <2>1, <2>2
<1>8. PICK q : q = SubSeq(path, 1, k) /\ Len(q) = k /\ \A i \in 1..k : q[i] = path[i]
  BY <1>1, PathLevel
<1>9. \A i \in 1..k : f[i] \in {"*", q[i]}
  <2>1. \A i \in 1..k : i = k \/ i \in 1..k - 1
    BY <1>1
  <2> QED BY <1>7, <1>8, <2>1
<1>10. MatchesFile(Anchored(f), q)
  <2>1. Len(f) \in Nat /\ Len(f) > 0
    BY <1>1, <1>7
  <2> QED BY <1>7, <1>8, <1>9, <2>1, AnchoredMatch
<1>11. f \in AllSiblings(file)
  BY <1>1, <1>4, <1>6 DEF AllSiblings
<1> QED BY <1>6, <1>8, <1>10, <1>11

\* A path that leads nowhere is matched by no include rule; one that leads to
\* an included path, by the rule for this level of it.
LEMMA IncludeHitsLead ==
    ASSUME NEW E, "*" \notin E, NEW c, c.included \in Seq(Seq(E)), NEW Y, NEW q \in Seq(Y), q # <<>>
    PROVE  IncludeHits(c, q) <=> \E m \in 1..Len(c.included) : IsPrefix(q, Clean(c.included[m]))
<1>1. \A m \in 1..Len(c.included) : c.included[m] \in Seq(E)
  OBVIOUS
<1>2. ASSUME NEW m \in 1..Len(c.included), NEW f \in Levels(Clean(c.included[m])),
             MatchesFile(Anchored(f), q)
      PROVE  IsPrefix(q, Clean(c.included[m]))
  BY <1>1, <1>2, CleanTypes, IncludeRuleLeads
<1>3. ASSUME NEW m \in 1..Len(c.included), IsPrefix(q, Clean(c.included[m]))
      PROVE  IncludeHits(c, q)
  <2>1. PICK file \in Seq(E) : file = Clean(c.included[m])
    BY <1>1, CleanTypes
  <2>2. PICK k \in Nat : k = Len(q) /\ k > 0
    <3>1. Len(q) \in Nat /\ Len(q) # 0
      OBVIOUS
    <3> QED BY <3>1
  <2>3. k <= Len(file) /\ \A i \in 1..k : q[i] = file[i]
    <3>1. IsPrefix(q, file)
      BY <1>3, <2>1
    <3> QED BY <2>2, <3>1, PrefixElements
  <2>4. k \in 0..Len(file) /\ k \in 1..Len(file)
    BY <2>2, <2>3
  <2>5. PICK f : f = Level(file, k) /\ Len(f) = k /\ \A i \in 1..k : f[i] = file[i]
    BY <2>4, PathLevel DEF Level
  <2>6. f \in Levels(file)
    <3>1. file # <<>>
      BY <2>4
    <3> QED BY <2>4, <2>5, <3>1 DEF Levels
  <2>7. MatchesFile(Anchored(f), q)
    BY <2>2, <2>3, <2>5, AnchoredMatch
  <2> QED BY <2>1, <2>6, <2>7 DEF IncludeHits
<1> QED BY <1>2, <1>3 DEF IncludeHits

\* Nothing is copied but what leads to an included path and what lies below
\* one: take the first level of any other path that does not lead to an
\* included one.  The level above it does, and the exclude rule made for the
\* siblings there matches; no include rule comes before it that matches too.
THEOREM FilterCopiesIncluded ==
    ASSUME NEW E, "*" \notin E, NEW c, c.included \in Seq(Seq(E)), c.included # <<>>,
           NEW X, c.excluded \in Seq(X), NEW Y, NEW path \in Seq(Y), Copied(filter(c), path)
    PROVE  \E m \in 1..Len(c.included) : \/ IsPrefix(path, Clean(c.included[m]))
                                        \/ IsPrefix(Clean(c.included[m]), path)
<1> DEFINE M         == 1..Len(c.included)
           file(m)   == Clean(c.included[m])
           LeadOn(n) == \E m \in M : IsPrefix(SubSeq(path, 1, n), file(m))
<1> SUFFICES ASSUME \A m \in M : ~IsPrefix(path, file(m)) /\ ~IsPrefix(file(m), path)
             PROVE  FALSE
  OBVIOUS
<1>1. PICK N \in Nat : N = Len(path)
  OBVIOUS
<1>2. \A m \in M : file(m) \in Seq(E)
  <2>1. \A m \in M : c.included[m] \in Seq(E)
    OBVIOUS
  <2> QED BY <2>1, CleanTypes
<1> HIDE DEF file
<1>3. PICK k \in 1..N : ~LeadOn(k) /\ LeadOn(k - 1)
  <2> DEFINE T == {n \in 0..N : ~LeadOn(n)}
  <2>1. SubSeq(path, 1, N) = path
    BY <1>1
  <2>2. N \in T
    <3>1. PICK p : p = SubSeq(path, 1, N) /\ p = path
      BY <2>1
    <3>2. ~LeadOn(N)
      BY <3>1
    <3>3. N \in 0..N
      OBVIOUS
    <3> HIDE DEF LeadOn
    <3> QED BY <3>2, <3>3
  <2>3. T \in SUBSET Nat /\ T # {}
    <3>1. \A n \in T : n \in 0..N
      OBVIOUS
    <3> HIDE DEF T
    <3> QED BY <2>2, <3>1
  <2>4. PICK k \in T : \A n \in T : k <= n
    <3> HIDE DEF T
    <3> QED BY <2>3, LeastElement
  <2>5. k # 0
    <3>1. PICK m \in M : TRUE
      <4>1. Len(c.included) # 0
        OBVIOUS
      <4>2. 1 \in M
        BY <4>1
      <4> QED BY <4>2
    <3>2. SubSeq(path, 1, 0) \in Seq(Y) /\ Len(SubSeq(path, 1, 0)) = 0
      BY <1>1, PathLevel
    <3>3. Len(file(m)) \in Nat
      BY <1>2, <3>1
    <3>4. IsPrefix(SubSeq(path, 1, 0), file(m))
      <4>1. PICK t \in Seq(E) : t = file(m) /\ Len(t) \in Nat
        BY <1>2, <3>1, <3>3
      <4>2. PICK p \in Seq(Y) : p = SubSeq(path, 1, 0) /\ Len(p) = 0
        BY <3>2
      <4>3. Len(p) <= Len(t) /\ \A i \in 1..Len(p) : p[i] = t[i]
        BY <4>1, <4>2
      <4>4. IsPrefix(p, t)
        BY <4>3, PrefixElements
      <4> QED BY <4>1, <4>2, <4>4
    <3>5. LeadOn(0)
      BY <3>1, <3>4
    <3> QED BY <2>4, <3>5
  <2>6. k \in 1..N /\ k - 1 \in 0..N /\ ~(k <= k - 1)
    BY <2>4, <2>5
  <2>7. ~LeadOn(k) /\ LeadOn(k - 1)
    <3> HIDE DEF LeadOn
    <3> QED BY <2>4, <2>6
  <2> QED BY <2>6, <2>7
<1>4. PICK q \in Seq(Y) : q = SubSeq(path, 1, k) /\ q \in Prefixes(path) /\ Len(q) = k
  <2>1. k \in 0..Len(path)
    BY <1>1
  <2> QED BY <2>1, PathLevel
<1>5. ~IncludeHits(c, q)
  <2>1. q # <<>>
    <3>1. Len(q) # 0
      BY <1>4
    <3> QED BY <3>1
  <2>2. \A m \in M : ~IsPrefix(q, file(m))
    BY <1>3, <1>4
  <2> QED BY <2>1, <2>2, IncludeHitsLead DEF file
<1>6. ExcludeHits(c, q)
  <2>1. PICK m \in M : IsPrefix(SubSeq(path, 1, k - 1), file(m))
    BY <1>3
  <2>2. Siblings(file(m), k) \in AllSiblings(file(m)) /\ MatchesFile(Anchored(Siblings(file(m), k)), q)
    BY <1>1, <1>2, <1>4, <2>1, ExcludeRuleMatches
  <2> QED BY <2>2 DEF ExcludeHits, file
<1>7. ~Passes(filter(c), q)
  BY <1>5, <1>6, RulesDecide
<1> QED BY <1>4, <1>7 DEF Copied, Passes

\* No rule matches the root of the copy.
LEMMA RootPasses ==
    ASSUME NEW E, NEW c, c.included \in Seq(Seq(E)),
           NEW X, \A x \in X : Len(x.elems) \in Nat, c.excluded \in Seq(X)
    PROVE  Passes(filter(c), <<>>)
<1>1. ~ExcludeHits(c, <<>>)
  <2> SUFFICES ASSUME NEW m \in 1..Len(c.included), NEW f \in AllSiblings(Clean(c.included[m])),
                      MatchesFile(Anchored(f), <<>>)
               PROVE  FALSE
    BY DEF ExcludeHits
  <2>1. PICK file \in Seq(E) : file = Clean(c.included[m])
    <3>1. c.included[m] \in Seq(E)
      OBVIOUS
    <3> QED BY <3>1, CleanTypes
  <2>2. f \in Pattern(E)
    BY <2>1, LevelTypes DEF AllSiblings
  <2>3. Len(f) \in Nat
    BY <2>2 DEF Pattern
  <2>4. Len(<<>>) = Len(f) /\ Len(f) > 0
    BY <2>3, AnchoredMatch
  <2> QED BY <2>3, <2>4
<1>2. ~ConfigHits(c, <<>>)
  <2> SUFFICES ASSUME NEW n \in 1..Len(c.excluded), MatchesFile(c.excluded[n], <<>>)
               PROVE  FALSE
    BY DEF ConfigHits
  <2>1. PICK x \in X : x = c.excluded[n]
    OBVIOUS
  <2>2. PICK l \in Nat : l = Len(x.elems)
    OBVIOUS
  <2>3. Len(<<>>) = 0
    OBVIOUS
  <2> QED BY <2>1, <2>2, <2>3 DEF MatchesFile
<1> QED BY <1>1, <1>2, RulesDecide

\* The beginnings of a beginning.
LEMMA PrefixesOfPrefix ==
    ASSUME NEW Y, NEW path \in Seq(Y), NEW q \in Prefixes(path)
    PROVE  q \in Seq(Y) /\ Prefixes(q) \subseteq Prefixes(path)
<1>1. PICK k \in 0..Len(path) : q = SubSeq(path, 1, k)
  BY DEF Prefixes
<1>2. q \in Seq(Y) /\ Len(q) = k /\ \A i \in 1..k : q[i] = path[i]
  BY <1>1, PathLevel
<1>3. ASSUME NEW l \in 0..k PROVE SubSeq(q, 1, l) \in Prefixes(path)
  <2>1. l \in 0..Len(path) /\ l \in 0..Len(q) /\ \A i \in 1..l : i \in 1..k
    BY <1>2
  <2>2. PICK s \in Seq(Y) : s = SubSeq(q, 1, l) /\ Len(s) = l /\ \A i \in 1..l : s[i] = q[i]
    BY <1>2, <2>1, PathLevel, ZenonT(60)
  <2>3. PICK t \in Seq(Y) : /\ t = SubSeq(path, 1, l) /\ Len(t) = l /\ \A i \in 1..l : t[i] = path[i]
                          /\ t \in Prefixes(path)
    BY <2>1, PathLevel
  <2>4. s = t
    BY <1>2, <2>1, <2>2, <2>3
  <2> QED BY <2>2, <2>3, <2>4
<1> QED BY <1>2, <1>3 DEF Prefixes

\* Below an included path that has no other below it, only the configured
\* patterns decide: a rule for the siblings of another path's level matches
\* there only if that path goes on below the included one.
LEMMA SiblingsOfNested ==
    ASSUME NEW E, NEW incl \in Seq(E), NEW file \in Seq(E), NEW Y, NEW q \in Seq(Y),
           IsPrefix(incl, q), incl # q, NEW f \in AllSiblings(file), MatchesFile(Anchored(f), q),
           "*" \notin E
    PROVE  IsStrictPrefix(incl, file)
<1>1. PICK k \in 1..Len(file) : f = Siblings(file, k)
  BY DEF AllSiblings
<1>2. /\ Len(file) \in Nat /\ k \in Nat /\ k - 1 \in Nat /\ k - 1 \in 0..Len(file)
      /\ k <= Len(file) /\ Len(incl) \in Nat /\ Len(q) \in Nat
  OBVIOUS
<1>3. PICK d \in Seq(E) : d = SubSeq(file, 1, k - 1) /\ Len(d) = k - 1
                        /\ \A i \in 1..k - 1 : d[i] = file[i]
  BY <1>2, PathLevel
<1>4. Len(f) = k /\ \A i \in 1..k - 1 : f[i] = file[i]
  <2>1. f = Append(d, "*")
    BY <1>1, <1>3 DEF Siblings
  <2>2. Len(Append(d, "*")) = Len(d) + 1 /\ \A i \in 1..Len(d) : Append(d, "*")[i] = d[i]
    <3>1. d \in Seq(E \cup {"*"})
      <4>1. Len(d) \in Nat /\ \A i \in 1..Len(d) : d[i] \in E \cup {"*"}
        OBVIOUS
      <4> QED BY <4>1
    <3> QED BY <3>1
  <2> QED BY <1>2, <1>3, <2>1, <2>2
<1>5. Len(q) = k /\ \A i \in 1..k : f[i] \in {"*", q[i]}
  BY <1>2, <1>4, AnchoredMatch
<1>6. Len(incl) <= k /\ \A i \in 1..Len(incl) : incl[i] = q[i]
  BY <1>5, PrefixElements
<1>7. Len(incl) # k
  <2> SUFFICES ASSUME Len(incl) = k PROVE incl = q
    OBVIOUS
  <2>1. /\ Len(q) = Len(incl) /\ \A i \in 1..Len(incl) : incl[i] = q[i]
    BY <1>5, <1>6
  <2> QED BY <2>1
<1>8. ASSUME NEW i \in 1..Len(incl) PROVE incl[i] = file[i]
  <2>1. i \in 1..k - 1 /\ i \in 1..k /\ i \in 1..Len(file)
    BY <1>2, <1>6, <1>7
  <2>2. file[i] # "*"
    <3>1. file[i] \in E
      BY <2>1
    <3> QED BY <3>1
  <2>3. q[i] = file[i]
    BY <1>4, <1>5, <2>1, <2>2
  <2> QED BY <1>6, <2>3
<1>9. Len(incl) < Len(file)
  BY <1>2, <1>6, <1>7
<1>10. IsPrefix(incl, file) /\ incl # file
  BY <1>8, <1>9, PrefixElements
<1> QED BY <1>10 DEF IsStrictPrefix

\* Without an included path below another, the copy holds exactly what is
\* wanted: all of the included paths, but what a configured pattern excludes.
THEOREM FilterExactUnnested ==
    ASSUME NEW E, "*" \notin E, r.included \in Seq(Seq(E)), r.included # <<>>,
           NEW X, \A x \in X : Len(x.elems) \in Nat, r.excluded \in Seq(X),
           NEW Y, NEW path \in Seq(Y), ~Nested
    PROVE  Copied(filter(r), path) <=> Wanted(path)
<1> DEFINE M       == 1..Len(r.included)
           file(m) == Clean(r.included[m])
<1>1. \A m \in M : file(m) \in Seq(E)
  <2>1. \A m \in M : r.included[m] \in Seq(E)
    OBVIOUS
  <2> QED BY <2>1, CleanTypes
<1>2. Included = {file(m) : m \in M} /\ DOMAIN r.excluded = 1..Len(r.excluded)
  <2>1. DOMAIN r.included = M
    OBVIOUS
  <2> QED BY <2>1 DEF Included
<1> HIDE DEF file
<1>3. ASSUME NEW q \in Seq(Y), Leads(q) PROVE Passes(filter(r), q)
  <2>1. CASE q = <<>>
    BY <2>1, RootPasses
  <2>2. CASE q # <<>>
    <3>1. \E m \in M : IsPrefix(q, file(m))
      BY <1>2, <1>3 DEF Leads
    <3>2. IncludeHits(r, q)
      BY <2>2, <3>1, IncludeHitsLead DEF file
    <3> QED BY <3>2, RulesDecide
  <2> QED BY <2>1, <2>2
<1>4. ASSUME NEW q \in Seq(Y), ~Leads(q), NEW incl \in Included, IsPrefix(incl, q)
      PROVE  Passes(filter(r), q) <=> \A n \in DOMAIN r.excluded : ~MatchesFile(r.excluded[n], q)
  <2>1. incl \in Seq(E)
    BY <1>1, <1>2
  <2>2. q # <<>> /\ q # incl
    <3>1. IsPrefix(incl, incl)
      BY <2>1, PrefixElements
    <3>2. q # incl
      BY <1>4, <3>1 DEF Leads
    <3>3. q # <<>>
      <4> SUFFICES ASSUME q = <<>> PROVE FALSE
        OBVIOUS
      <4>1. PICK t \in Seq(E) : t = incl
        BY <2>1
      <4>2. Len(q) <= Len(t) /\ \A i \in 1..Len(q) : q[i] = t[i]
        OBVIOUS
      <4>3. IsPrefix(q, t)
        BY <4>2, PrefixElements
      <4> QED BY <1>4, <4>1, <4>3 DEF Leads
    <3> QED BY <3>2, <3>3
  <2>3. ~IncludeHits(r, q)
    <3>1. \A m \in M : ~IsPrefix(q, file(m))
      BY <1>2, <1>4 DEF Leads
    <3> QED BY <2>2, <3>1, IncludeHitsLead DEF file
  <2>4. ~ExcludeHits(r, q)
    <3> SUFFICES ASSUME NEW m \in M, NEW f \in AllSiblings(file(m)), MatchesFile(Anchored(f), q)
                 PROVE  FALSE
      BY DEF ExcludeHits, file
    <3>1. IsStrictPrefix(incl, file(m))
      BY <1>1, <1>4, <2>1, <2>2, SiblingsOfNested
    <3> QED BY <1>2, <3>1 DEF Nested
  <2>5. ConfigHits(r, q) <=> \E n \in DOMAIN r.excluded : MatchesFile(r.excluded[n], q)
    BY <1>2 DEF ConfigHits
  <2> QED BY <2>3, <2>4, <2>5, RulesDecide
<1>5. ASSUME Copied(filter(r), path), NEW q \in Prefixes(path)
      PROVE  \/ Leads(q)
             \/ /\ \E incl \in Included : IsPrefix(incl, q)
                /\ \A n \in DOMAIN r.excluded : ~MatchesFile(r.excluded[n], q)
  <2>1. q \in Seq(Y) /\ Prefixes(q) \subseteq Prefixes(path)
    BY PrefixesOfPrefix
  <2>2. Passes(filter(r), q) /\ Copied(filter(r), q)
    BY <1>5, <2>1 DEF Copied, Passes
  <2>3. \E m \in M : IsPrefix(q, Clean(r.included[m])) \/ IsPrefix(Clean(r.included[m]), q)
    BY <2>1, <2>2, FilterCopiesIncluded
  <2>4. Leads(q) \/ \E incl \in Included : IsPrefix(incl, q)
    BY <1>2, <2>3 DEF Leads, file
  <2> QED BY <1>4, <2>1, <2>2, <2>4
<1>6. ASSUME Wanted(path), NEW q \in Prefixes(path) PROVE Passes(filter(r), q)
  <2>1. q \in Seq(Y)
    BY PrefixesOfPrefix
  <2> QED BY <1>3, <1>4, <1>6, <2>1 DEF Wanted
<1> QED BY <1>5, <1>6 DEF Wanted, Copied, Passes

\* An included path that lies below another hides what is beside it: a path
\* with a name no included path holds, on the level where the inner path goes
\* on, is wanted but left out.
THEOREM NestedHides ==
    ASSUME NEW E, "*" \notin E, r.included \in Seq(Seq(E)), NEW X, r.excluded \in Seq(X),
           NEW outer \in Included, NEW inner \in Included, IsStrictPrefix(outer, inner),
           NEW w, w \notin E,
           \A n \in DOMAIN r.excluded : ~MatchesFile(r.excluded[n], Append(outer, w))
    PROVE  Wanted(Append(outer, w)) /\ ~Copied(filter(r), Append(outer, w))
<1> DEFINE M == 1..Len(r.included)
           Y == E \cup {w}
<1>1. Included = {Clean(r.included[m]) : m \in M} /\ \A m \in M : Clean(r.included[m]) \in Seq(E)
  <2>1. DOMAIN r.included = M /\ \A m \in M : r.included[m] \in Seq(E)
    OBVIOUS
  <2> QED BY <2>1, CleanTypes DEF Included
<1>2. PICK a \in Seq(E), b \in Seq(E) : a = outer /\ b = inner
  BY <1>1
<1>3. PICK k \in Nat : /\ k = Len(a) /\ k < Len(b) /\ \A i \in 1..k : a[i] = b[i]
  <2>1. Len(a) <= Len(b) /\ \A i \in 1..Len(a) : a[i] = b[i]
    BY <1>2, PrefixElements DEF IsStrictPrefix
  <2>2. Len(a) # Len(b)
    <3> SUFFICES ASSUME Len(a) = Len(b) PROVE a = b
      BY <1>2 DEF IsStrictPrefix
    <3> QED BY <2>1
  <2> QED BY <2>1, <2>2
<1>4. PICK path \in Seq(Y) : /\ path = Append(a, w) /\ Len(path) = k + 1 /\ path[k + 1] = w
                            /\ \A i \in 1..k : path[i] = a[i]
  <2>1. a \in Seq(Y)
    <3>1. Len(a) \in Nat /\ \A i \in 1..Len(a) : a[i] \in Y
      OBVIOUS
    <3> QED BY <3>1
  <2>2. Append(a, w) \in Seq(Y)
    BY <2>1
  <2>3. /\ Len(Append(a, w)) = Len(a) + 1 /\ Append(a, w)[Len(a) + 1] = w
        /\ \A i \in 1..Len(a) : Append(a, w)[i] = a[i]
    BY <2>1
  <2> QED BY <1>3, <2>2, <2>3
<1>5. path[k + 1] \notin E
  BY <1>4
<1>6. \A t \in Seq(E) : ~IsPrefix(path, t)
  <2> SUFFICES ASSUME NEW t \in Seq(E), IsPrefix(path, t) PROVE FALSE
    OBVIOUS
  <2>1. Len(path) <= Len(t) /\ path[k + 1] = t[k + 1] /\ k + 1 \in 1..Len(t)
    <3>1. Len(path) <= Len(t) /\ \A i \in 1..Len(path) : path[i] = t[i]
      BY PrefixElements
    <3> QED BY <1>4, <3>1
  <2>2. t[k + 1] \in E
    BY <2>1
  <2> QED BY <1>5, <2>1, <2>2
<1>7. IsPrefix(a, path)
  <2>1. Len(a) <= Len(path) /\ \A i \in 1..Len(a) : a[i] = path[i]
    BY <1>3, <1>4
  <2> QED BY <2>1, PrefixElements
<1>8. ASSUME NEW q \in Prefixes(path) PROVE q = path \/ Leads(q)
  <2>1. PICK l \in 0..Len(path) : q = SubSeq(path, 1, l)
    BY DEF Prefixes
  <2>2. PICK s \in Seq(Y) : s = q /\ Len(s) = l /\ \A i \in 1..l : s[i] = path[i]
    BY <2>1, PathLevel
  <2>3. CASE l = k + 1
    <3>1. s = path
      BY <1>4, <2>2, <2>3
    <3> QED BY <2>2, <3>1
  <2>4. CASE l <= k
    <3>1. Len(s) <= Len(a) /\ \A i \in 1..Len(s) : s[i] = a[i]
      BY <1>3, <1>4, <2>2, <2>4
    <3>2. IsPrefix(s, a)
      BY <3>1, PrefixElements
    <3> QED BY <1>2, <2>2, <3>2 DEF Leads
  <2> QED BY <1>4, <2>3, <2>4
<1>9. Wanted(path)
  <2>1. /\ \E incl \in Included : IsPrefix(incl, path)
        /\ \A n \in DOMAIN r.excluded : ~MatchesFile(r.excluded[n], path)
    BY <1>2, <1>4, <1>7
  <2> QED BY <1>8, <2>1 DEF Wanted
<1>10. ~IncludeHits(r, path)
  <2>1. path # <<>>
    <3>1. Len(path) # 0
      BY <1>4
    <3> QED BY <3>1
  <2> QED BY <1>1, <1>6, <2>1, IncludeHitsLead
<1>11. ExcludeHits(r, path)
  <2>1. k + 1 \in 1..Len(path) /\ (k + 1) - 1 = k /\ k \in 0..Len(path)
    BY <1>4
  <2>2. PICK p \in Seq(Y) : p = SubSeq(path, 1, k) /\ Len(p) = k /\ \A i \in 1..k : p[i] = path[i]
    BY <2>1, PathLevel
  <2>3. IsPrefix(p, b)
    <3>1. Len(p) <= Len(b) /\ \A i \in 1..Len(p) : p[i] = b[i]
      BY <1>3, <1>4, <2>2
    <3> QED BY <3>1, PrefixElements
  <2>4. ~IsPrefix(b, path)
    <3>1. b[k + 1] \in E
      BY <1>3
    <3>2. k + 1 \in 1..Len(b)
      BY <1>3
    <3> QED BY <1>5, <3>1, <3>2, PrefixElements
  <2>5. PICK q : q = SubSeq(path, 1, k + 1) /\ q = path
    <3>1. SubSeq(path, 1, Len(path)) = path
      OBVIOUS
    <3> QED BY <1>4, <3>1
  <2>6. Siblings(b, k + 1) \in AllSiblings(b) /\ MatchesFile(Anchored(Siblings(b, k + 1)), path)
    BY <2>1, <2>2, <2>3, <2>4, <2>5, ExcludeRuleMatches
  <2>7. PICK m \in M : b = Clean(r.included[m])
    BY <1>1, <1>2
  <2> QED BY <2>6, <2>7 DEF ExcludeHits
<1>12. ~Passes(filter(r), path)
  BY <1>10, <1>11, RulesDecide
<1>13. path \in Prefixes(path)
  <2>1. Len(path) \in 0..Len(path) /\ SubSeq(path, 1, Len(path)) = path
    OBVIOUS
  <2> QED BY <2>1, PathLevel
<1> QED BY <1>2, <1>4, <1>9, <1>12, <1>13 DEF Copied, Passes

\* The configs that the run walks through.
Written == {"", ".", "..", "etc", "home", "craig", "bob", "log"}

WalkInv ==
    /\ r = [included |-> r.included, excluded |-> r.excluded, arguments |-> r.arguments]
    /\ r.included \in Seq(Paths) /\ r.excluded \in Seq(Patterns)

LEMMA PathsAreWritten == Paths \subseteq Seq(Written)
<1>1. <<"">> \in Seq(Written)
  BY DEF Written
<1>2. <<"etc">> \in Seq(Written)
  BY DEF Written
<1>3. <<"home", "">> \in Seq(Written)
  BY DEF Written
<1>4. <<"", "home", ".", "craig">> \in Seq(Written)
  BY DEF Written
<1>5. <<"home", "craig", "log">> \in Seq(Written)
  BY DEF Written
<1>6. <<"..", "home", "log", "..", "bob">> \in Seq(Written)
  BY DEF Written
<1> QED BY <1>1, <1>2, <1>3, <1>4, <1>5, <1>6 DEF Paths

LEMMA WalkWritten == WalkInv => r.included \in Seq(Seq(Written))
<1> SUFFICES ASSUME WalkInv PROVE r.included \in Seq(Seq(Written))
  OBVIOUS
<1>1. PICK S : S = Seq(Written) /\ Paths \subseteq S
  BY PathsAreWritten
<1>2. r.included \in Seq(Paths)
  BY DEF WalkInv
<1>3. Len(r.included) \in Nat /\ \A i \in 1..Len(r.included) : r.included[i] \in Paths
  BY <1>2
<1>4. r.included = [i \in 1..Len(r.included) |-> r.included[i]]
  BY <1>2
<1>5. r.included \in Seq(S)
  BY <1>1, <1>3, <1>4
<1> QED BY <1>1, <1>5

\* The paths are short, and clean they hold names only.
LEMMA PathsAreShort ==
    ASSUME NEW raw \in Paths
    PROVE  Clean(raw) \in Seq(Names) /\ Len(Clean(raw)) <= 3
<1>1. raw \in Seq(Written)
  BY PathsAreWritten
<1>2. Clean(raw) \in Seq(Names)
  <2>1. PICK p \in Seq(Solid(Written)) : p = Clean(raw)
    BY <1>1, CleanTypes
  <2>2. Solid(Written) \subseteq Names
    BY DEF Solid, Written, Names
  <2>3. Len(p) \in Nat /\ \A i \in 1..Len(p) : p[i] \in Names
    BY <2>2
  <2>4. p \in Seq(Names)
    BY <2>3
  <2> QED BY <2>1, <2>4
<1>3. PICK N \in Nat : N = Len(raw)
  BY <1>1
<1>4. PICK l \in [0..N -> Nat] :
         /\ l[0] = 0 /\ l[N] = Len(Clean(raw))
         /\ \A n \in 1..N : /\ l[n] <= l[n - 1] + 1
                            /\ raw[n] \in {"", ".", ".."} => l[n] <= l[n - 1]
  BY <1>1, <1>3, CleanLength
<1>5. l[0] = 0 /\ \A n \in 1..N : l[n] <= l[n - 1] + 1
  BY <1>4
<1>6. \A n \in 1..N : raw[n] \in {"", ".", ".."} => l[n] <= l[n - 1]
  BY <1>4
<1>7. CASE raw = <<"", "home", ".", "craig">>
  <2>1. N = 4
    BY <1>3, <1>7
  <2>2. l[1] <= l[1 - 1]
    <3>1. 1 \in 1..N
      BY <2>1
    <3>2. raw[1] = ""
      BY <1>7
    <3> QED BY <1>6, <3>1, <3>2
  <2>3. l[4] <= 3
    BY <1>5, <2>1, <2>2
  <2> QED BY <1>2, <1>4, <2>1, <2>3
<1>8. CASE raw = <<"..", "home", "log", "..", "bob">>
  <2>1. N = 5
    BY <1>3, <1>8
  <2>2. l[1] <= l[1 - 1] /\ l[4] <= l[4 - 1]
    <3>1. raw[1] = ".." /\ raw[4] = ".." /\ 1 \in 1..N /\ 4 \in 1..N
      BY <1>8, <2>1
    <3> QED BY <1>6, <3>1
  <2>3. l[5] <= 3
    BY <1>5, <2>1, <2>2
  <2> QED BY <1>2, <1>4, <2>1, <2>3
<1>9. CASE raw \in {<<"">>, <<"etc">>, <<"home", "">>, <<"home", "craig", "log">>}
  <2>1. N = 1 \/ N = 2 \/ N = 3
    <3>1. Len(<<"">>) = 1 /\ Len(<<"etc">>) = 1
      OBVIOUS
    <3>2. Len(<<"home", "">>) = 2 /\ Len(<<"home", "craig", "log">>) = 3
      OBVIOUS
    <3> QED BY <1>3, <1>9, <3>1, <3>2
  <2>2. l[N] <= 3
    BY <1>5, <2>1
  <2> QED BY <1>2, <1>4, <2>2
<1> QED BY <1>7, <1>8, <1>9 DEF Paths

LEMMA WalkInit == Init => WalkInv
<1> SUFFICES ASSUME Init PROVE WalkInv
  OBVIOUS
<1>1. <<>> \in Seq(Paths) /\ <<>> \in Seq(Patterns)
  OBVIOUS
<1> QED BY <1>1 DEF Init, WalkInv

LEMMA WalkStep == WalkInv /\ [Next]_<<r, given>> => WalkInv'
<1> SUFFICES ASSUME WalkInv, [Next]_<<r, given>> PROVE WalkInv'
  OBVIOUS
<1>1. CASE Include
  <2>1. PICK incl \in Paths : r' = [r EXCEPT !.included = Append(@, incl)]
    BY <1>1 DEF Include
  <2>2. Append(r.included, incl) \in Seq(Paths)
    BY DEF WalkInv
  <2>3. PICK l : l = Append(r.included, incl)
    OBVIOUS
  <2>4. r' = [included |-> l, excluded |-> r.excluded, arguments |-> r.arguments]
    BY <2>1, <2>3 DEF WalkInv
  <2> QED BY <2>2, <2>3, <2>4 DEF WalkInv
<1>2. CASE Exclude
  <2>1. PICK excl \in Patterns : r' = [r EXCEPT !.excluded = <<excl>>]
    BY <1>2 DEF Exclude
  <2>2. <<excl>> \in Seq(Patterns)
    OBVIOUS
  <2>3. PICK l : l = <<excl>>
    OBVIOUS
  <2>4. r' = [included |-> r.included, excluded |-> l, arguments |-> r.arguments]
    BY <2>1, <2>3 DEF WalkInv
  <2> QED BY <2>2, <2>3, <2>4 DEF WalkInv
<1>3. CASE Argument
  <2>1. PICK unit \in Units : r' = [r EXCEPT !.arguments = @ \o unit]
    BY <1>3 DEF Argument
  <2>2. PICK l : l = r.arguments \o unit
    OBVIOUS
  <2>3. r' = [included |-> r.included, excluded |-> r.excluded, arguments |-> l]
    BY <2>1, <2>2 DEF WalkInv
  <2> QED BY <2>3 DEF WalkInv
<1>4. CASE UNCHANGED <<r, given>>
  BY <1>4 DEF WalkInv
<1> QED BY <1>1, <1>2, <1>3, <1>4 DEF Next

\* The property that the run rsync checks: filter copies nothing that is
\* outside of the included paths.
THEOREM RsyncNeverWidens == Spec => []FilterNeverWidens
<1>1. WalkInv => FilterNeverWidens
  <2> SUFFICES ASSUME WalkInv, Included # {},
                      NEW path \in Files, Copied(filter(r), path)
               PROVE  Leads(path) \/ \E incl \in Included : IsPrefix(incl, path)
    BY DEF FilterNeverWidens
  <2>1. "*" \notin Written
    BY DEF Written
  <2>2. r.included \in Seq(Seq(Written)) /\ r.excluded \in Seq(Patterns) /\ r.included # <<>>
    BY WalkWritten DEF WalkInv, Included
  <2>3. path \in Seq(Names)
    <3>1. PICK n \in 1..3 : path \in [1..n -> Names]
      BY DEF Files
    <3> QED BY <3>1
  <2>4. PICK m \in 1..Len(r.included) : \/ IsPrefix(path, Clean(r.included[m]))
                                       \/ IsPrefix(Clean(r.included[m]), path)
    BY <2>1, <2>2, <2>3, FilterCopiesIncluded
  <2>5. Clean(r.included[m]) \in Included
    <3>1. PICK S : S = Seq(Written)
      OBVIOUS
    <3>2. r.included \in Seq(S)
      BY <2>2, <3>1
    <3>3. m \in DOMAIN r.included
      BY <3>2
    <3> QED BY <3>3 DEF Included
  <2> QED BY <2>4, <2>5 DEF Leads
<1> QED BY <1>1, WalkInit, WalkStep, PTL DEF Spec

\* A file named "other" beside an included path is one the walk's patterns
\* leave alone.
LEMMA OtherBeside ==
    ASSUME NEW a \in Seq(Names), Len(a) <= 2
    PROVE  /\ Append(a, "other") \in Files
           /\ \A x \in Patterns : ~MatchesFile(x, Append(a, "other"))
<1>1. PICK k \in Nat : k = Len(a) /\ k <= 2
  OBVIOUS
<1>2. "other" \in Names
  BY DEF Names
<1>3. PICK p \in Seq(Names) : p = Append(a, "other") /\ Len(p) = k + 1 /\ p[k + 1] = "other"
  <2>1. Append(a, "other") \in Seq(Names)
    BY <1>2
  <2>2. Len(Append(a, "other")) = Len(a) + 1 /\ Append(a, "other")[Len(a) + 1] = "other"
    BY <1>2
  <2> QED BY <1>1, <2>1, <2>2
<1>4. p \in Files
  <2>1. p \in [1..k + 1 -> Names]
    <3>1. p \in [1..Len(p) -> Names]
      OBVIOUS
    <3> QED BY <1>3, <3>1
  <2>2. k + 1 \in 1..3
    BY <1>1
  <2> QED BY <2>1, <2>2 DEF Files
<1>5. ASSUME NEW name \in {"log", "home"}
      PROVE  ~MatchesFile([anchored |-> FALSE, elems |-> <<name>>], p)
  <2> SUFFICES ASSUME MatchesFile([anchored |-> FALSE, elems |-> <<name>>], p) PROVE FALSE
    OBVIOUS
  <2>1. Len(<<name>>) = 1 /\ <<name>>[1] = name /\ 1 \in 1..Len(<<name>>)
    OBVIOUS
  <2>2. <<name>>[1] \in {"*", p[1 + (Len(p) - Len(<<name>>))]}
    BY <2>1 DEF MatchesFile
  <2>3. 1 + (Len(p) - 1) = k + 1
    BY <1>3
  <2>4. name \in {"*", "other"}
    BY <1>3, <2>1, <2>2, <2>3
  <2> QED BY <2>4
<1>6. ~MatchesFile([anchored |-> TRUE, elems |-> <<"home", "craig", "log">>], p)
  <2> SUFFICES ASSUME MatchesFile([anchored |-> TRUE, elems |-> <<"home", "craig", "log">>], p)
               PROVE  FALSE
    OBVIOUS
  <2>1. PICK e : e = <<"home", "craig", "log">> /\ Len(e) = 3 /\ e[3] = "log"
    OBVIOUS
  <2>2. MatchesFile(Anchored(e), p)
    BY <2>1 DEF Anchored
  <2>3. Len(p) = 3 /\ \A i \in 1..3 : e[i] \in {"*", p[i]}
    BY <2>1, <2>2, AnchoredMatch
  <2>4. p[3] = "other"
    <3>1. k + 1 = 3
      BY <1>3, <2>3
    <3> QED BY <1>3, <3>1
  <2>5. e[3] \in {"*", p[3]}
    <3>1. 3 \in 1..3
      OBVIOUS
    <3> QED BY <2>3, <3>1
  <2> QED BY <2>1, <2>4, <2>5
<1> QED BY <1>3, <1>4, <1>5, <1>6 DEF Patterns

\* What run rsync checks of filter's two loops: the copy is exactly what is
\* wanted if, and only if, no included path lies below another.
THEOREM RsyncExact == Spec => []FilterExact
<1>1. WalkInv => FilterExact
  <2> SUFFICES ASSUME WalkInv, Included # {}
               PROVE  ~Nested <=> \A path \in Files : Copied(filter(r), path) <=> Wanted(path)
    BY DEF FilterExact
  <2>1. /\ r.included \in Seq(Seq(Written)) /\ r.excluded \in Seq(Patterns)
        /\ r.included # <<>> /\ "*" \notin Written /\ "other" \notin Written
    <3>1. "*" \notin Written /\ "other" \notin Written
      BY DEF Written
    <3> QED BY <3>1, WalkWritten DEF WalkInv, Included
  <2>2. ASSUME ~Nested, NEW path \in Files PROVE Copied(filter(r), path) <=> Wanted(path)
    <3>1. path \in Seq(Names)
      <4>1. PICK n \in 1..3 : path \in [1..n -> Names]
        BY DEF Files
      <4> QED BY <4>1
    <3>2. ASSUME NEW x \in Patterns PROVE Len(x.elems) \in Nat
      <4>1. Len(<<"log">>) \in Nat /\ Len(<<"home">>) \in Nat /\ Len(<<"home", "craig", "log">>) \in Nat
        OBVIOUS
      <4> QED BY <4>1 DEF Patterns
    <3> QED BY <2>1, <2>2, <3>1, <3>2, FilterExactUnnested
  <2>3. ASSUME NEW outer \in Included, NEW inner \in Included, IsStrictPrefix(outer, inner)
        PROVE  \E path \in Files : Wanted(path) /\ ~Copied(filter(r), path)
    <3>1. \A incl \in Included : incl \in Seq(Names) /\ Len(incl) <= 3
      <4>1. r.included \in Seq(Paths)
        BY DEF WalkInv
      <4>2. \A n \in DOMAIN r.included : r.included[n] \in Paths
        BY <4>1
      <4> QED BY <4>2, PathsAreShort DEF Included
    <3>2. PICK a \in Seq(Names), b \in Seq(Names) : a = outer /\ b = inner /\ Len(b) <= 3
      BY <3>1
    <3>3. Len(a) <= 2
      <4>1. Len(a) <= Len(b) /\ \A i \in 1..Len(a) : a[i] = b[i]
        BY <2>3, <3>2, PrefixElements DEF IsStrictPrefix
      <4>2. Len(a) # Len(b)
        <5> SUFFICES ASSUME Len(a) = Len(b) PROVE a = b
          BY <2>3, <3>2 DEF IsStrictPrefix
        <5> QED BY <4>1
      <4> QED BY <3>2, <4>1, <4>2
    <3>4. /\ Append(outer, "other") \in Files
          /\ \A x \in Patterns : ~MatchesFile(x, Append(outer, "other"))
      BY <3>2, <3>3, OtherBeside
    <3>5. \A n \in DOMAIN r.excluded : ~MatchesFile(r.excluded[n], Append(outer, "other"))
      <4>1. \A n \in DOMAIN r.excluded : r.excluded[n] \in Patterns
        BY <2>1
      <4> QED BY <3>4, <4>1
    <3>6. Wanted(Append(outer, "other")) /\ ~Copied(filter(r), Append(outer, "other"))
      BY <2>1, <2>3, <3>5, NestedHides
    <3> QED BY <3>4, <3>6
  <2> QED BY <2>2, <2>3 DEF Nested
<1> QED BY <1>1, WalkInit, WalkStep, PTL DEF Spec

----------------------------------------------------------------------------
(* The argument vector.  Parse and args both read a list from its end:     *)
(* what a position gives is followed by what is read after the tokens it   *)
(* takes with it.  A list that does not end in an option without its value *)
(* is read by itself, whatever follows it (ReadsConcat): so the vector is  *)
(* read section by section, and the arguments option by option.            *)

\* A list of N tokens is read from its end: g[i], what is read from position i
\* on, is what the position gives, out[i], and then what is read after the
\* skip[i] positions that it takes with it.
Then(s, rest) == IF s = <<>> THEN rest ELSE s \o rest
Reads(g, N, out, skip) ==
    /\ g[N + 1] = <<>> /\ g[N + 2] = <<>>
    /\ \A i \in 1..N : g[i] = Then(out[i], g[i + 1 + skip[i]])

\* A list over a set is one over a larger set.
LEMMA SeqWiden ==
    ASSUME NEW S, NEW T, S \subseteq T, NEW s \in Seq(S)
    PROVE  s \in Seq(T)
<1>1. Len(s) \in Nat /\ (\A i \in 1..Len(s) : s[i] \in T) /\ s = [i \in 1..Len(s) |-> s[i]]
  OBVIOUS
<1> QED BY <1>1

\* The empty list is neutral.
LEMMA ConcatEmpty ==
    ASSUME NEW R
    PROVE  \A a \in Seq(R) : a \o <<>> = a /\ <<>> \o a = a
OBVIOUS

\* Between lists, Then is the concatenation.
LEMMA ThenConcat ==
    ASSUME NEW R, NEW s \in Seq(R), NEW rest \in Seq(R)
    PROVE  Then(s, rest) = s \o rest /\ Then(s, rest) \in Seq(R)
<1>1. s \o rest \in Seq(R) /\ <<>> \o rest = rest
  OBVIOUS
<1> QED BY <1>1 DEF Then

\* A list can be read: the recursion goes from its end, and keeps what is
\* read from the next two positions.
LEMMA ReadsExist ==
    ASSUME NEW R, NEW N \in Nat, NEW out \in [1..N -> Seq(R)], NEW skip \in [1..N -> {0, 1}]
    PROVE  \E g \in [1..N + 2 -> Seq(R)] : Reads(g, N, out, skip)
<1> DEFINE S == Seq(R)
           P == S \X S
           From(i, p) == <<Then(out[i], IF skip[i] = 0 THEN p[1] ELSE p[2]), p[1]>>
           step == [n \in Nat |-> [p \in P |-> IF n \in 1..N THEN From(N + 1 - n, p) ELSE p]]
           base == <<<<>>, <<>>>>
<1>1. <<>> \in S /\ \A s, t \in S : Then(s, t) \in S
  BY ThenConcat
<1> HIDE DEF S
<1>2. base \in P
  BY <1>1
<1>3. ASSUME NEW n \in 1..N PROVE N + 1 - n \in 1..N
  OBVIOUS
<1>4. ASSUME NEW i \in 1..N, NEW p \in P PROVE From(i, p) \in P
  <2>1. out[i] \in S
    BY DEF S
  <2> QED BY <1>1, <2>1
<1> HIDE DEF From
<1>5. step \in [Nat -> [P -> P]]
  <2>1. ASSUME NEW n \in Nat, NEW p \in P
        PROVE  (IF n \in 1..N THEN From(N + 1 - n, p) ELSE p) \in P
    BY <1>3, <1>4
  <2> HIDE DEF P
  <2> QED BY <2>1
<1>6. PICK h \in [0..N -> P] : Iterates(h, base, step, N)
  <2> HIDE DEF step, P, base
  <2> QED BY <1>2, <1>5, Recursion
<1>7. h[0] = base
  BY <1>6 DEF Iterates
<1>8. ASSUME NEW n \in 1..N
      PROVE  n - 1 \in 0..N /\ h[n - 1] \in P /\ h[n] = From(N + 1 - n, h[n - 1])
  <2>1. n - 1 \in 0..N /\ n \in Nat
    OBVIOUS
  <2>2. PICK p \in P : p = h[n - 1]
    BY <2>1
  <2>3. h[n] = step[n][p]
    BY <1>6, <2>2 DEF Iterates
  <2>4. step[n][p] = From(N + 1 - n, p)
    <3> HIDE DEF P
    <3> QED BY <2>1
  <2> QED BY <2>1, <2>2, <2>3, <2>4
<1> HIDE DEF step
<1> DEFINE g == [i \in 1..N + 2 |-> IF i = N + 2 THEN <<>> ELSE h[N + 1 - i][1]]
<1>9. g \in [1..N + 2 -> S]
  <2>1. ASSUME NEW i \in 1..N + 2, i # N + 2 PROVE h[N + 1 - i][1] \in S
    <3>1. N + 1 - i \in 0..N
      BY <2>1
    <3>2. h[N + 1 - i] \in P
      BY <3>1
    <3> QED BY <3>2
  <2> QED BY <1>1, <2>1
<1>10. g[N + 1] = <<>> /\ g[N + 2] = <<>>
  <2>1. N + 1 \in 1..N + 2 /\ N + 2 \in 1..N + 2 /\ N + 1 # N + 2 /\ N + 1 - (N + 1) = 0
    OBVIOUS
  <2> QED BY <1>7, <2>1
<1>11. ASSUME NEW i \in 1..N PROVE g[i] = Then(out[i], g[i + 1 + skip[i]])
  <2>1. PICK n \in 1..N : n = N + 1 - i /\ N + 1 - n = i
    <3>1. N + 1 - i \in 1..N /\ N + 1 - (N + 1 - i) = i
      OBVIOUS
    <3> QED BY <3>1
  <2>2. PICK p \in P : p = h[n - 1] /\ h[n] = From(i, p)
    BY <1>8, <2>1
  <2>3. g[i] = Then(out[i], IF skip[i] = 0 THEN p[1] ELSE p[2])
    <3>1. i \in 1..N + 2 /\ i # N + 2
      OBVIOUS
    <3>2. g[i] = From(i, p)[1]
      BY <2>1, <2>2, <3>1
    <3> QED BY <3>2 DEF From
  <2>4. g[i + 1] = p[1]
    <3>1. i + 1 \in 1..N + 2 /\ i + 1 # N + 2 /\ N + 1 - (i + 1) = n - 1
      BY <2>1
    <3> QED BY <2>2, <3>1
  <2>5. g[i + 2] = p[2]
    <3>1. i + 2 \in 1..N + 2
      OBVIOUS
    <3>2. CASE n = 1
      <4>1. i + 2 = N + 2 /\ n - 1 = 0
        BY <2>1, <3>2
      <4> QED BY <1>7, <2>2, <3>1, <4>1
    <3>3. CASE n # 1
      <4>1. n - 1 \in 1..N /\ N + 1 - (i + 2) = (n - 1) - 1 /\ i + 2 # N + 2
        BY <2>1, <3>3
      <4>2. h[n - 1] = From(N + 1 - (n - 1), h[(n - 1) - 1])
        BY <1>8, <4>1
      <4>3. p[2] = h[(n - 1) - 1][1]
        BY <2>2, <4>2 DEF From
      <4> QED BY <3>1, <4>1, <4>3
    <3> QED BY <3>2, <3>3
  <2>6. skip[i] = 0 \/ skip[i] = 1
    OBVIOUS
  <2>7. i + 1 + 0 = i + 1 /\ i + 1 + 1 = i + 2
    OBVIOUS
  <2> HIDE DEF g
  <2>8. CASE skip[i] = 0
    <3>1. g[i] = Then(out[i], p[1]) /\ g[i + 1 + skip[i]] = p[1]
      BY <2>3, <2>4, <2>7, <2>8
    <3> QED BY <3>1
  <2>9. CASE skip[i] = 1
    <3>1. g[i] = Then(out[i], p[2]) /\ g[i + 1 + skip[i]] = p[2]
      BY <2>3, <2>5, <2>7, <2>9
    <3> QED BY <3>1
  <2> QED BY <2>6, <2>8, <2>9
<1> HIDE DEF g
<1> QED BY <1>9, <1>10, <1>11 DEF Reads, S

\* What is read is made of what the positions give.
LEMMA ReadsTyped ==
    ASSUME NEW R, NEW N \in Nat, NEW out \in [1..N -> Seq(R)], NEW skip \in [1..N -> {0, 1}],
           NEW g, Reads(g, N, out, skip)
    PROVE  \A i \in 1..N + 2 : g[i] \in Seq(R)
<1> DEFINE S == Seq(R)
           T == {n \in 0..N : g[N + 1 - n] \in S /\ g[N + 2 - n] \in S}
<1>1. <<>> \in S /\ \A s, t \in S : Then(s, t) \in S
  BY ThenConcat
<1>2. \A i \in 1..N : out[i] \in S
  OBVIOUS
<1> HIDE DEF S
<1>3. 0 \in T
  <2>1. N + 1 - 0 = N + 1 /\ N + 2 - 0 = N + 2 /\ 0 \in 0..N
    OBVIOUS
  <2>2. g[N + 1] \in S /\ g[N + 2] \in S
    BY <1>1 DEF Reads
  <2> QED BY <2>1, <2>2
<1>4. ASSUME NEW n \in 1..N, n - 1 \in T PROVE n \in T
  <2>1. PICK i \in 1..N : i = N + 1 - n /\ N + 1 - (n - 1) = i + 1 /\ N + 2 - (n - 1) = i + 2
                          /\ N + 2 - n = i + 1
    <3>1. N + 1 - n \in 1..N
      OBVIOUS
    <3> QED BY <3>1
  <2>2. g[i + 1] \in S /\ g[i + 2] \in S
    BY <1>4, <2>1
  <2>3. i + 1 + skip[i] = i + 1 \/ i + 1 + skip[i] = i + 2
    <3>1. skip[i] = 0 \/ skip[i] = 1
      OBVIOUS
    <3> QED BY <3>1
  <2>4. g[i] = Then(out[i], g[i + 1 + skip[i]])
    BY DEF Reads
  <2>5. g[i] \in S
    BY <1>1, <1>2, <2>2, <2>3, <2>4
  <2>6. n \in 0..N
    OBVIOUS
  <2> QED BY <2>1, <2>2, <2>5, <2>6
<1>5. 0..N \subseteq T
  <2> HIDE DEF T
  <2> QED BY <1>3, <1>4, BoundedInduction
<1>6. ASSUME NEW i \in 1..N + 2 PROVE g[i] \in S
  <2>1. CASE i = N + 2
    <3>1. 0 \in T /\ N + 2 - 0 = i
      BY <1>3, <2>1
    <3> QED BY <3>1
  <2>2. CASE i # N + 2
    <3>1. N + 1 - i \in 0..N /\ N + 1 - (N + 1 - i) = i
      BY <2>2
    <3>2. N + 1 - i \in T
      BY <1>5, <3>1
    <3> QED BY <3>1, <3>2
  <2> QED BY <2>1, <2>2
<1> QED BY <1>6 DEF S

\* Concatenations may be taken in any order.
LEMMA ConcatChain ==
    ASSUME NEW R
    PROVE  \A a, b, c \in Seq(R) : (a \o b) \o c = a \o (b \o c)
OBVIOUS

\* What the positions of a concatenation give: those of the first part, then
\* those of the second.
Ends(m, n, f, b)     == \A j \in 1..n : f[m + j] = b[j]
Split(m, n, f, a, b) == (\A i \in 1..m : f[i] = a[i]) /\ Ends(m, n, f, b)

\* A reading whose positions give lists over R.
ReadBy(g, N, out, skip, R) ==
    /\ out \in [1..N -> Seq(R)] /\ skip \in [1..N -> {0, 1}]
    /\ Reads(g, N, out, skip)

\* What is read after the first part of a list is what the second part reads.
LEMMA ReadsTail ==
    ASSUME NEW m \in Nat, NEW n \in Nat, NEW out, NEW outT,
           NEW skip, NEW skipT \in [1..n -> {0, 1}],
           Ends(m, n, out, outT), Ends(m, n, skip, skipT),
           NEW N, N = m + n, NEW F, Reads(F, N, out, skip), NEW H, Reads(H, n, outT, skipT)
    PROVE  F[m + 1] = H[1]
<1> DEFINE T == {k \in 0..n : /\ F[m + (n + 1 - k)] = H[n + 1 - k]
                              /\ F[m + (n + 2 - k)] = H[n + 2 - k]}
<1>1. 0 \in T
  <2>1. m + (n + 1 - 0) = m + n + 1 /\ m + (n + 2 - 0) = m + n + 2 /\ 0 \in 0..n
        /\ n + 1 - 0 = n + 1 /\ n + 2 - 0 = n + 2
    OBVIOUS
  <2>2. F[m + n + 1] = H[n + 1] /\ F[m + n + 2] = H[n + 2]
    BY DEF Reads
  <2> QED BY <2>1, <2>2
<1>2. ASSUME NEW k \in 1..n, k - 1 \in T PROVE k \in T
  <2>1. PICK j \in 1..n : j = n + 1 - k /\ n + 1 - (k - 1) = j + 1 /\ n + 2 - (k - 1) = j + 2
                          /\ n + 2 - k = j + 1
    <3>1. n + 1 - k \in 1..n
      OBVIOUS
    <3> QED BY <3>1
  <2>2. F[m + (j + 1)] = H[j + 1] /\ F[m + (j + 2)] = H[j + 2]
    BY <1>2, <2>1
  <2>3. m + j \in 1..m + n
    OBVIOUS
  <2>4. F[m + j] = Then(outT[j], F[m + j + 1 + skipT[j]])
    BY <2>3 DEF Reads, Ends
  <2>5. H[j] = Then(outT[j], H[j + 1 + skipT[j]])
    BY DEF Reads
  <2>6. \/ m + j + 1 + skipT[j] = m + (j + 1) /\ j + 1 + skipT[j] = j + 1
        \/ m + j + 1 + skipT[j] = m + (j + 2) /\ j + 1 + skipT[j] = j + 2
    <3>1. skipT[j] = 0 \/ skipT[j] = 1
      OBVIOUS
    <3> QED BY <3>1
  <2>7. F[m + j] = H[j]
    BY <2>2, <2>4, <2>5, <2>6
  <2>8. k \in 0..n
    OBVIOUS
  <2> QED BY <2>1, <2>2, <2>7, <2>8
<1>3. n \in T
  <2>1. 0..n \subseteq T
    <3> HIDE DEF T
    <3> QED BY <1>1, <1>2, BoundedInduction
  <2> QED BY <2>1
<1>4. n + 1 - n = 1
  OBVIOUS
<1> QED BY <1>3, <1>4

\* A reading of a concatenation, with the readings of its two parts; the last
\* position of the first part takes nothing with it.
Joined(F, out, skip, G, outS, skipS, H, outT, skipT, m, n, R) ==
    /\ m \in Nat /\ n \in Nat /\ Reads(F, m + n, out, skip)
    /\ ReadBy(G, m, outS, skipS, R) /\ ReadBy(H, n, outT, skipT, R)
    /\ Split(m, n, out, outS, outT) /\ Split(m, n, skip, skipS, skipT)
    /\ m > 0 => skipS[m] = 0

Concats(F, G, H) == F[1] = G[1] \o H[1]

\* A list whose first part takes nothing from the second is read part by part.
LEMMA ReadsConcat ==
    ASSUME NEW F, NEW out, NEW skip, NEW G, NEW outS, NEW skipS, NEW H, NEW outT, NEW skipT,
           NEW m, NEW n, NEW R, Joined(F, out, skip, G, outS, skipS, H, outT, skipT, m, n, R)
    PROVE  Concats(F, G, H)
<1>1. /\ m \in Nat /\ n \in Nat /\ Reads(F, m + n, out, skip)
      /\ ReadBy(G, m, outS, skipS, R) /\ ReadBy(H, n, outT, skipT, R)
      /\ Split(m, n, out, outS, outT) /\ Split(m, n, skip, skipS, skipT)
      /\ m > 0 => skipS[m] = 0
  BY DEF Joined
<1>2. PICK N : N = m + n /\ Reads(F, N, out, skip)
  BY <1>1
<1>3. outS \in [1..m -> Seq(R)] /\ skipS \in [1..m -> {0, 1}] /\ Reads(G, m, outS, skipS)
  BY <1>1 DEF ReadBy
<1>4. outT \in [1..n -> Seq(R)] /\ skipT \in [1..n -> {0, 1}] /\ Reads(H, n, outT, skipT)
  BY <1>1 DEF ReadBy
<1>5. PICK t \in Seq(R) : t = H[1] /\ F[m + 1] = t
  <2>1. H[1] \in Seq(R)
    <3>1. 1 \in 1..n + 2
      BY <1>1
    <3> QED BY <1>1, <1>4, <3>1, ReadsTyped
  <2>2. F[m + 1] = H[1]
    <3>1. Ends(m, n, out, outT) /\ Ends(m, n, skip, skipT)
      BY <1>1 DEF Split
    <3> QED BY <1>1, <1>2, <1>4, <3>1, ReadsTail
  <2> QED BY <2>1, <2>2
<1>6. ASSUME NEW a \in Seq(R), NEW b \in Seq(R) PROVE (a \o b) \o t = a \o (b \o t)
  BY ConcatChain
<1>7. \A i \in 1..m + 2 : G[i] \in Seq(R)
  BY <1>1, <1>3, ReadsTyped
<1> DEFINE T == {k \in 0..m : /\ F[m + 1 - k] = G[m + 1 - k] \o t
                              /\ k > 0 => F[m + 2 - k] = G[m + 2 - k] \o t}
<1>8. 0 \in T
  <2>1. m + 1 - 0 = m + 1 /\ 0 \in 0..m /\ ~(0 > 0)
    BY <1>1
  <2>2. G[m + 1] = <<>>
    BY <1>3 DEF Reads
  <2>3. <<>> \o t = t
    BY ConcatEmpty
  <2> QED BY <1>5, <2>1, <2>2, <2>3
<1>9. ASSUME NEW k \in 1..m, k - 1 \in T PROVE k \in T
  <2>1. PICK i \in 1..m : i = m + 1 - k /\ m + 1 - (k - 1) = i + 1 /\ m + 2 - (k - 1) = i + 2
                          /\ m + 2 - k = i + 1 /\ (i # m => k - 1 > 0)
    <3>1. m + 1 - k \in 1..m
      BY <1>1
    <3> QED BY <1>1, <3>1
  <2>2. F[i + 1] = G[i + 1] \o t /\ (i # m => F[i + 2] = G[i + 2] \o t)
    BY <1>9, <2>1
  <2>3. F[i] = Then(outS[i], F[i + 1 + skipS[i]])
    <3>1. i \in 1..m + n
      BY <1>1
    <3> QED BY <1>1, <3>1 DEF Reads, Split
  <2>4. G[i] = Then(outS[i], G[i + 1 + skipS[i]])
    BY <1>3 DEF Reads
  <2>5. PICK q \in 1..m + 2 : q = i + 1 + skipS[i] /\ (q = i + 1 \/ (q = i + 2 /\ i # m))
    <3>1. skipS[i] = 0 \/ skipS[i] = 1
      BY <1>3
    <3>2. skipS[i] = 1 => i # m
      BY <1>1
    <3>3. i + 1 + skipS[i] \in 1..m + 2 /\ (i + 1 + skipS[i] = i + 1 \/ skipS[i] = 1)
      BY <1>1, <3>1
    <3>4. skipS[i] = 1 => i + 1 + skipS[i] = i + 2
      BY <1>1
    <3> QED BY <3>2, <3>3, <3>4
  <2>6. F[q] = G[q] \o t
    BY <2>2, <2>5
  <2>7. F[i] = G[i] \o t
    <3>1. PICK a \in Seq(R), b \in Seq(R) : a = outS[i] /\ b = G[q]
      BY <1>7, <1>3
    <3>2. Then(a, b) = a \o b /\ b \o t \in Seq(R)
      BY ThenConcat
    <3>3. Then(a, b \o t) = a \o (b \o t)
      BY <3>2, ThenConcat
    <3>4. (a \o b) \o t = a \o (b \o t)
      BY <1>6
    <3> QED BY <2>3, <2>4, <2>5, <2>6, <3>1, <3>4, <3>2, <3>3
  <2>8. k \in 0..m
    BY <1>1
  <2> QED BY <2>1, <2>2, <2>7, <2>8
<1>10. m \in T
  <2>1. 0..m \subseteq T
    <3> HIDE DEF T
    <3> QED BY <1>1, <1>8, <1>9, BoundedInduction
  <2> QED BY <1>1, <2>1
<1>11. m + 1 - m = 1
  BY <1>1
<1> QED BY <1>5, <1>10, <1>11 DEF Concats

\* A function that is defined by reading a list is a reading of it.
ReadingOf(g, N, out, skip) ==
    [i \in 1..N + 2 |-> IF i > N THEN <<>> ELSE Then(out[i], g[i + 1 + skip[i]])]

\* The function that the definition chooses is a reading, for one exists.
LEMMA ReadingReads ==
    ASSUME NEW R, NEW N \in Nat, NEW out \in [1..N -> Seq(R)], NEW skip \in [1..N -> {0, 1}],
           NEW from, from = CHOOSE g : g = ReadingOf(g, N, out, skip)
    PROVE  ReadBy(from, N, out, skip, R) /\ from[1] \in Seq(R)
<1>1. PICK g \in [1..N + 2 -> Seq(R)] : Reads(g, N, out, skip)
  BY ReadsExist
<1>2. g = ReadingOf(g, N, out, skip)
  <2>1. ASSUME NEW i \in 1..N + 2 PROVE g[i] = ReadingOf(g, N, out, skip)[i]
    <3>1. CASE i > N
      <4>1. i = N + 1 \/ i = N + 2
        BY <3>1
      <4> QED BY <1>1, <3>1, <4>1 DEF Reads, ReadingOf
    <3>2. CASE ~(i > N)
      <4>1. i \in 1..N
        BY <3>2
      <4> QED BY <1>1, <3>2, <4>1 DEF Reads, ReadingOf
    <3> QED BY <3>1, <3>2
  <2> QED BY <2>1 DEF ReadingOf
<1>3. from = ReadingOf(from, N, out, skip)
  BY <1>2
<1>4. Reads(from, N, out, skip)
  <2>1. N + 1 \in 1..N + 2 /\ N + 1 > N /\ N + 2 \in 1..N + 2 /\ N + 2 > N
    OBVIOUS
  <2>2. from[N + 1] = <<>> /\ from[N + 2] = <<>>
    BY <1>3, <2>1 DEF ReadingOf
  <2>3. ASSUME NEW i \in 1..N PROVE from[i] = Then(out[i], from[i + 1 + skip[i]])
    <3>1. i \in 1..N + 2 /\ ~(i > N)
      OBVIOUS
    <3> QED BY <1>3, <3>1 DEF ReadingOf
  <2> QED BY <2>2, <2>3 DEF Reads
<1>5. 1 \in 1..N + 2
  OBVIOUS
<1> QED BY <1>4, <1>5, ReadsTyped DEF ReadBy

----------------------------------------------------------------------------
(* Parse and args read.                                                    *)

\* How rsync reads: an option that takes a value, the value.
Takes(argv, i) ==
    argv[i].form \in {"short", "long"} /\ TakesValue(argv[i].name) /\ i < Len(argv)

ParseOut(argv) ==
    [i \in 1..Len(argv) |-> IF Takes(argv, i) THEN <<<<argv[i].name, argv[i + 1].name>>>>
                            ELSE <<<<argv[i].name, argv[i].val>>>>]
ParseSkip(argv) == [i \in 1..Len(argv) |-> IF Takes(argv, i) THEN 1 ELSE 0]

\* What rsync can read of tokens of a set.
Pairs(T) == {tok.name : tok \in T} \X ({tok.name : tok \in T} \cup {tok.val : tok \in T})

ParseBy(g, argv, T) ==
    /\ ReadBy(g, Len(argv), ParseOut(argv), ParseSkip(argv), Pairs(T))
    /\ Parse(argv) = g[1] /\ Parse(argv) \in Seq(Pairs(T))

\* Parse is a reading.
LEMMA ParseReads ==
    ASSUME NEW T, NEW argv \in Seq(T)
    PROVE  \E g : ParseBy(g, argv, T)
<1>1. PICK N \in Nat : N = Len(argv)
  OBVIOUS
<1>2. PICK out, skip : out = ParseOut(argv) /\ skip = ParseSkip(argv)
  OBVIOUS
<1>3. out \in [1..N -> Seq(Pairs(T))]
  <2>1. ASSUME NEW i \in 1..N
        PROVE  (IF Takes(argv, i) THEN <<<<argv[i].name, argv[i + 1].name>>>>
                ELSE <<<<argv[i].name, argv[i].val>>>>) \in Seq(Pairs(T))
    <3>1. argv[i] \in T
      BY <1>1
    <3>2. Takes(argv, i) => argv[i + 1] \in T
      BY <1>1 DEF Takes
    <3>3. <<argv[i].name, argv[i].val>> \in Pairs(T)
      BY <3>1 DEF Pairs
    <3>4. Takes(argv, i) => <<argv[i].name, argv[i + 1].name>> \in Pairs(T)
      BY <3>1, <3>2 DEF Pairs
    <3> QED BY <3>3, <3>4
  <2> QED BY <1>1, <1>2, <2>1 DEF ParseOut
<1>4. skip \in [1..N -> {0, 1}]
  BY <1>1, <1>2 DEF ParseSkip
<1> DEFINE Def(g) ==
               [i \in 1..N + 2 |->
                   IF i > N THEN <<>>
                   ELSE IF Takes(argv, i)
                        THEN <<<<argv[i].name, argv[i + 1].name>>>> \o g[i + 2]
                   ELSE <<<<argv[i].name, argv[i].val>>>> \o g[i + 1]]
           from == CHOOSE g : g = Def(g)
<1>5. Parse(argv) = from[1]
  BY <1>1 DEF Parse, Takes
<1>6. ASSUME NEW g PROVE Def(g) = ReadingOf(g, N, out, skip)
  <2>1. ASSUME NEW i \in 1..N + 2 PROVE Def(g)[i] = ReadingOf(g, N, out, skip)[i]
    <3>1. CASE i > N
      BY <3>1 DEF ReadingOf
    <3>2. CASE ~(i > N)
      <4>1. i \in 1..N
        BY <3>2
      <4>2. CASE Takes(argv, i)
        <5>1. out[i] = <<<<argv[i].name, argv[i + 1].name>>>> /\ skip[i] = 1
          BY <1>1, <1>2, <4>1, <4>2 DEF ParseOut, ParseSkip
        <5>2. i + 1 + skip[i] = i + 2
          BY <5>1
        <5>3. out[i] # <<>>
          BY <5>1
        <5> QED BY <3>2, <4>2, <5>1, <5>2, <5>3 DEF ReadingOf, Then
      <4>3. CASE ~Takes(argv, i)
        <5>1. out[i] = <<<<argv[i].name, argv[i].val>>>> /\ skip[i] = 0
          BY <1>1, <1>2, <4>1, <4>3 DEF ParseOut, ParseSkip
        <5>2. i + 1 + skip[i] = i + 1
          BY <5>1
        <5>3. out[i] # <<>>
          BY <5>1
        <5> QED BY <3>2, <4>3, <5>1, <5>2, <5>3 DEF ReadingOf, Then
      <4> QED BY <4>2, <4>3
    <3> QED BY <3>1, <3>2
  <2> QED BY <2>1 DEF ReadingOf
<1>7. from = CHOOSE g : g = ReadingOf(g, N, out, skip)
  <2> HIDE DEF Def
  <2> QED BY <1>6, Zenon
<1>8. PICK f : f = from
  OBVIOUS
<1>9. ReadBy(f, N, out, skip, Pairs(T)) /\ f[1] \in Seq(Pairs(T))
  <2> HIDE DEF from
  <2> QED BY <1>3, <1>4, <1>7, <1>8, ReadingReads
<1> HIDE DEF from
<1> QED BY <1>1, <1>2, <1>5, <1>8, <1>9 DEF ParseBy

\* The entries that an argument matches, and how many tokens go with it.
Hits(arg)  == {bla \in blacklistArgs : Matches(bla, arg)}
Taken(arg) == Swallows(CHOOSE bla \in Hits(arg) : TRUE, arg)

ArgsOut(list)  == [i \in 1..Len(list) |-> IF Hits(list[i]) = {} THEN <<list[i]>> ELSE <<>>]
ArgsSkip(list) == [i \in 1..Len(list) |-> IF Hits(list[i]) = {} THEN 0 ELSE Taken(list[i])]

ArgsBy(g, list, T) ==
    /\ ReadBy(g, Len(list), ArgsOut(list), ArgsSkip(list), T)
    /\ args(list) = g[1] /\ args(list) \in Seq(T)

\* An argument takes one token with it, or none.
LEMMA TakenIs ==
    ASSUME NEW arg
    PROVE  Taken(arg) \in {0, 1}
BY DEF Taken, Swallows

\* args is a reading.
LEMMA ArgsReads ==
    ASSUME NEW T, NEW list \in Seq(T)
    PROVE  \E g : ArgsBy(g, list, T)
<1>1. PICK N \in Nat : N = Len(list)
  OBVIOUS
<1>2. PICK out, skip : out = ArgsOut(list) /\ skip = ArgsSkip(list)
  OBVIOUS
<1>3. out \in [1..N -> Seq(T)]
  <2>1. ASSUME NEW i \in 1..N
        PROVE  (IF Hits(list[i]) = {} THEN <<list[i]>> ELSE <<>>) \in Seq(T)
    <3>1. list[i] \in T
      BY <1>1
    <3> QED BY <3>1
  <2> QED BY <1>1, <1>2, <2>1 DEF ArgsOut
<1>4. skip \in [1..N -> {0, 1}]
  <2>1. ASSUME NEW i \in 1..N
        PROVE  (IF Hits(list[i]) = {} THEN 0 ELSE Taken(list[i])) \in {0, 1}
    BY TakenIs
  <2> QED BY <1>1, <1>2, <2>1 DEF ArgsSkip
<1> DEFINE Def(g) ==
               [i \in 1..N + 2 |->
                   IF i > N THEN <<>>
                   ELSE IF Hits(list[i]) = {} THEN <<list[i]>> \o g[i + 1]
                   ELSE g[i + 1 + Taken(list[i])]]
           from == CHOOSE g : g = Def(g)
<1>5. args(list) = from[1]
  BY <1>1 DEF args, Hits, Taken
<1>6. ASSUME NEW g PROVE Def(g) = ReadingOf(g, N, out, skip)
  <2>1. ASSUME NEW i \in 1..N + 2 PROVE Def(g)[i] = ReadingOf(g, N, out, skip)[i]
    <3>1. CASE i > N
      BY <3>1 DEF ReadingOf
    <3>2. CASE ~(i > N)
      <4>1. i \in 1..N
        BY <3>2
      <4>2. CASE Hits(list[i]) = {}
        <5>1. out[i] = <<list[i]>> /\ skip[i] = 0
          BY <1>1, <1>2, <4>1, <4>2 DEF ArgsOut, ArgsSkip
        <5>2. i + 1 + skip[i] = i + 1
          BY <5>1
        <5>3. out[i] # <<>>
          BY <5>1
        <5> QED BY <3>2, <4>2, <5>1, <5>2, <5>3 DEF ReadingOf, Then
      <4>3. CASE Hits(list[i]) # {}
        <5>1. out[i] = <<>> /\ skip[i] = Taken(list[i])
          BY <1>1, <1>2, <4>1, <4>3 DEF ArgsOut, ArgsSkip
        <5> QED BY <3>2, <4>3, <5>1 DEF ReadingOf, Then
      <4> QED BY <4>2, <4>3
    <3> QED BY <3>1, <3>2
  <2> QED BY <2>1 DEF ReadingOf
<1>7. from = CHOOSE g : g = ReadingOf(g, N, out, skip)
  <2> HIDE DEF Def
  <2> QED BY <1>6, Zenon
<1>8. PICK f : f = from
  OBVIOUS
<1>9. ReadBy(f, N, out, skip, T) /\ f[1] \in Seq(T)
  <2> HIDE DEF from
  <2> QED BY <1>3, <1>4, <1>7, <1>8, ReadingReads
<1> HIDE DEF from
<1> QED BY <1>1, <1>2, <1>5, <1>8, <1>9 DEF ArgsBy

----------------------------------------------------------------------------
(* Vectors that do not tear an option from its value.                      *)

\* An argument that may take the next token with it, and a list that does not
\* end in one.
Open(arg)    == arg.form \in {"short", "long"} /\ TakesValue(arg.name)
Closed(list) == list # <<>> => ~Open(list[Len(list)])

\* rsync reads the parts of a vector by themselves, if no option is torn from
\* its value.
LEMMA ParseConcat ==
    ASSUME NEW T, NEW s \in Seq(T), NEW t \in Seq(T), Closed(s)
    PROVE  Parse(s \o t) = Parse(s) \o Parse(t)
<1>1. PICK m \in Nat, n \in Nat : m = Len(s) /\ n = Len(t) /\ (m > 0 => s # <<>>)
  OBVIOUS
<1>2. PICK st \in Seq(T) : st = s \o t
  <2>1. s \o t \in Seq(T)
    OBVIOUS
  <2> QED BY <2>1
<1>3. Len(st) = m + n
  BY <1>1, <1>2
<1>4. \A i \in 1..m : st[i] = s[i]
  BY <1>1, <1>2
<1>5. \A j \in 1..n : st[m + j] = t[j]
  BY <1>1, <1>2
<1>6. PICK F : ParseBy(F, st, T)
  BY ParseReads
<1>7. PICK G : ParseBy(G, s, T)
  BY ParseReads
<1>8. PICK H : ParseBy(H, t, T)
  BY ParseReads
<1>9. ASSUME NEW i \in 1..m PROVE Takes(st, i) = Takes(s, i)
  <2>1. CASE i = m
    <3>1. ~Open(st[i])
      BY <1>1, <1>4, <2>1 DEF Closed
    <3> QED BY <1>4, <3>1 DEF Takes, Open
  <2>2. CASE i # m
    <3>1. i < m /\ i < m + n
      BY <2>2
    <3> QED BY <1>1, <1>3, <1>4, <3>1 DEF Takes
  <2> QED BY <2>1, <2>2
<1>10. ASSUME NEW i \in 1..m, Takes(s, i) PROVE i # m /\ i + 1 \in 1..m
  <2>1. i < m
    BY <1>1, <1>10 DEF Takes
  <2> QED BY <2>1
<1>11. ASSUME NEW j \in 1..n PROVE Takes(st, m + j) = Takes(t, j)
  <2>1. m + j < m + n <=> j < n
    OBVIOUS
  <2> QED BY <1>1, <1>3, <1>5, <2>1 DEF Takes
<1>12. Split(m, n, ParseSkip(st), ParseSkip(s), ParseSkip(t))
  <2>1. ASSUME NEW i \in 1..m PROVE ParseSkip(st)[i] = ParseSkip(s)[i]
    <3>1. i \in 1..m + n
      OBVIOUS
    <3> QED BY <1>1, <1>3, <1>9, <3>1 DEF ParseSkip
  <2>2. ASSUME NEW j \in 1..n PROVE ParseSkip(st)[m + j] = ParseSkip(t)[j]
    <3>1. m + j \in 1..m + n
      OBVIOUS
    <3> QED BY <1>1, <1>3, <1>11, <3>1 DEF ParseSkip
  <2> QED BY <2>1, <2>2 DEF Split, Ends
<1>13. Split(m, n, ParseOut(st), ParseOut(s), ParseOut(t))
  <2>1. ASSUME NEW i \in 1..m PROVE ParseOut(st)[i] = ParseOut(s)[i]
    <3>1. i \in 1..m + n
      OBVIOUS
    <3>2. CASE Takes(s, i)
      <4>1. st[i + 1] = s[i + 1]
        BY <1>4, <1>10, <3>2
      <4> QED BY <1>1, <1>3, <1>4, <1>9, <3>1, <3>2, <4>1 DEF ParseOut
    <3>3. CASE ~Takes(s, i)
      BY <1>1, <1>3, <1>4, <1>9, <3>1, <3>3 DEF ParseOut
    <3> QED BY <3>2, <3>3
  <2>2. ASSUME NEW j \in 1..n PROVE ParseOut(st)[m + j] = ParseOut(t)[j]
    <3>1. m + j \in 1..m + n
      OBVIOUS
    <3>2. CASE Takes(t, j)
      <4>1. j + 1 \in 1..n /\ m + (j + 1) = m + j + 1
        BY <1>1, <3>2 DEF Takes
      <4>2. st[m + j + 1] = t[j + 1]
        BY <1>5, <4>1
      <4> QED BY <1>1, <1>3, <1>5, <1>11, <3>1, <3>2, <4>2 DEF ParseOut
    <3>3. CASE ~Takes(t, j)
      BY <1>1, <1>3, <1>5, <1>11, <3>1, <3>3 DEF ParseOut
    <3> QED BY <3>2, <3>3
  <2> QED BY <2>1, <2>2 DEF Split, Ends
<1>14. m > 0 => ParseSkip(s)[m] = 0
  <2> SUFFICES ASSUME m > 0 PROVE ParseSkip(s)[m] = 0
    OBVIOUS
  <2>1. m \in 1..m
    OBVIOUS
  <2> QED BY <1>1, <1>10, <2>1 DEF ParseSkip
<1>15. Joined(F, ParseOut(st), ParseSkip(st), G, ParseOut(s), ParseSkip(s),
              H, ParseOut(t), ParseSkip(t), m, n, Pairs(T))
  <2>1. Reads(F, m + n, ParseOut(st), ParseSkip(st))
    BY <1>3, <1>6 DEF ParseBy, ReadBy
  <2>2. /\ ReadBy(G, m, ParseOut(s), ParseSkip(s), Pairs(T))
        /\ ReadBy(H, n, ParseOut(t), ParseSkip(t), Pairs(T))
    BY <1>1, <1>7, <1>8 DEF ParseBy
  <2> QED BY <1>12, <1>13, <1>14, <2>1, <2>2 DEF Joined
<1>16. Concats(F, G, H)
  BY <1>15, ReadsConcat
<1> QED BY <1>2, <1>6, <1>7, <1>8, <1>16 DEF ParseBy, Concats

\* An entry with a value is for an option that rsync reads with one.
LEMMA BlacklistEntries ==
    ASSUME NEW bla \in blacklistArgs
    PROVE  (bla.opt <=> TakesValue(bla.long)) /\ (bla.long = "delete*" => ~bla.opt /\ ~bla.short)
<1>1. ASSUME NEW long \in {"debug", "info", "include", "exclude", "out-format"},
             bla = Blacklisted(long, FALSE, TRUE)
      PROVE  bla.opt /\ TakesValue(bla.long) /\ bla.long # "delete*"
  BY <1>1 DEF Blacklisted, TakesValue
<1>2. ASSUME NEW long \in {"rsh", "filter"}, bla = Blacklisted(long, TRUE, TRUE)
      PROVE  bla.opt /\ TakesValue(bla.long) /\ bla.long # "delete*"
  BY <1>2 DEF Blacklisted, TakesValue
<1>3. ASSUME NEW long \in {"verbose", "quiet", "itemize-changes", "progress"},
             bla = Blacklisted(long, TRUE, FALSE)
      PROVE  ~bla.opt /\ ~TakesValue(bla.long) /\ bla.long # "delete*"
  BY <1>3 DEF Blacklisted, TakesValue
<1>4. ASSUME NEW long \in {"delete*", "del", "force", "partial", "daemon"},
             bla = Blacklisted(long, FALSE, FALSE)
      PROVE  ~bla.opt /\ ~TakesValue(bla.long) /\ ~bla.short
  BY <1>4 DEF Blacklisted, TakesValue
<1>5. \/ \E long \in {"debug", "info", "include", "exclude", "out-format"} :
            bla = Blacklisted(long, FALSE, TRUE)
      \/ \E long \in {"rsh", "filter"} : bla = Blacklisted(long, TRUE, TRUE)
      \/ \E long \in {"verbose", "quiet", "itemize-changes", "progress"} :
            bla = Blacklisted(long, TRUE, FALSE)
      \/ \E long \in {"delete*", "del", "force", "partial", "daemon"} :
            bla = Blacklisted(long, FALSE, FALSE)
  BY DEF blacklistArgs
<1> QED BY <1>1, <1>2, <1>3, <1>4, <1>5

\* No deletion option has a value.
LEMMA DeleteOptionsValue ==
    ASSUME NEW name \in DeleteOptions
    PROVE  ~TakesValue(name)
BY DEF DeleteOptions, TakesValue

\* What an argument matches is for it, and has its value.
LEMMA HitsEntry ==
    ASSUME NEW arg, NEW bla \in Hits(arg)
    PROVE  /\ bla.opt <=> TakesValue(arg.name)
           /\ arg.name \in DeleteOptions \cup {b.long : b \in blacklistArgs}
<1>1. bla \in blacklistArgs /\ Matches(bla, arg)
  BY DEF Hits
<1>2. CASE arg.name = bla.long
  BY <1>1, <1>2, BlacklistEntries
<1>3. CASE bla.long = "delete*" /\ arg.name \in DeleteOptions
  BY <1>1, <1>3, BlacklistEntries, DeleteOptionsValue
<1> QED BY <1>1, <1>2, <1>3 DEF Matches

\* A reserved option takes its value with it when rsync would read the next
\* token as its value, and only then.
LEMMA TakenOpen ==
    ASSUME NEW arg, Hits(arg) # {}
    PROVE  Taken(arg) = IF Open(arg) THEN 1 ELSE 0
<1>1. PICK bla \in Hits(arg) : bla = CHOOSE b \in Hits(arg) : TRUE
  OBVIOUS
<1>2. bla.opt <=> TakesValue(arg.name)
  BY HitsEntry
<1>3. Taken(arg) = Swallows(bla, arg)
  BY <1>1 DEF Taken
<1> QED BY <1>2, <1>3 DEF Swallows, Open

\* args removes what is reserved from each part by itself.
LEMMA ArgsConcat ==
    ASSUME NEW T, NEW s \in Seq(T), NEW t \in Seq(T), Closed(s)
    PROVE  args(s \o t) = args(s) \o args(t)
<1>1. PICK m \in Nat, n \in Nat : m = Len(s) /\ n = Len(t) /\ (m > 0 => s # <<>>)
  OBVIOUS
<1>2. PICK st \in Seq(T) : st = s \o t
  <2>1. s \o t \in Seq(T)
    OBVIOUS
  <2> QED BY <2>1
<1>3. Len(st) = m + n
  BY <1>1, <1>2
<1>4. \A i \in 1..m : i \in 1..m + n /\ st[i] = s[i]
  BY <1>1, <1>2
<1>5. \A j \in 1..n : m + j \in 1..m + n /\ st[m + j] = t[j]
  BY <1>1, <1>2
<1>6. PICK F : ArgsBy(F, st, T)
  BY ArgsReads
<1>7. PICK G : ArgsBy(G, s, T)
  BY ArgsReads
<1>8. PICK H : ArgsBy(H, t, T)
  BY ArgsReads
<1>9. Split(m, n, ArgsSkip(st), ArgsSkip(s), ArgsSkip(t))
  BY <1>1, <1>3, <1>4, <1>5 DEF Split, Ends, ArgsSkip
<1>10. Split(m, n, ArgsOut(st), ArgsOut(s), ArgsOut(t))
  BY <1>1, <1>3, <1>4, <1>5 DEF Split, Ends, ArgsOut
<1>11. m > 0 => ArgsSkip(s)[m] = 0
  <2> SUFFICES ASSUME m > 0 PROVE ArgsSkip(s)[m] = 0
    OBVIOUS
  <2>1. m \in 1..Len(s) /\ ~Open(s[m])
    BY <1>1 DEF Closed
  <2>2. Hits(s[m]) # {} => Taken(s[m]) = 0
    BY <2>1, TakenOpen
  <2> QED BY <2>1, <2>2 DEF ArgsSkip
<1>12. Joined(F, ArgsOut(st), ArgsSkip(st), G, ArgsOut(s), ArgsSkip(s),
              H, ArgsOut(t), ArgsSkip(t), m, n, T)
  <2>1. Reads(F, m + n, ArgsOut(st), ArgsSkip(st))
    BY <1>3, <1>6 DEF ArgsBy, ReadBy
  <2>2. /\ ReadBy(G, m, ArgsOut(s), ArgsSkip(s), T)
        /\ ReadBy(H, n, ArgsOut(t), ArgsSkip(t), T)
    BY <1>1, <1>7, <1>8 DEF ArgsBy
  <2> QED BY <1>9, <1>10, <1>11, <2>1, <2>2 DEF Joined
<1>13. Concats(F, G, H)
  BY <1>12, ReadsConcat
<1> QED BY <1>2, <1>6, <1>7, <1>8, <1>13 DEF ArgsBy, Concats

----------------------------------------------------------------------------
(* The arguments, option by option.                                        *)

\* The loop of Allowed goes through the readings one by one.
LEMMA AllowedLoop ==
    ASSUME NEW R, NEW list \in Seq(R)
    PROVE  /\ allowedUpTo(list)[0] = <<>>
           /\ \A n \in 0..Len(list) : allowedUpTo(list)[n] \in Seq({x \in R : Free(x)})
           /\ \A n \in 1..Len(list) : allowedUpTo(list)[n] =
                  IF Free(list[n]) THEN Append(allowedUpTo(list)[n - 1], list[n])
                  ELSE allowedUpTo(list)[n - 1]
<1> DEFINE Grown(p, n) == IF Free(list[n]) THEN Append(p, list[n]) ELSE p
           Def(g, N) == [n \in 0..N |-> IF n = 0 THEN <<>>
                                        ELSE IF Free(list[n]) THEN Append(g[n - 1], list[n])
                                        ELSE g[n - 1]]
           S == Seq({x \in R : Free(x)})
<1>1. PICK N \in Nat : N = Len(list) /\ \A n \in 1..N : list[n] \in R
  OBVIOUS
<1>2. allowedUpTo(list) = CHOOSE g : g = Def(g, N)
  BY <1>1 DEF allowedUpTo
<1>3. ASSUME NEW n \in 1..N, NEW p \in S PROVE Grown(p, n) \in S
  BY <1>1
<1>4. <<>> \in S
  OBVIOUS
<1> HIDE DEF S
<1>5. \E g : g = Def(g, N)
  <2> DEFINE next == [n \in Nat |-> [p \in S |-> IF n \in 1..N THEN Grown(p, n) ELSE p]]
  <2>1. next \in [Nat -> [S -> S]]
    <3>1. ASSUME NEW n \in Nat, NEW p \in S
          PROVE  (IF n \in 1..N THEN Grown(p, n) ELSE p) \in S
      BY <1>3
    <3> HIDE DEF Grown
    <3> QED BY <3>1
  <2>2. ASSUME NEW n \in 1..N, NEW p \in S PROVE next[n][p] = Grown(p, n)
    <3> HIDE DEF Grown
    <3> QED BY n \in Nat
  <2> HIDE DEF next
  <2>3. PICK g \in [0..N -> S] : Iterates(g, <<>>, next, N)
    BY <1>4, <2>1, Recursion
  <2>4. ASSUME NEW n \in 1..N PROVE g[n] = Grown(g[n - 1], n)
    <3>1. n - 1 \in 0..N /\ g[n - 1] \in S
      OBVIOUS
    <3> HIDE DEF Grown
    <3> QED BY <2>2, <2>3, <3>1 DEF Iterates
  <2>5. g[0] = <<>>
    BY <2>3 DEF Iterates
  <2>6. ASSUME NEW n \in 0..N PROVE g[n] = Def(g, N)[n]
    <3>1. n = 0 \/ n \in 1..N
      OBVIOUS
    <3> QED BY <2>4, <2>5, <3>1
  <2>7. g = Def(g, N)
    BY <2>6
  <2> QED BY <2>7
<1>6. allowedUpTo(list) = Def(allowedUpTo(list), N)
  <2> HIDE DEF Def
  <2> QED BY <1>2, <1>5
<1>7. allowedUpTo(list)[0] = <<>>
  <2>1. 0 \in 0..N
    OBVIOUS
  <2> QED BY <1>6, <2>1
<1>8. ASSUME NEW n \in 1..N PROVE allowedUpTo(list)[n] = Grown(allowedUpTo(list)[n - 1], n)
  <2>1. n \in 0..N /\ n # 0
    OBVIOUS
  <2> QED BY <1>6, <2>1
<1> DEFINE T == {n \in 0..N : allowedUpTo(list)[n] \in S}
<1>9. 0 \in T /\ \A n \in 1..N : n - 1 \in T => n \in T
  <2>1. ASSUME NEW n \in 1..N, allowedUpTo(list)[n - 1] \in S PROVE allowedUpTo(list)[n] \in S
    <3> HIDE DEF Grown
    <3> QED BY <1>3, <1>8, <2>1
  <2>2. 0 \in 0..N /\ \A n \in 1..N : n \in 0..N
    OBVIOUS
  <2> QED BY <1>4, <1>7, <2>1, <2>2
<1>10. \A n \in 0..N : allowedUpTo(list)[n] \in S
  <2>1. 0..N \subseteq T
    <3> HIDE DEF T
    <3> QED BY <1>9, BoundedInduction
  <2> QED BY <2>1
<1> QED BY <1>1, <1>7, <1>8, <1>10 DEF S

\* One more reading is allowed or not, whatever is before it.
LEMMA AllowedAppend ==
    ASSUME NEW R, NEW list \in Seq(R), NEW x \in R
    PROVE  /\ Allowed(list) \in Seq({y \in R : Free(y)})
           /\ Allowed(Append(list, x)) = IF Free(x) THEN Append(Allowed(list), x) ELSE Allowed(list)
<1>1. PICK more \in Seq(R) : more = Append(list, x)
  <2>1. Append(list, x) \in Seq(R)
    OBVIOUS
  <2> QED BY <2>1
<1>2. PICK N \in Nat : N = Len(list) /\ Len(more) = N + 1 /\ N + 1 - 1 = N
  BY <1>1
<1>3. more[N + 1] = x /\ \A i \in 1..N : more[i] = list[i]
  BY <1>1, <1>2
<1>4. /\ allowedUpTo(more)[0] = <<>>
      /\ \A n \in 1..N + 1 : allowedUpTo(more)[n] =
             IF Free(more[n]) THEN Append(allowedUpTo(more)[n - 1], more[n])
             ELSE allowedUpTo(more)[n - 1]
  BY <1>2, AllowedLoop
<1>5. /\ allowedUpTo(list)[0] = <<>>
      /\ \A n \in 1..N : allowedUpTo(list)[n] =
             IF Free(list[n]) THEN Append(allowedUpTo(list)[n - 1], list[n])
             ELSE allowedUpTo(list)[n - 1]
  BY <1>2, AllowedLoop
<1> DEFINE T == {n \in 0..N : allowedUpTo(more)[n] = allowedUpTo(list)[n]}
<1>6. 0 \in T
  BY <1>4, <1>5
<1>7. ASSUME NEW n \in 1..N, n - 1 \in T PROVE n \in T
  <2>1. n \in 1..N + 1 /\ n \in 0..N
    OBVIOUS
  <2>2. allowedUpTo(more)[n - 1] = allowedUpTo(list)[n - 1]
    BY <1>7
  <2> QED BY <1>3, <1>4, <1>5, <2>1, <2>2
<1>8. allowedUpTo(more)[N] = allowedUpTo(list)[N]
  <2>1. 0..N \subseteq T
    <3> HIDE DEF T
    <3> QED BY <1>6, <1>7, BoundedInduction
  <2>2. N \in 0..N
    OBVIOUS
  <2> QED BY <2>1, <2>2
<1>9. allowedUpTo(more)[N + 1] =
          IF Free(x) THEN Append(allowedUpTo(list)[N], x) ELSE allowedUpTo(list)[N]
  <2>1. N + 1 \in 1..N + 1
    OBVIOUS
  <2> QED BY <1>2, <1>3, <1>4, <1>8, <2>1
<1>10. allowedUpTo(list)[N] \in Seq({y \in R : Free(y)})
  <2>1. N \in 0..Len(list)
    BY <1>2
  <2> QED BY <1>2, <2>1, AllowedLoop
<1> QED BY <1>1, <1>2, <1>9, <1>10 DEF Allowed

\* The options that have no letter.
LongOnly == DeleteOptions \cup {bla.long : bla \in {b \in blacklistArgs : ~b.short}}

\* An option in a spelling that rsync knows, but for its value.
Spelled(opt) == /\ opt.form \in {"short", "long", "shortval", "long="}
                /\ opt.form \in {"shortval", "long="} => TakesValue(opt.name)
                /\ opt.form \in {"short", "shortval"} => opt.name \notin LongOnly

\* An option with its value: the word after it, when it is open.
Spells(unit, T) == \E opt \in T, val \in T :
    /\ Spelled(opt) /\ val.form = "word"
    /\ unit = IF Open(opt) THEN <<opt, val>> ELSE <<opt>>

\* In every spelling that rsync knows, the blacklist finds the options that are
\* reserved and no other.
LEMMA HitsSpelled ==
    ASSUME NEW opt, Spelled(opt)
    PROVE  Hits(opt) = {} <=> opt.name \notin DeleteOptions \cup {bla.long : bla \in blacklistArgs}
<1>1. ASSUME Hits(opt) # {} PROVE opt.name \in DeleteOptions \cup {bla.long : bla \in blacklistArgs}
  <2>1. PICK bla : bla \in Hits(opt)
    BY <1>1
  <2> QED BY <2>1, HitsEntry
<1>2. ASSUME opt.name \in DeleteOptions PROVE Hits(opt) # {}
  <2>1. opt.form = "long"
    BY <1>2, DeleteOptionsValue DEF Spelled, LongOnly
  <2>2. PICK bla : bla = Blacklisted("delete*", FALSE, FALSE)
    OBVIOUS
  <2>3. bla \in blacklistArgs
    BY <2>2 DEF blacklistArgs
  <2>4. bla.long = "delete*"
    BY <2>2 DEF Blacklisted
  <2>5. Matches(bla, opt)
    BY <1>2, <2>1, <2>4 DEF Matches
  <2> QED BY <2>3, <2>5 DEF Hits
<1>3. ASSUME NEW bla \in blacklistArgs, opt.name = bla.long PROVE Hits(opt) # {}
  <2>1. bla.opt <=> TakesValue(opt.name)
    BY <1>3, BlacklistEntries
  <2>2. opt.form \in {"short", "shortval"} => bla.short
    BY <1>3 DEF Spelled, LongOnly
  <2>3. Matches(bla, opt)
    BY <1>3, <2>1, <2>2 DEF Matches, Spelled
  <2> QED BY <2>3 DEF Hits
<1> QED BY <1>1, <1>2, <1>3

\* One token is read by itself.
LEMMA OneRead ==
    ASSUME NEW T, NEW tok \in T
    PROVE  /\ Parse(<<tok>>) = <<<<tok.name, tok.val>>>>
           /\ args(<<tok>>) = IF Hits(tok) = {} THEN <<tok>> ELSE <<>>
<1>1. PICK list \in Seq(T) : list = <<tok>> /\ Len(list) = 1 /\ list[1] = tok
  <2>1. <<tok>> \in Seq(T) /\ Len(<<tok>>) = 1 /\ <<tok>>[1] = tok
    OBVIOUS
  <2> QED BY <2>1
<1>2. Parse(list) = <<<<tok.name, tok.val>>>>
  <2>1. PICK g : ParseBy(g, list, T)
    BY ParseReads
  <2>2. 1 \in 1..1 /\ ~Takes(list, 1)
    BY <1>1 DEF Takes
  <2>3. ParseOut(list)[1] = <<<<tok.name, tok.val>>>> /\ ParseSkip(list)[1] = 0
    BY <1>1, <2>2 DEF ParseOut, ParseSkip
  <2>4. g[1] = Then(<<<<tok.name, tok.val>>>>, g[1 + 1 + 0]) /\ g[2] = <<>>
    BY <1>1, <2>1, <2>2, <2>3 DEF ParseBy, ReadBy, Reads
  <2>5. PICK p : p = <<tok.name, tok.val>>
    OBVIOUS
  <2>6. Then(<<p>>, <<>>) = <<p>>
    <3>1. <<p>> \in Seq({p}) /\ <<p>> # <<>>
      OBVIOUS
    <3> QED BY <3>1, ConcatEmpty DEF Then
  <2> QED BY <2>1, <2>4, <2>5, <2>6 DEF ParseBy
<1>3. args(list) = IF Hits(tok) = {} THEN <<tok>> ELSE <<>>
  <2>1. PICK g : ArgsBy(g, list, T)
    BY ArgsReads
  <2>2. 1 \in 1..1
    OBVIOUS
  <2>3. g[2] = <<>> /\ g[3] = <<>> /\ g[1] = Then(ArgsOut(list)[1], g[1 + 1 + ArgsSkip(list)[1]])
    BY <1>1, <2>1, <2>2 DEF ArgsBy, ReadBy, Reads
  <2>4. ArgsSkip(list)[1] = 0 \/ ArgsSkip(list)[1] = 1
    BY <1>1, <2>2, TakenIs DEF ArgsSkip
  <2>5. g[1] = Then(ArgsOut(list)[1], <<>>)
    BY <2>3, <2>4
  <2>6. ArgsOut(list)[1] = IF Hits(tok) = {} THEN <<tok>> ELSE <<>>
    BY <1>1, <2>2 DEF ArgsOut
  <2>7. Then(<<tok>>, <<>>) = <<tok>> /\ Then(<<>>, <<>>) = <<>>
    <3>1. <<tok>> \in Seq({tok}) /\ <<tok>> # <<>>
      OBVIOUS
    <3> QED BY <3>1, ConcatEmpty DEF Then
  <2> QED BY <2>1, <2>5, <2>6, <2>7 DEF ArgsBy
<1> QED BY <1>1, <1>2, <1>3

\* An open option is read with the token after it.
LEMMA TwoRead ==
    ASSUME NEW T, NEW opt \in T, NEW val \in T, Open(opt)
    PROVE  /\ Parse(<<opt, val>>) = <<<<opt.name, val.name>>>>
           /\ Hits(val) = {} =>
                  args(<<opt, val>>) = IF Hits(opt) = {} THEN <<opt, val>> ELSE <<>>
<1>1. PICK list \in Seq(T) : list = <<opt, val>> /\ Len(list) = 2 /\ list[1] = opt /\ list[2] = val
  <2>1. <<opt, val>> \in Seq(T) /\ Len(<<opt, val>>) = 2
        /\ <<opt, val>>[1] = opt /\ <<opt, val>>[2] = val
    OBVIOUS
  <2> QED BY <2>1
<1>2. Parse(list) = <<<<opt.name, val.name>>>>
  <2>1. PICK g : ParseBy(g, list, T)
    BY ParseReads
  <2>2. 1 \in 1..2 /\ Takes(list, 1)
    BY <1>1 DEF Takes, Open
  <2>3. ParseOut(list)[1] = <<<<opt.name, val.name>>>> /\ ParseSkip(list)[1] = 1
    BY <1>1, <2>2 DEF ParseOut, ParseSkip
  <2>4. g[1] = Then(<<<<opt.name, val.name>>>>, g[1 + 1 + 1]) /\ g[3] = <<>>
    <3>1. Reads(g, 2, ParseOut(list), ParseSkip(list))
      BY <1>1, <2>1 DEF ParseBy, ReadBy
    <3>2. g[1] = Then(ParseOut(list)[1], g[1 + 1 + ParseSkip(list)[1]]) /\ g[2 + 1] = <<>>
      BY <2>2, <3>1 DEF Reads
    <3> QED BY <2>3, <3>2
  <2>5. PICK p : p = <<opt.name, val.name>>
    OBVIOUS
  <2>6. Then(<<p>>, <<>>) = <<p>>
    <3>1. <<p>> \in Seq({p}) /\ <<p>> # <<>>
      OBVIOUS
    <3> QED BY <3>1, ConcatEmpty DEF Then
  <2> QED BY <2>1, <2>4, <2>5, <2>6 DEF ParseBy
<1>3. ASSUME Hits(val) = {} PROVE args(list) = IF Hits(opt) = {} THEN <<opt, val>> ELSE <<>>
  <2>1. PICK g : ArgsBy(g, list, T)
    BY ArgsReads
  <2>2. 1 \in 1..2 /\ 2 \in 1..2
    OBVIOUS
  <2>3. /\ g[3] = <<>>
        /\ g[1] = Then(ArgsOut(list)[1], g[1 + 1 + ArgsSkip(list)[1]])
        /\ g[2] = Then(ArgsOut(list)[2], g[2 + 1 + ArgsSkip(list)[2]])
    <3>1. Reads(g, 2, ArgsOut(list), ArgsSkip(list))
      BY <1>1, <2>1 DEF ArgsBy, ReadBy
    <3>2. g[2 + 1] = <<>>
      BY <3>1 DEF Reads
    <3> QED BY <2>2, <3>1, <3>2 DEF Reads
  <2>4. ArgsSkip(list)[2] = 0 /\ ArgsOut(list)[2] = <<val>>
    BY <1>1, <1>3, <2>2 DEF ArgsSkip, ArgsOut
  <2>5. Then(<<val>>, <<>>) = <<val>> /\ Then(<<>>, <<>>) = <<>>
    <3>1. <<val>> \in Seq({val}) /\ <<val>> # <<>>
      OBVIOUS
    <3> QED BY <3>1, ConcatEmpty DEF Then
  <2>6. g[2] = <<val>>
    BY <2>3, <2>4, <2>5
  <2>7. CASE Hits(opt) = {}
    <3>1. ArgsSkip(list)[1] = 0 /\ ArgsOut(list)[1] = <<opt>>
      BY <1>1, <2>2, <2>7 DEF ArgsSkip, ArgsOut
    <3>2. g[1] = Then(<<opt>>, <<val>>)
      BY <2>3, <2>6, <3>1
    <3>3. <<opt>> # <<>> /\ <<opt>> \o <<val>> = <<opt, val>>
      <4>1. PICK e \in Seq({opt, val}) : e = <<opt>> \o <<val>>
        <5>1. <<opt>> \in Seq({opt, val}) /\ <<val>> \in Seq({opt, val})
          OBVIOUS
        <5> QED BY <5>1, ConcatJoins
      <4>2. Len(e) = 2 /\ e[1] = opt /\ e[2] = val
        BY <4>1
      <4>3. e = <<opt, val>>
        BY <4>2
      <4>4. <<opt>> # <<>>
        OBVIOUS
      <4> QED BY <4>1, <4>3, <4>4
    <3> QED BY <2>1, <2>7, <3>2, <3>3 DEF ArgsBy, Then
  <2>8. CASE Hits(opt) # {}
    <3>1. Taken(opt) = 1
      BY <2>8, TakenOpen
    <3>2. ArgsSkip(list)[1] = 1 /\ ArgsOut(list)[1] = <<>>
      BY <1>1, <2>2, <2>8, <3>1 DEF ArgsSkip, ArgsOut
    <3>3. g[1] = <<>>
      BY <2>3, <2>5, <3>2
    <3> QED BY <2>1, <2>8, <3>3 DEF ArgsBy
  <2> QED BY <2>7, <2>8
<1> QED BY <1>1, <1>2, <1>3

\* A vector of whole options stays one.
LEMMA ClosedConcat ==
    ASSUME NEW T, NEW s \in Seq(T), NEW t \in Seq(T), Closed(s), Closed(t)
    PROVE  s \o t \in Seq(T) /\ Closed(s \o t)
<1>1. PICK m \in Nat, n \in Nat : m = Len(s) /\ n = Len(t)
  OBVIOUS
<1>2. PICK st \in Seq(T) : st = s \o t /\ Joins(st, s, t)
  BY ConcatJoins
<1>3. Len(st) = m + n /\ (\A i \in 1..m : st[i] = s[i]) /\ (\A j \in 1..n : st[m + j] = t[j])
  BY <1>1, <1>2 DEF Joins
<1>4. CASE n > 0
  <2>1. t # <<>> /\ n \in 1..n
    BY <1>1, <1>4
  <2>2. ~Open(t[n])
    BY <1>1, <2>1 DEF Closed
  <2>3. st[Len(st)] = t[n]
    BY <1>3, <2>1
  <2> QED BY <1>2, <2>2, <2>3 DEF Closed
<1>5. CASE n = 0 /\ m > 0
  <2>1. s # <<>> /\ m \in 1..m
    BY <1>1, <1>5
  <2>2. ~Open(s[m])
    BY <1>1, <2>1 DEF Closed
  <2>3. st[Len(st)] = s[m]
    BY <1>3, <1>5, <2>1
  <2> QED BY <1>2, <2>2, <2>3 DEF Closed
<1>6. CASE n = 0 /\ m = 0
  <2>1. st = <<>>
    BY <1>2, <1>3, <1>6
  <2> QED BY <1>2, <2>1 DEF Closed
<1> QED BY <1>4, <1>5, <1>6

\* What rsync reads of the arguments zackup keeps is what it may read of the
\* arguments configured.
ArgsKept(list) == /\ Closed(list) /\ Closed(args(list))
                  /\ Parse(args(list)) = Allowed(Parse(list))

\* Without arguments there is nothing to keep.
LEMMA NoArgsKept == ArgsKept(<<>>)
<1>1. PICK list \in Seq({}) : list = <<>> /\ Len(list) = 0
  <2>1. <<>> \in Seq({}) /\ Len(<<>>) = 0
    OBVIOUS
  <2> QED BY <2>1
<1>2. args(list) = <<>>
  <2>1. PICK g : ArgsBy(g, list, {})
    BY ArgsReads
  <2>2. Reads(g, 0, ArgsOut(list), ArgsSkip(list))
    BY <1>1, <2>1 DEF ArgsBy, ReadBy
  <2>3. g[0 + 1] = <<>>
    BY <2>2 DEF Reads
  <2> QED BY <2>1, <2>3 DEF ArgsBy
<1>3. Parse(list) = <<>>
  <2>1. PICK g : ParseBy(g, list, {})
    BY ParseReads
  <2>2. Reads(g, 0, ParseOut(list), ParseSkip(list))
    BY <1>1, <2>1 DEF ParseBy, ReadBy
  <2>3. g[0 + 1] = <<>>
    BY <2>2 DEF Reads
  <2> QED BY <2>1, <2>3 DEF ParseBy
<1>4. Allowed(list) = <<>>
  BY <1>1, AllowedLoop DEF Allowed
<1> QED BY <1>1, <1>2, <1>3, <1>4 DEF ArgsKept, Closed

\* What rsync reads of an option with its value, and what zackup keeps of it.
UnitRead(unit, pair) == /\ Parse(unit) = <<pair>>
                        /\ args(unit) = IF Free(pair) THEN unit ELSE <<>>

\* An option with its value is read as one, and kept or removed with it.
LEMMA UnitIsRead ==
    ASSUME NEW T, NEW unit, Spells(unit, T)
    PROVE  /\ unit \in Seq(T) /\ Closed(unit)
           /\ \E pair \in Pairs(T) : UnitRead(unit, pair)
<1>1. PICK opt \in T, val \in T : /\ Spelled(opt) /\ val.form = "word"
                                  /\ unit = IF Open(opt) THEN <<opt, val>> ELSE <<opt>>
  BY DEF Spells
<1>2. Hits(val) = {} /\ ~Open(val)
  BY <1>1 DEF Hits, Matches, Open
<1>3. ASSUME NEW pair, pair[1] = opt.name PROVE Hits(opt) = {} <=> Free(pair)
  BY <1>1, <1>3, HitsSpelled DEF Free
<1>4. CASE Open(opt)
  <2>1. unit = <<opt, val>>
    BY <1>1, <1>4
  <2>2. unit \in Seq(T) /\ Len(unit) = 2 /\ unit[2] = val
    BY <2>1
  <2>3. PICK pair : pair = <<opt.name, val.name>>
    OBVIOUS
  <2>4. pair \in Pairs(T) /\ pair[1] = opt.name
    BY <2>3 DEF Pairs
  <2>5. UnitRead(unit, pair)
    BY <1>2, <1>3, <1>4, <2>1, <2>3, <2>4, TwoRead DEF UnitRead
  <2>6. Closed(unit)
    BY <1>2, <2>2 DEF Closed
  <2> QED BY <2>2, <2>4, <2>5, <2>6
<1>5. CASE ~Open(opt)
  <2>1. unit = <<opt>>
    BY <1>1, <1>5
  <2>2. unit \in Seq(T) /\ Len(unit) = 1 /\ unit[1] = opt
    BY <2>1
  <2>3. PICK pair : pair = <<opt.name, opt.val>>
    OBVIOUS
  <2>4. pair \in Pairs(T) /\ pair[1] = opt.name
    BY <2>3 DEF Pairs
  <2>5. UnitRead(unit, pair)
    BY <1>3, <2>1, <2>3, <2>4, OneRead DEF UnitRead
  <2>6. Closed(unit)
    BY <1>5, <2>2 DEF Closed
  <2> QED BY <2>2, <2>4, <2>5, <2>6
<1> QED BY <1>4, <1>5

\* One more option with its value.
LEMMA UnitKept ==
    ASSUME NEW T, NEW list \in Seq(T), ArgsKept(list), NEW unit, Spells(unit, T)
    PROVE  list \o unit \in Seq(T) /\ ArgsKept(list \o unit)
<1>1. unit \in Seq(T) /\ Closed(unit)
  BY UnitIsRead
<1>2. PICK pair \in Pairs(T) : UnitRead(unit, pair)
  BY UnitIsRead
<1>3. Closed(list) /\ Closed(args(list)) /\ Parse(args(list)) = Allowed(Parse(list))
  BY DEF ArgsKept
<1>4. list \o unit \in Seq(T) /\ Closed(list \o unit)
  BY <1>1, <1>3, ClosedConcat
<1>5. args(list) \in Seq(T)
  BY ArgsReads DEF ArgsBy
<1>6. PICK read \in Seq(Pairs(T)) : read = Parse(list)
  BY ParseReads DEF ParseBy
<1>7. Allowed(read) \in Seq(Pairs(T))
      /\ Allowed(Append(read, pair)) =
             IF Free(pair) THEN Append(Allowed(read), pair) ELSE Allowed(read)
  <2>1. Allowed(read) \in Seq({y \in Pairs(T) : Free(y)})
    BY AllowedAppend
  <2>2. {y \in Pairs(T) : Free(y)} \subseteq Pairs(T)
    OBVIOUS
  <2>3. Allowed(read) \in Seq(Pairs(T))
    BY <2>1, <2>2, SeqWiden
  <2> QED BY <2>3, AllowedAppend
<1>8. \A p \in Seq(Pairs(T)) : p \o <<pair>> = Append(p, pair)
  OBVIOUS
<1>9. Parse(list \o unit) = Append(read, pair)
  <2>1. Parse(list \o unit) = Parse(list) \o Parse(unit)
    BY <1>1, <1>3, ParseConcat
  <2> QED BY <1>2, <1>6, <1>8, <2>1 DEF UnitRead
<1>10. args(list \o unit) = args(list) \o args(unit)
  BY <1>1, <1>3, ArgsConcat
<1>11. CASE Free(pair)
  <2>1. args(list \o unit) = args(list) \o unit
    BY <1>2, <1>10, <1>11 DEF UnitRead
  <2>2. Closed(args(list) \o unit)
    BY <1>1, <1>3, <1>5, ClosedConcat
  <2>3. Parse(args(list) \o unit) = Parse(args(list)) \o Parse(unit)
    BY <1>1, <1>3, <1>5, ParseConcat
  <2>4. Parse(args(list) \o unit) = Append(Allowed(read), pair)
    BY <1>2, <1>3, <1>6, <1>7, <1>8, <2>3 DEF UnitRead
  <2> QED BY <1>4, <1>7, <1>9, <1>11, <2>1, <2>2, <2>4 DEF ArgsKept
<1>12. CASE ~Free(pair)
  <2>1. args(list \o unit) = args(list)
    BY <1>2, <1>5, <1>10, <1>12, ConcatEmpty DEF UnitRead
  <2> QED BY <1>3, <1>4, <1>6, <1>7, <1>9, <1>12, <2>1 DEF ArgsKept
<1> QED BY <1>11, <1>12

\* The list is one option with its value after the other.
Spelt(list, T) ==
    \E k \in Nat : \E part, unit :
        /\ part[0] = <<>> /\ part[k] = list
        /\ \A n \in 1..k : Spells(unit[n], T) /\ part[n] = part[n - 1] \o unit[n]

\* Any number of options with their values.
LEMMA SpeltKept ==
    ASSUME NEW T, NEW list, Spelt(list, T)
    PROVE  list \in Seq(T) /\ ArgsKept(list)
<1>1. PICK k \in Nat : \E part, unit :
         /\ part[0] = <<>> /\ part[k] = list
         /\ \A n \in 1..k : Spells(unit[n], T) /\ part[n] = part[n - 1] \o unit[n]
  BY DEF Spelt
<1>2. PICK part, unit :
         /\ part[0] = <<>> /\ part[k] = list
         /\ \A n \in 1..k : Spells(unit[n], T) /\ part[n] = part[n - 1] \o unit[n]
  BY <1>1
<1> DEFINE Good == {n \in 0..k : part[n] \in Seq(T) /\ ArgsKept(part[n])}
<1>3. 0 \in Good
  <2>1. <<>> \in Seq(T) /\ 0 \in 0..k
    OBVIOUS
  <2> QED BY <1>2, <2>1, NoArgsKept
<1>4. ASSUME NEW n \in 1..k, n - 1 \in Good PROVE n \in Good
  <2>1. PICK p, u : p \in Seq(T) /\ p = part[n - 1] /\ u = unit[n]
    BY <1>4
  <2>2. ArgsKept(p) /\ Spells(u, T) /\ part[n] = p \o u
    BY <1>4, <1>2, <2>1
  <2>3. n \in 0..k
    OBVIOUS
  <2> QED BY <2>1, <2>2, <2>3, UnitKept
<1>5. k \in Good
  <2>1. 0..k \subseteq Good
    <3> HIDE DEF Good
    <3> QED BY <1>3, <1>4, BoundedInduction
  <2> QED BY <2>1
<1> QED BY <1>5, <1>2

\* No token that an entry of the blacklist matches gets through args, however
\* the arguments are written.
THEOREM ArgsPassNoMatch ==
    ASSUME NEW T, NEW list \in Seq(T)
    PROVE  args(list) \in Seq({tok \in T : Hits(tok) = {}})
<1> DEFINE K == {tok \in T : Hits(tok) = {}}
<1>1. PICK g : ArgsBy(g, list, T)
  BY ArgsReads
<1>2. PICK N \in Nat : N = Len(list) /\ \A i \in 1..N : list[i] \in T
  OBVIOUS
<1>3. PICK out, skip : out = ArgsOut(list) /\ skip = ArgsSkip(list)
  OBVIOUS
<1>4. skip \in [1..N -> {0, 1}] /\ Reads(g, N, out, skip)
  BY <1>1, <1>2, <1>3 DEF ArgsBy, ReadBy
<1>5. out \in [1..N -> Seq(K)]
  <2>1. ASSUME NEW i \in 1..N
        PROVE  (IF Hits(list[i]) = {} THEN <<list[i]>> ELSE <<>>) \in Seq(K)
    <3>1. CASE Hits(list[i]) = {}
      <4>1. list[i] \in K
        BY <1>2, <3>1
      <4> HIDE DEF K
      <4> QED BY <3>1, <4>1
    <3>2. CASE Hits(list[i]) # {}
      BY <3>2
    <3> QED BY <3>1, <3>2
  <2> HIDE DEF K
  <2> QED BY <1>2, <1>3, <2>1 DEF ArgsOut
<1>6. 1 \in 1..N + 2
  OBVIOUS
<1>7. g[1] \in Seq(K)
  <2> HIDE DEF K
  <2> QED BY <1>4, <1>5, <1>6, ReadsTyped
<1> QED BY <1>1, <1>7 DEF ArgsBy

\* rsync reads no reserved option of the arguments zackup passes on.
THEOREM ReadsNoReserved ==
    ASSUME NEW T, NEW list, Spelt(list, T)
    PROVE  Parse(args(list)) \in Seq({pair \in Pairs(T) : Free(pair)})
<1>1. list \in Seq(T) /\ Parse(args(list)) = Allowed(Parse(list))
  BY SpeltKept DEF ArgsKept
<1>2. PICK N \in Nat, read \in Seq(Pairs(T)) : read = Parse(list) /\ N = Len(read)
  BY <1>1, ParseReads DEF ParseBy
<1>3. Allowed(read) \in Seq({pair \in Pairs(T) : Free(pair)})
  <2>1. N \in 0..Len(read)
    BY <1>2
  <2> QED BY <1>2, <2>1, AllowedLoop DEF Allowed
<1> QED BY <1>1, <1>2, <1>3

----------------------------------------------------------------------------
(* The whole vector.                                                       *)

\* All rules are options with their value in the same token.
LEMMA FilterOptions ==
    ASSUME NEW E, NEW c, c.included \in Seq(Seq(E)), NEW X, c.excluded \in Seq(X)
    PROVE  \E R : filter(c) \in Seq(R) /\ Closed(filter(c))
<1>1. PICK all : all = ruleLists(c.included)[Len(c.included)]
  OBVIOUS
<1>2. all.inc \in Seq(Pattern(E)) /\ all.exc \in Seq(Pattern(E))
  <2>1. Adds(E, all, NoRules, UNION {Levels(Clean(c.included[m])) : m \in 1..Len(c.included)},
                              UNION {AllSiblings(Clean(c.included[m])) : m \in 1..Len(c.included)})
    BY <1>1, RuleListsExact
  <2> QED BY <2>1 DEF Adds, NoRules, RuleLists
<1> DEFINE R == {Option("long=", name, val) :
                    name \in {"include", "exclude"},
                    val \in {Anchored(p) : p \in Pattern(E)} \cup X}
<1>3. ASSUME NEW list \in Seq(Pattern(E))
      PROVE  includeRules(list) \in Seq(R) /\ excludeRules(list) \in Seq(R)
  <2>1. PICK N \in Nat : N = Len(list) /\ \A n \in 1..N : list[n] \in Pattern(E)
    OBVIOUS
  <2>2. ASSUME NEW n \in 1..N
        PROVE  /\ Option("long=", "include", Anchored(list[n])) \in R
               /\ Option("long=", "exclude", Anchored(list[n])) \in R
    BY <2>1
  <2> HIDE DEF R
  <2> QED BY <2>1, <2>2 DEF includeRules, excludeRules
<1>4. configRules(c) \in Seq(R)
  <2>1. PICK N \in Nat : N = Len(c.excluded) /\ \A n \in 1..N : c.excluded[n] \in X
    OBVIOUS
  <2>2. ASSUME NEW n \in 1..N PROVE Option("long=", "exclude", c.excluded[n]) \in R
    BY <2>1
  <2> HIDE DEF R
  <2> QED BY <2>1, <2>2 DEF configRules
<1>5. ASSUME NEW list \in Seq(R) PROVE Closed(list)
  <2>1. ASSUME NEW tok \in R PROVE tok.form = "long="
    BY DEF Option
  <2> HIDE DEF R
  <2>2. ASSUME list # <<>> PROVE list[Len(list)] \in R
    BY <2>2
  <2> QED BY <2>1, <2>2 DEF Closed, Open
<1> HIDE DEF R
<1>6. PICK incs \in Seq(R), excs \in Seq(R), more \in Seq(R) :
         filter(c) = incs \o excs \o more
  BY <1>1, <1>2, <1>3, <1>4 DEF filter
<1>7. incs \o excs \in Seq(R)
  OBVIOUS
<1>8. filter(c) \in Seq(R)
  BY <1>6, <1>7
<1> QED BY <1>5, <1>8

\* Two readings one after the other.
LEMMA PairConcat ==
    ASSUME NEW p, NEW q
    PROVE  <<p>> \o <<q>> = <<p, q>>
<1>1. PICK e \in Seq({p, q}) : e = <<p>> \o <<q>> /\ Joins(e, <<p>>, <<q>>)
  <2>1. <<p>> \in Seq({p, q}) /\ <<q>> \in Seq({p, q})
    OBVIOUS
  <2> QED BY <2>1, ConcatJoins
<1>2. Len(e) = 2 /\ e[1] = p /\ e[2] = q
  BY <1>1 DEF Joins
<1>3. e = <<p, q>>
  BY <1>2
<1> QED BY <1>1, <1>3

\* What rsync has to read of the vector made for a config.
AsConfigured(c, ssh, src, dst) ==
    Parse(BuildArgVector(c, ssh, src, dst)) =
        Parse(filter(c)) \o <<<<"rsh", ssh>>>> \o Allowed(Parse(c.arguments))
        \o Parse(Enforced) \o <<<<Slash(src), "none">>, <<Slash(dst), "none">>>>

\* What zackup enforces ends in an option without a value.
LEMMA EnforcedClosed == \E B : Enforced \in Seq(B) /\ Closed(Enforced)
<1>1. PICK B : B = {Enforced[n] : n \in 1..4}
  OBVIOUS
<1>2. PICK name : name = <<"delete", "delete-excluded", "delete-delay", "itemize-changes">>
  OBVIOUS
<1>3. Enforced = [n \in 1..4 |-> Option("long", name[n], "none")]
  BY <1>2 DEF Enforced
<1>4. Enforced \in Seq(B) /\ Len(Enforced) = 4
  BY <1>1, <1>3
<1>5. Enforced[4] = Option("long", name[4], "none")
  BY <1>3
<1>6. name[4] = "itemize-changes"
  BY <1>2
<1>7. Enforced[4].name = "itemize-changes"
  BY <1>5, <1>6 DEF Option
<1>8. Closed(Enforced)
  BY <1>4, <1>7 DEF Closed, Open, TakesValue
<1> QED BY <1>4, <1>8

\* The sections of the vector, read one after the other.
LEMMA KeptVector ==
    ASSUME NEW E, NEW c, c.included \in Seq(Seq(E)), NEW X, c.excluded \in Seq(X),
           NEW A, c.arguments \in Seq(A), ArgsKept(c.arguments), NEW ssh, NEW src, NEW dst
    PROVE  AsConfigured(c, ssh, src, dst)
<1>1. PICK rsh, cmd, from, to :
         /\ rsh = Option("short", "rsh", "none") /\ cmd = Word(ssh)
         /\ from = Word(Slash(src)) /\ to = Word(Slash(dst))
  OBVIOUS
<1>2. PICK R : filter(c) \in Seq(R) /\ Closed(filter(c))
  BY FilterOptions
<1>3. PICK B : Enforced \in Seq(B) /\ Closed(Enforced)
  BY EnforcedClosed
<1>4. args(c.arguments) \in Seq(A)
  BY ArgsReads DEF ArgsBy
<1>5. PICK T : T = R \cup A \cup B \cup {rsh, cmd, from, to}
  OBVIOUS
<1>6. PICK rules \in Seq(T) : rules = filter(c) /\ Closed(rules)
  <2>1. filter(c) \in Seq(T)
    BY <1>2, <1>5, SeqWiden
  <2> QED BY <1>2, <2>1
<1>7. PICK kept \in Seq(T) : kept = args(c.arguments) /\ Closed(kept)
  <2>1. args(c.arguments) \in Seq(T)
    BY <1>4, <1>5, SeqWiden
  <2> QED BY <2>1 DEF ArgsKept
<1>8. PICK forced \in Seq(T) : forced = Enforced /\ Closed(forced)
  <2>1. Enforced \in Seq(T)
    BY <1>3, <1>5, SeqWiden
  <2> QED BY <1>3, <2>1
<1>9. cmd.form = "word" /\ cmd.name = ssh /\ rsh.form = "short" /\ rsh.name = "rsh"
  BY <1>1 DEF Word, Option
<1>10. PICK shell \in Seq(T) : /\ shell = <<rsh, cmd>> /\ Closed(shell)
                               /\ Parse(shell) = <<<<"rsh", ssh>>>>
  <2>1. <<rsh, cmd>> \in Seq(T) /\ Len(<<rsh, cmd>>) = 2 /\ <<rsh, cmd>>[2] = cmd
    BY <1>5
  <2>2. ~Open(cmd)
    BY <1>9 DEF Open
  <2>3. Closed(<<rsh, cmd>>)
    BY <2>1, <2>2 DEF Closed
  <2>4. Open(rsh) /\ rsh \in T /\ cmd \in T
    BY <1>5, <1>9 DEF Open, TakesValue
  <2>5. Parse(<<rsh, cmd>>) = <<<<rsh.name, cmd.name>>>>
    BY <2>4, TwoRead
  <2> QED BY <1>9, <2>1, <2>3, <2>5
<1>11. PICK paths \in Seq(T) : /\ paths = <<from, to>>
                               /\ Parse(paths) = <<<<Slash(src), "none">>, <<Slash(dst), "none">>>>
  <2>1. <<from, to>> \in Seq(T) /\ <<from>> \in Seq(T) /\ <<to>> \in Seq(T)
    BY <1>5
  <2>2. /\ from.form = "word" /\ from.name = Slash(src) /\ from.val = "none"
        /\ to.name = Slash(dst) /\ to.val = "none"
    BY <1>1 DEF Word
  <2>3. Closed(<<from>>)
    <3>1. Len(<<from>>) = 1 /\ <<from>>[1] = from
      OBVIOUS
    <3> QED BY <2>2, <3>1 DEF Closed, Open
  <2>4. Parse(<<from>> \o <<to>>) = Parse(<<from>>) \o Parse(<<to>>)
    BY <2>1, <2>3, ParseConcat
  <2>5. <<from>> \o <<to>> = <<from, to>>
    BY PairConcat
  <2>6. Parse(<<from>>) = <<<<Slash(src), "none">>>> /\ Parse(<<to>>) = <<<<Slash(dst), "none">>>>
    <3>1. from \in T /\ to \in T
      BY <1>5
    <3>2. Parse(<<from>>) = <<<<from.name, from.val>>>> /\ Parse(<<to>>) = <<<<to.name, to.val>>>>
      BY <3>1, OneRead
    <3> QED BY <2>2, <3>2
  <2>7. <<<<Slash(src), "none">>>> \o <<<<Slash(dst), "none">>>>
            = <<<<Slash(src), "none">>, <<Slash(dst), "none">>>>
    BY PairConcat
  <2> QED BY <2>1, <2>4, <2>5, <2>6, <2>7
<1>12. PICK one \in Seq(T) : one = rules \o shell /\ Closed(one)
  BY <1>6, <1>10, ClosedConcat
<1>13. PICK two \in Seq(T) : two = one \o kept /\ Closed(two)
  BY <1>7, <1>12, ClosedConcat
<1>14. PICK three \in Seq(T) : three = two \o forced /\ Closed(three)
  BY <1>8, <1>13, ClosedConcat
<1>15. Parse(one) = Parse(rules) \o Parse(shell)
  BY <1>6, <1>12, ParseConcat
<1>16. Parse(two) = Parse(one) \o Parse(kept)
  BY <1>12, <1>13, ParseConcat
<1>17. Parse(three) = Parse(two) \o Parse(forced)
  BY <1>13, <1>14, ParseConcat
<1>18. Parse(three \o paths) = Parse(three) \o Parse(paths)
  BY <1>14, ParseConcat
<1>19. BuildArgVector(c, ssh, src, dst) = three \o paths
  BY <1>1, <1>6, <1>7, <1>8, <1>10, <1>11, <1>12, <1>13, <1>14 DEF BuildArgVector
<1>20. Parse(kept) = Allowed(Parse(c.arguments))
  BY <1>7 DEF ArgsKept
<1> QED BY <1>6, <1>8, <1>10, <1>11, <1>15, <1>16, <1>17, <1>18, <1>19, <1>20 DEF AsConfigured

\* For every config whose arguments are options as rsync spells them, each with
\* its value, any number of them: rsync reads of the vector that
\* BuildArgVector makes filter's rules, zackup's remote shell, the arguments
\* that zackup does not reserve, with their values and in their order, the
\* deletion, and the two paths.
THEOREM VectorReadsConfig ==
    ASSUME NEW E, NEW c, c.included \in Seq(Seq(E)), NEW X, c.excluded \in Seq(X),
           NEW A, Spelt(c.arguments, A), NEW ssh, NEW src, NEW dst
    PROVE  AsConfigured(c, ssh, src, dst)
<1>1. c.arguments \in Seq(A) /\ ArgsKept(c.arguments)
  BY SpeltKept
<1> QED BY <1>1, KeptVector

----------------------------------------------------------------------------
(* The walk.                                                               *)

\* The arguments of the walk are options with their values.
TokensOf(u) == {u[i] : i \in 1..Len(u)}
Tokens      == {Word("val")} \cup UNION {TokensOf(u) : u \in Units}

\* Every option that the walk appends is one that rsync knows, with its value.
LEMMA UnitsSpell ==
    ASSUME NEW u \in Units
    PROVE  Spells(u, Tokens)
<1>1. Word("val").form = "word" /\ Word("val") \in Tokens
  <2>1. Word("val").form = "word"
    BY DEF Word
  <2>2. Word("val") \in Tokens
    BY DEF Tokens
  <2> QED BY <2>1, <2>2
<1>2. TokensOf(u) \subseteq Tokens
  BY DEF Tokens
<1>3. ASSUME NEW opt, u = <<opt>>, Spelled(opt), ~Open(opt) PROVE Spells(u, Tokens)
  <2>1. Len(u) = 1 /\ u[1] = opt
    BY <1>3
  <2>2. 1 \in 1..Len(u)
    BY <2>1
  <2>3. opt \in Tokens
    BY <1>2, <2>1, <2>2 DEF TokensOf
  <2> QED BY <1>1, <1>3, <2>3 DEF Spells
<1>4. ASSUME NEW opt, u = <<opt, Word("val")>>, Spelled(opt), Open(opt) PROVE Spells(u, Tokens)
  <2>1. Len(u) = 2 /\ u[1] = opt
    BY <1>4
  <2>2. 1 \in 1..Len(u)
    BY <2>1
  <2>3. opt \in Tokens
    BY <1>2, <2>1, <2>2 DEF TokensOf
  <2> QED BY <1>1, <1>4, <2>3 DEF Spells
<1>5. "verbose" \notin LongOnly /\ "rsh" \notin LongOnly
  <2>1. ASSUME NEW name \in {"verbose", "rsh"}, name \in LongOnly PROVE FALSE
    <3>1. PICK bla \in blacklistArgs : ~bla.short /\ bla.long = name
      BY <2>1 DEF LongOnly, DeleteOptions
    <3> QED BY <3>1 DEF blacklistArgs, Blacklisted
  <2> QED BY <2>1
<1>6. ASSUME NEW form, NEW name, NEW opt, opt = Option(form, name, "none"), u = <<opt>>,
             \/ form = "short" /\ name = "verbose"
             \/ form = "long" /\ name \in {"delete-after", "numeric-ids"}
      PROVE  Spells(u, Tokens)
  <2>1. opt.form = form /\ opt.name = name
    BY <1>6 DEF Option
  <2>2. ~TakesValue(name)
    BY <1>6 DEF TakesValue
  <2>3. Spelled(opt) /\ ~Open(opt)
    BY <1>5, <1>6, <2>1, <2>2 DEF Spelled, Open
  <2> QED BY <1>3, <1>6, <2>3
<1>7. ASSUME NEW form, NEW name, NEW opt, opt = Option(form, name, "none"),
             u = <<opt, Word("val")>>,
             \/ form = "short" /\ name = "rsh"
             \/ form = "long" /\ name \in {"include", "bwlimit"}
      PROVE  Spells(u, Tokens)
  <2>1. opt.form = form /\ opt.name = name
    BY <1>7 DEF Option
  <2>2. TakesValue(name)
    BY <1>7 DEF TakesValue
  <2>3. Spelled(opt) /\ Open(opt)
    BY <1>5, <1>7, <2>1, <2>2 DEF Spelled, Open
  <2> QED BY <1>4, <1>7, <2>3
<1>8. ASSUME NEW form, NEW name, NEW opt, opt = Option(form, name, "val"), u = <<opt>>,
             \/ form = "shortval" /\ name = "rsh"
             \/ form = "long=" /\ name \in {"rsh", "include", "bwlimit"}
      PROVE  Spells(u, Tokens)
  <2>1. opt.form = form /\ opt.name = name
    BY <1>8 DEF Option
  <2>2. TakesValue(name)
    BY <1>8 DEF TakesValue
  <2>3. Spelled(opt) /\ ~Open(opt)
    BY <1>5, <1>8, <2>1, <2>2 DEF Spelled, Open
  <2> QED BY <1>3, <1>8, <2>3
<1>9. \/ \E form, name : /\ u = <<Option(form, name, "none")>>
                         /\ \/ form = "short" /\ name = "verbose"
                            \/ form = "long" /\ name \in {"delete-after", "numeric-ids"}
      \/ \E form, name : /\ u = <<Option(form, name, "none"), Word("val")>>
                         /\ \/ form = "short" /\ name = "rsh"
                            \/ form = "long" /\ name \in {"include", "bwlimit"}
      \/ \E form, name : /\ u = <<Option(form, name, "val")>>
                         /\ \/ form = "shortval" /\ name = "rsh"
                            \/ form = "long=" /\ name \in {"rsh", "include", "bwlimit"}
  BY DEF Units
<1> QED BY <1>6, <1>7, <1>8, <1>9

\* The walk's arguments are kept as they should be.
ArgsInv == r.arguments \in Seq(Tokens) /\ ArgsKept(r.arguments)

\* The walk starts without arguments.
LEMMA ArgsInit == Init => ArgsInv
<1> SUFFICES ASSUME Init PROVE ArgsInv
  OBVIOUS
<1>1. r.arguments = <<>> /\ <<>> \in Seq(Tokens)
  BY DEF Init
<1> QED BY <1>1, NoArgsKept DEF ArgsInv

\* A step of the walk appends an option with its value, or no argument.
LEMMA ArgsStep == WalkInv /\ ArgsInv /\ [Next]_<<r, given>> => ArgsInv'
<1> SUFFICES ASSUME WalkInv, ArgsInv, [Next]_<<r, given>> PROVE ArgsInv'
  OBVIOUS
<1>1. r = [included |-> r.included, excluded |-> r.excluded, arguments |-> r.arguments]
  BY DEF WalkInv
<1>2. CASE Argument
  <2>1. PICK unit \in Units : r' = [r EXCEPT !.arguments = @ \o unit]
    BY <1>2 DEF Argument
  <2>2. PICK list : list = r.arguments \o unit
    OBVIOUS
  <2>3. r'.arguments = list
    BY <1>1, <2>1, <2>2
  <2>4. Spells(unit, Tokens)
    BY UnitsSpell
  <2>5. list \in Seq(Tokens) /\ ArgsKept(list)
    BY <2>2, <2>4, UnitKept DEF ArgsInv
  <2> QED BY <2>3, <2>5 DEF ArgsInv
<1>3. CASE ~Argument
  <2>1. r'.arguments = r.arguments
    BY <1>1, <1>3 DEF Next, Include, Exclude
  <2> QED BY <2>1 DEF ArgsInv
<1> QED BY <1>2, <1>3

\* The property that the run rsync checks: whatever arguments are configured,
\* rsync reads of the vector of BuildArgVector what it should.
THEOREM RsyncVectorRead == Spec => []ArgVectorRead
<1>1. WalkInv /\ ArgsInv => ArgVectorRead
  <2> SUFFICES ASSUME WalkInv, ArgsInv PROVE ArgVectorRead
    OBVIOUS
  <2>1. r.included \in Seq(Seq(Written)) /\ r.excluded \in Seq(Patterns)
    BY WalkWritten DEF WalkInv
  <2>2. r.arguments \in Seq(Tokens) /\ ArgsKept(r.arguments)
    BY DEF ArgsInv
  <2>3. PICK src, dst : /\ src = [path |-> "src", slash |-> FALSE]
                        /\ dst = [path |-> "dst", slash |-> TRUE]
    OBVIOUS
  <2>4. AsConfigured(r, "ssh", src, dst)
    BY <2>1, <2>2, KeptVector
  <2> QED BY <2>3, <2>4 DEF ArgVectorRead, AsConfigured
<1> QED BY <1>1, WalkInit, WalkStep, ArgsInit, ArgsStep, PTL DEF Spec
=============================================================================
