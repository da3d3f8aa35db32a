---------------------------- MODULE StartupProofs ----------------------------
(***************************************************************************)
(* What a zackup process reads before its command runs: the config tree is *)
(* the whole of one directory, for every directory; the inline scripts are *)
(* exact but for the shared array; state, levels and Graylog are ready.    *)
(***************************************************************************)
EXTENDS Startup, Induction

----------------------------------------------------------------------------
(* cleanScript and FlattenSeq.                                             *)

\* A line, of which the proofs need nothing but that "unused" is one (that it
\* is a string, no prover knows).
Line  == STRING \cup {"unused"}
Lines == Seq(Line)

\* Sequences of strings are lists of lines.
LEMMA SeqMonotone ==
    ASSUME NEW S, NEW T, S \subseteq T
    PROVE  Seq(S) \subseteq Seq(T)
OBVIOUS

\* A list of strings is a list of lines, and so is the room that is unused.
LEMMA StringsAreLines == Seq(STRING) \subseteq Lines /\ "unused" \in Line
<1>1. STRING \subseteq Line /\ "unused" \in Line
  BY DEF Line
<1> QED BY <1>1, SeqMonotone DEF Lines

\* Lists of lines can be defined by recursion.
LEMMA LinesRecursion ==
    ASSUME NEW step \in [Nat -> [Lines -> Lines]], NEW N \in Nat
    PROVE  \E g \in [0..N -> Lines] :
              g[0] = <<>> /\ \A n \in 1..N : g[n] = step[n][g[n - 1]]
<1>1. <<>> \in Lines
  BY DEF Lines
<1> QED BY <1>1, Recursion DEF Iterates

\* The loop of cleanScript, line by line.
LEMMA CleanedLoop ==
    ASSUME NEW raw \in Lines
    PROVE  /\ cleaned(raw)[0] = <<>>
           /\ \A n \in 1..Len(raw) :
                 cleaned(raw)[n] = IF raw[n] \in Blank THEN cleaned(raw)[n - 1]
                                   ELSE Append(cleaned(raw)[n - 1], raw[n])
<1> DEFINE Def(g, N) ==
               [n \in 0..N |->
                   IF n = 0 THEN <<>>
                   ELSE IF raw[n] \in Blank THEN g[n - 1] ELSE Append(g[n - 1], raw[n])]
<1>1. cleaned(raw) = CHOOSE g : g = Def(g, Len(raw))
  BY DEF cleaned
<1>2. Len(raw) \in Nat /\ \A n \in 1..Len(raw), l \in Lines : Append(l, raw[n]) \in Lines
  BY DEF Lines
<1>3. PICK N \in Nat : N = Len(raw)
  BY <1>2
<1>4. \E g : g = Def(g, N)
  <2> DEFINE next == [n \in Nat |-> [l \in Lines |->
                         IF n \in 1..N /\ raw[n] \notin Blank THEN Append(l, raw[n]) ELSE l]]
  <2>1. next \in [Nat -> [Lines -> Lines]]
    <3>1. ASSUME NEW n \in Nat, NEW l \in Lines
          PROVE  (IF n \in 1..N /\ raw[n] \notin Blank THEN Append(l, raw[n]) ELSE l) \in Lines
      BY <1>2, <1>3
    <3> QED BY <3>1
  <2>2. ASSUME NEW n \in 1..N, NEW l \in Lines
        PROVE  next[n][l] = IF raw[n] \in Blank THEN l ELSE Append(l, raw[n])
    BY n \in Nat
  <2> HIDE DEF next
  <2>3. PICK step \in [Nat -> [Lines -> Lines]] : step = next
    BY <2>1
  <2>5. PICK g \in [0..N -> Lines] :
           g[0] = <<>> /\ \A n \in 1..N : g[n] = step[n][g[n - 1]]
    BY LinesRecursion
  <2>6. ASSUME NEW n \in 1..N
        PROVE  g[n] = IF raw[n] \in Blank THEN g[n - 1] ELSE Append(g[n - 1], raw[n])
    <3>1. n - 1 \in 0..N /\ g[n - 1] \in Lines
      OBVIOUS
    <3> QED BY <2>2, <2>3, <2>5, <3>1
  <2>7. ASSUME NEW n \in 0..N
        PROVE  g[n] = IF n = 0 THEN <<>>
                      ELSE IF raw[n] \in Blank THEN g[n - 1] ELSE Append(g[n - 1], raw[n])
    <3>1. n = 0 \/ n \in 1..N
      OBVIOUS
    <3> QED BY <2>5, <2>6, <3>1
  <2>8. g = Def(g, N)
    BY <2>7
  <2> QED BY <2>8
<1>5. cleaned(raw) = Def(cleaned(raw), N)
  <2> HIDE DEF Def
  <2> QED BY <1>1, <1>3, <1>4
<1>6. 0 \in 0..N /\ \A n \in 1..N : n \in 0..N /\ n # 0
  OBVIOUS
<1> QED BY <1>3, <1>5, <1>6

\* What is kept of n lines is a list of at most n lines.
LEMMA CleanedTypes ==
    ASSUME NEW raw \in Lines, NEW n \in 0..Len(raw)
    PROVE  cleaned(raw)[n] \in Lines /\ Len(cleaned(raw)[n]) <= n
<1> DEFINE c == cleaned(raw)
           P(m) == m <= Len(raw) => c[m] \in Lines /\ Len(c[m]) <= m
           T == {m \in Nat : P(m)}
<1>1. Len(raw) \in Nat /\ \A m \in 1..Len(raw) : raw[m] \in Line
  BY DEF Lines
<1>2. /\ c[0] = <<>>
      /\ \A m \in 1..Len(raw) :
            c[m] = IF raw[m] \in Blank THEN c[m - 1] ELSE Append(c[m - 1], raw[m])
  BY CleanedLoop
<1> HIDE DEF c
<1>3. P(0)
  BY <1>2 DEF Lines
<1>4. ASSUME NEW m \in Nat, P(m) PROVE P(m + 1)
  <2> SUFFICES ASSUME m + 1 <= Len(raw)
               PROVE  c[m + 1] \in Lines /\ Len(c[m + 1]) <= m + 1
    OBVIOUS
  <2>1. m + 1 \in 1..Len(raw) /\ c[m] \in Lines /\ Len(c[m]) <= m
    BY <1>1, <1>4
  <2>2. c[m + 1] = IF raw[m + 1] \in Blank THEN c[m] ELSE Append(c[m], raw[m + 1])
    BY <1>2, <2>1
  <2>3. raw[m + 1] \in Line
    BY <1>1, <2>1
  <2>4. /\ Append(c[m], raw[m + 1]) \in Lines
        /\ Len(Append(c[m], raw[m + 1])) = Len(c[m]) + 1 /\ Len(c[m]) \in Nat
    BY <2>1, <2>3 DEF Lines
  <2> QED BY <2>1, <2>2, <2>4
<1>5. n \in T
  <2> HIDE DEF P
  <2>1. 0 \in T /\ \A m \in Nat : m \in T => m + 1 \in T
    BY <1>3, <1>4
  <2> HIDE DEF T
  <2> QED BY <1>1, <2>1, SetInduction
<1> QED BY <1>1, <1>5 DEF T, c

\* cleanScript returns a list of lines, none more than it is given.
LEMMA CleanScriptTypes ==
    ASSUME NEW raw \in Lines
    PROVE  cleanScript(raw) \in Lines /\ Len(cleanScript(raw)) <= Len(raw)
<1>1. Len(raw) \in 0..Len(raw)
  BY DEF Lines
<1> QED BY <1>1, CleanedTypes DEF cleanScript

\* A line is appended to the second of two lists, or to both.
LEMMA LinesAppend ==
    ASSUME NEW s \in Seq(Line), NEW t \in Seq(Line), NEW x \in Line
    PROVE  Append(s \o t, x) = s \o Append(t, x)
OBVIOUS

\* To clean two scripts is to clean one after the other.
LEMMA CleanConcat ==
    ASSUME NEW s \in Lines, NEW t \in Lines
    PROVE  cleanScript(s \o t) = cleanScript(s) \o cleanScript(t)
<1> DEFINE c == cleaned(s \o t)
           d == cleaned(s)
           e == cleaned(t)
           P(m) == m <= Len(s) => c[m] = d[m]
           Q(m) == m <= Len(t) => c[Len(s) + m] = d[Len(s)] \o e[m]
           T == {m \in Nat : P(m)}
           U == {m \in Nat : Q(m)}
<1>1. /\ Len(s) \in Nat /\ Len(t) \in Nat /\ s \o t \in Lines
      /\ Len(s \o t) = Len(s) + Len(t)
      /\ \A m \in 1..Len(s) : (s \o t)[m] = s[m]
      /\ \A m \in 1..Len(t) : (s \o t)[Len(s) + m] = t[m] /\ t[m] \in Line
  BY DEF Lines
<1>2. /\ c[0] = <<>>
      /\ \A m \in 1..Len(s \o t) :
            c[m] = IF (s \o t)[m] \in Blank THEN c[m - 1] ELSE Append(c[m - 1], (s \o t)[m])
  BY <1>1, CleanedLoop
<1>3. /\ d[0] = <<>>
      /\ \A m \in 1..Len(s) :
            d[m] = IF s[m] \in Blank THEN d[m - 1] ELSE Append(d[m - 1], s[m])
  BY CleanedLoop
<1>4. /\ e[0] = <<>>
      /\ \A m \in 1..Len(t) :
            e[m] = IF t[m] \in Blank THEN e[m - 1] ELSE Append(e[m - 1], t[m])
  BY CleanedLoop
<1>5. d[Len(s)] \in Lines /\ \A m \in 0..Len(t) : e[m] \in Lines
  <2>1. Len(s) \in 0..Len(s)
    BY <1>1
  <2> QED BY <2>1, CleanedTypes
<1> HIDE DEF c, d, e
<1>6. P(0)
  BY <1>2, <1>3
<1>7. ASSUME NEW m \in Nat, P(m) PROVE P(m + 1)
  <2> SUFFICES ASSUME m + 1 <= Len(s) PROVE c[m + 1] = d[m + 1]
    OBVIOUS
  <2>1. m + 1 \in 1..Len(s) /\ m + 1 \in 1..Len(s \o t) /\ c[m] = d[m]
    BY <1>1, <1>7
  <2>2. c[m + 1] = IF (s \o t)[m + 1] \in Blank THEN c[m] ELSE Append(c[m], (s \o t)[m + 1])
    BY <1>2, <2>1
  <2>3. d[m + 1] = IF s[m + 1] \in Blank THEN d[m] ELSE Append(d[m], s[m + 1])
    BY <1>3, <2>1
  <2> QED BY <1>1, <2>1, <2>2, <2>3
<1>8. Nat \subseteq T
  <2> HIDE DEF P
  <2>1. 0 \in T /\ \A m \in Nat : m \in T => m + 1 \in T
    BY <1>6, <1>7
  <2> HIDE DEF T
  <2> QED BY <2>1, SetInduction
<1>9. Q(0)
  <2>1. c[Len(s)] = d[Len(s)]
    BY <1>1, <1>8
  <2>2. d[Len(s)] \o <<>> = d[Len(s)]
    BY <1>5 DEF Lines
  <2> QED BY <1>1, <1>4, <2>1, <2>2
<1>10. ASSUME NEW m \in Nat, Q(m) PROVE Q(m + 1)
  <2> DEFINE k == Len(s) + (m + 1)
  <2> SUFFICES ASSUME m + 1 <= Len(t) PROVE c[k] = d[Len(s)] \o e[m + 1]
    OBVIOUS
  <2>1. /\ m + 1 \in 1..Len(t) /\ m \in 0..Len(t) /\ k \in 1..Len(s \o t)
        /\ k - 1 = Len(s) + m
    BY <1>1
  <2>2. c[k - 1] = d[Len(s)] \o e[m]
    <3>1. m <= Len(t)
      BY <1>1
    <3>2. c[Len(s) + m] = d[Len(s)] \o e[m]
      BY <1>10, <3>1
    <3> QED BY <2>1, <3>2
  <2>3. (s \o t)[k] = t[m + 1] /\ t[m + 1] \in Line
    BY <1>1, <2>1
  <2>4. c[k] = IF t[m + 1] \in Blank THEN c[k - 1] ELSE Append(c[k - 1], t[m + 1])
    BY <1>2, <2>1, <2>3
  <2>5. e[m + 1] = IF t[m + 1] \in Blank THEN e[m] ELSE Append(e[m], t[m + 1])
    BY <1>4, <2>1
  <2>6. Append(d[Len(s)] \o e[m], t[m + 1]) = d[Len(s)] \o Append(e[m], t[m + 1])
    <3>1. d[Len(s)] \in Seq(Line) /\ e[m] \in Seq(Line)
      BY <1>5, <2>1 DEF Lines
    <3> QED BY <2>3, <3>1, LinesAppend
  <2> QED BY <2>2, <2>4, <2>5, <2>6
<1>11. Nat \subseteq U
  <2> HIDE DEF Q
  <2>1. 0 \in U /\ \A m \in Nat : m \in U => m + 1 \in U
    BY <1>9, <1>10
  <2> HIDE DEF U
  <2> QED BY <2>1, SetInduction
<1>12. c[Len(s) + Len(t)] = d[Len(s)] \o e[Len(t)]
  <2>1. Q(Len(t)) /\ Len(t) <= Len(t)
    <3> HIDE DEF Q
    <3> QED BY <1>1, <1>11
  <2> QED BY <2>1
<1> QED BY <1>1, <1>12 DEF cleanScript, c, d, e

\* f[i] is what FlattenSeq makes of the first i of the lists.
Flattens(f, seqs) ==
    /\ FlattenSeq(seqs) = f[Len(seqs)]
    /\ f[1] = seqs[1]
    /\ \A i \in 2..Len(seqs) : f[i] = f[i - 1] \o seqs[i]

\* The loop of FlattenSeq, list by list.
LEMMA FlattenLoop ==
    ASSUME NEW seqs \in Seq(Lines), seqs # <<>>
    PROVE  \E f : Flattens(f, seqs)
<1> PICK N \in Nat : N = Len(seqs) /\ N # 0
  OBVIOUS
<1> DEFINE Def(g) == [i \in 1..N |-> IF i = 1 THEN seqs[i] ELSE g[i - 1] \o seqs[i]]
           f == CHOOSE g : g = Def(g)
<1>1. FlattenSeq(seqs) = f[N]
  BY DEF FlattenSeq
<1>2. \A i \in 1..N : seqs[i] \in Lines
  OBVIOUS
<1>3. \A l, k \in Lines : l \o k \in Lines /\ <<>> \o k = k
  BY DEF Lines
<1>4. \E g : g = Def(g)
  <2> DEFINE next == [n \in Nat |-> [l \in Lines |-> IF n \in 1..N THEN l \o seqs[n] ELSE l]]
  <2>1. next \in [Nat -> [Lines -> Lines]]
    BY <1>2, <1>3
  <2>2. ASSUME NEW n \in 1..N, NEW l \in Lines PROVE next[n][l] = l \o seqs[n]
    BY n \in Nat
  <2> HIDE DEF next
  <2>3. PICK step \in [Nat -> [Lines -> Lines]] : step = next
    BY <2>1
  <2>4. PICK g \in [0..N -> Lines] :
           g[0] = <<>> /\ \A n \in 1..N : g[n] = step[n][g[n - 1]]
    BY LinesRecursion
  <2>5. ASSUME NEW n \in 1..N PROVE g[n] = g[n - 1] \o seqs[n]
    <3>1. n - 1 \in 0..N
      OBVIOUS
    <3> QED BY <2>2, <2>3, <2>4, <3>1
  <2> DEFINE h == [i \in 1..N |-> g[i]]
  <2>6. ASSUME NEW i \in 1..N
        PROVE  h[i] = IF i = 1 THEN seqs[i] ELSE h[i - 1] \o seqs[i]
    <3>1. CASE i = 1
      <4>1. 1 \in 1..N /\ 1 - 1 = 0
        OBVIOUS
      <4>2. h[1] = g[1] /\ g[1] = <<>> \o seqs[1]
        BY <2>4, <2>5, <4>1
      <4> QED BY <1>2, <1>3, <3>1, <4>1, <4>2
    <3>2. CASE i # 1
      <4>1. i - 1 \in 1..N
        BY <3>2
      <4> QED BY <2>5, <3>2, <4>1
    <3> QED BY <3>1, <3>2
  <2>7. h = Def(h)
    BY <2>6
  <2> QED BY <2>7
<1>5. f = Def(f)
  <2> HIDE DEF Def
  <2> QED BY <1>4
<1>6. 1 \in 1..N /\ \A i \in 2..N : i \in 1..N /\ i # 1
  OBVIOUS
<1> HIDE DEF f
<1>7. f[1] = seqs[1] /\ \A i \in 2..N : f[i] = f[i - 1] \o seqs[i]
  BY <1>5, <1>6
<1> QED BY <1>1, <1>7 DEF Flattens

\* To clean the hook files one by one, as readFiles does, is to clean what
\* "cat" makes of them.
LEMMA CleanFlatten ==
    ASSUME NEW files \in Seq(Lines)
    PROVE  /\ FlattenSeq(files) \in Lines
           /\ FlattenSeq([n \in DOMAIN files |-> cleanScript(files[n])])
                = cleanScript(FlattenSeq(files))
<1> DEFINE clean == [n \in DOMAIN files |-> cleanScript(files[n])]
<1>1. PICK N \in Nat : N = Len(files)
  OBVIOUS
<1>2. \A n \in 1..N : n \in DOMAIN files /\ files[n] \in Lines /\ cleanScript(files[n]) \in Lines
  BY <1>1, CleanScriptTypes
<1>3. clean \in Seq(Lines) /\ Len(clean) = N /\ \A n \in 1..N : clean[n] = cleanScript(files[n])
  BY <1>1, <1>2
<1> SUFFICES FlattenSeq(files) \in Lines /\ FlattenSeq(clean) = cleanScript(FlattenSeq(files))
  OBVIOUS
<1> HIDE DEF clean
<1>4. CASE N = 0
  <2>1. files = <<>> /\ clean = <<>>
    <3>1. Len(files) = 0 /\ Len(clean) = 0
      BY <1>1, <1>3, <1>4
    <3>2. \A s \in Seq(Lines) : Len(s) = 0 => s = <<>>
      OBVIOUS
    <3> QED BY <1>3, <3>1, <3>2
  <2>2. FlattenSeq(<<>>) = <<>>
    BY DEF FlattenSeq
  <2>3. cleanScript(<<>>) = <<>>
    <3>1. <<>> \in Lines /\ Len(<<>>) = 0
      BY DEF Lines
    <3> QED BY <3>1, CleanedLoop DEF cleanScript
  <2>4. <<>> \in Lines
    BY DEF Lines
  <2> QED BY <2>1, <2>2, <2>3, <2>4
<1>5. CASE N # 0
  <2>0. files # <<>> /\ clean # <<>>
    BY <1>1, <1>3, <1>5
  <2>1. PICK f : /\ FlattenSeq(files) = f[N] /\ f[1] = files[1]
                 /\ \A i \in 2..N : f[i] = f[i - 1] \o files[i]
    <3>1. PICK f : Flattens(f, files)
      BY <2>0, FlattenLoop, Zenon
    <3> QED BY <1>1, <3>1 DEF Flattens
  <2>2. PICK g : /\ FlattenSeq(clean) = g[N] /\ g[1] = clean[1]
                 /\ \A i \in 2..N : g[i] = g[i - 1] \o clean[i]
    <3>1. PICK g : Flattens(g, clean)
      BY <1>3, <2>0, FlattenLoop, Zenon
    <3> QED BY <1>3, <3>1 DEF Flattens
  <2> DEFINE P(m) == m \in 1..N => f[m] \in Lines /\ g[m] = cleanScript(f[m])
             T == {m \in Nat : P(m)}
  <2>3. P(0)
    OBVIOUS
  <2>4. ASSUME NEW m \in Nat, P(m) PROVE P(m + 1)
    <3> SUFFICES ASSUME m + 1 \in 1..N
                 PROVE  f[m + 1] \in Lines /\ g[m + 1] = cleanScript(f[m + 1])
      OBVIOUS
    <3>1. files[m + 1] \in Lines /\ clean[m + 1] = cleanScript(files[m + 1])
      BY <1>2, <1>3
    <3>2. CASE m = 0
      BY <2>1, <2>2, <3>1, <3>2
    <3>3. CASE m # 0
      <4>1. m \in 1..N /\ m + 1 \in 2..N /\ (m + 1) - 1 = m
        BY <3>3
      <4>2. f[m] \in Lines /\ g[m] = cleanScript(f[m])
        BY <2>4, <4>1
      <4>3. f[m + 1] = f[m] \o files[m + 1] /\ g[m + 1] = g[m] \o clean[m + 1]
        BY <2>1, <2>2, <4>1
      <4>4. f[m] \o files[m + 1] \in Lines
        BY <3>1, <4>2 DEF Lines
      <4>5. cleanScript(f[m] \o files[m + 1]) = cleanScript(f[m]) \o cleanScript(files[m + 1])
        BY <3>1, <4>2, CleanConcat
      <4> QED BY <3>1, <4>2, <4>3, <4>4, <4>5
    <3> QED BY <3>2, <3>3
  <2>5. P(N)
    <3> HIDE DEF P
    <3>1. 0 \in T /\ \A m \in Nat : m \in T => m + 1 \in T
      BY <2>3, <2>4
    <3> HIDE DEF T
    <3>2. N \in T
      BY <3>1, SetInduction
    <3> QED BY <3>2 DEF T
  <2>6. N \in 1..N
    BY <1>5
  <2>7. f[N] \in Lines /\ g[N] = cleanScript(f[N])
    BY <2>5, <2>6
  <2> HIDE DEF P
  <2> QED BY <2>1, <2>2, <2>7
<1> QED BY <1>4, <1>5

----------------------------------------------------------------------------
(* Slices.                                                                 *)

\* A capacity holds what it is the capacity of.
LEMMA CapacityHolds ==
    ASSUME NEW n \in 0..MaxInline
    PROVE  Capacity(n) \in Nat /\ n <= Capacity(n)
<1> DEFINE Sizes == {1, 2, 4, 8, 16, 32, 64, 128, 256, 512}
           Room(c) == n <= c /\ c < 2 * n
<1>1. CASE n = 0
  BY <1>1 DEF Capacity
<1>2. CASE n # 0
  <2>1. n \in 1..512
    BY <1>2 DEF MaxInline
  <2>2. \E c \in Sizes : Room(c)
    BY <2>1
  <2>3. Capacity(n) = CHOOSE c \in Sizes : Room(c)
    BY <1>2 DEF Capacity
  <2>4. Capacity(n) \in Sizes /\ Room(Capacity(n))
    <3> HIDE DEF Sizes, Room
    <3> QED BY <2>2, <2>3
  <2> QED BY <2>1, <2>4
<1> QED BY <1>1, <1>2

\* Two lists of lines, one after the other.
LEMMA LinesConcat ==
    ASSUME NEW s \in Lines, NEW t \in Lines
    PROVE  /\ s \o t \in Lines /\ Len(s) \in Nat /\ Len(t) \in Nat
           /\ Len(s \o t) = Len(s) + Len(t)
           /\ \A n \in 1..Len(s) : (s \o t)[n] = s[n]
BY DEF Lines

\* Lists with the same elements are the same.
LEMMA LinesEqual ==
    ASSUME NEW s \in Lines, NEW t \in Lines,
           Len(s) = Len(t), \A n \in 1..Len(s) : s[n] = t[n]
    PROVE  s = t
BY DEF Lines

\* A slice of an array begins with the array's first elements.
LEMMA LinesSlice ==
    ASSUME NEW s \in Lines, NEW k \in 0..Len(s)
    PROVE  /\ SubSeq(s, 1, k) \in Lines /\ Len(SubSeq(s, 1, k)) = k
           /\ \A n \in 1..k : SubSeq(s, 1, k)[n] = s[n]
BY DEF Lines

\* A list that begins with the elements of p has the prefix p.
LEMMA LinesPrefix ==
    ASSUME NEW p \in Lines, NEW s \in Lines,
           Len(p) <= Len(s), \A n \in 1..Len(p) : s[n] = p[n]
    PROVE  IsPrefix(p, s)
<1>1. Len(p) \in 0..Len(p) /\ Len(p) \in 0..Len(s)
  BY DEF Lines
<1>2. SubSeq(p, 1, Len(p)) = SubSeq(s, 1, Len(p))
  BY <1>1, LinesSlice, LinesEqual
<1> QED BY <1>2 DEF IsPrefix

\* The array after a merge: the host's script, where it fits, and what was
\* there before.
LEMMA OverwriteTypes ==
    ASSUME NEW array \in Lines, NEW lines \in Lines, NEW own \in Lines
    PROVE  /\ overwrite(array, lines, own) \in Lines
           /\ Len(overwrite(array, lines, own)) = Len(array)
           /\ \A n \in 1..Len(array) :
                 overwrite(array, lines, own)[n] =
                    IF Fits(lines, own) /\ n \in 1..Len(lines \o own)
                    THEN (lines \o own)[n] ELSE array[n]
<1> DEFINE all  == lines \o own
           new  == overwrite(array, lines, own)
           elem(n) == IF Fits(lines, own) /\ n \in 1..Len(all) THEN all[n] ELSE array[n]
<1>1. /\ DOMAIN array = 1..Len(array) /\ Len(array) \in Nat
      /\ DOMAIN all = 1..Len(all) /\ \A n \in 1..Len(all) : all[n] \in Line
      /\ \A n \in 1..Len(array) : array[n] \in Line
  <2>1. all \in Lines
    BY LinesConcat
  <2> HIDE DEF all
  <2> QED BY <2>1 DEF Lines
<1>2. new = [n \in 1..Len(array) |-> elem(n)]
  BY <1>1 DEF overwrite
<1>3. \A n \in 1..Len(array) : elem(n) \in Line
  BY <1>1
<1> HIDE DEF elem, new
<1>4. new \in Seq(Line) /\ Len(new) = Len(array) /\ \A n \in 1..Len(array) : new[n] = elem(n)
  BY <1>1, <1>2, <1>3
<1> QED BY <1>4 DEF new, elem, Lines

----------------------------------------------------------------------------
(* The inductive invariant of the tree.                                    *)

\* Nothing has been read from the hosts' files.
NothingYet == todo = {} /\ DOMAIN hosts = {}

\* The global config has been read.
Reading == root # "" /\ stage \in {"a", "b", "hooks", "merge", "ok"}

\* How far the loops over the hosts have come.
FirstFiles  == IF stage = "a" THEN DOMAIN dir.a \ todo ELSE DOMAIN dir.a
SecondFiles == IF stage = "a" THEN {} ELSE IF stage = "b" THEN DOMAIN dir.b \ todo ELSE DOMAIN dir.b
Hooked      == IF stage \in {"a", "b"} THEN {} ELSE IF stage = "hooks" THEN DOMAIN hosts \ todo ELSE DOMAIN hosts
Merged      == IF stage = "ok" THEN DOMAIN hosts ELSE IF stage = "merge" THEN DOMAIN hosts \ todo ELSE {}

Loops == /\ stage = "a" => todo \subseteq DOMAIN dir.a
         /\ stage = "b" => todo \subseteq DOMAIN dir.b
         /\ stage \in {"hooks", "merge"} => todo \subseteq DOMAIN hosts
         /\ stage = "ok" => todo = {}

\* The config of a host, of whose files so much has been read.
Config(h) ==
    [ssh     |-> IF h \in Merged THEN mergeSSH(FileOf(h).ssh, dir.globals[1].ssh)
                 ELSE FileOf(h).ssh,
     rsync   |-> IF h \in Merged THEN mergeRSync(FileOf(h).rsync, dir.globals[1].rsync)
                 ELSE FileOf(h).rsync,
     inline  |-> [w \in When |-> IF h \in Merged THEN mergeInline(RefGlobal(w), RefInline(h, w))
                                 ELSE Own(RefInline(h, w))],
     scripts |-> [w \in When |-> IF h \in Hooked THEN RefHooks(h, w) ELSE <<>>]]

HostsFit ==
    /\ Readable(dir.globals) /\ global = Decoded(dir.globals[1])
    /\ DOMAIN hosts = FirstFiles \cup SecondFiles /\ FirstFiles \cap SecondFiles = {}
    /\ \A h \in DOMAIN hosts : FileOf(h) \in File
    /\ \A h \in DOMAIN hosts : hosts[h] = Config(h)

Begins(array, lines) == Len(lines) <= Len(array) /\ \A n \in 1..Len(lines) : array[n] = lines[n]

\* Who has written into the spare room of the global array.
Wrote(w) == {h \in Merged : RefInline(h, w) # <<>> /\ Fits(RefGlobal(w), RefInline(h, w))}

\* The global lines stay, and the lines of a single writer.
SpareFits ==
    \A w \in When :
        /\ spare[w] \in Lines /\ Len(spare[w]) = Capacity(Len(RefGlobal(w)))
        /\ Begins(spare[w], RefGlobal(w))
        /\ \A h \in Wrote(w) : Wrote(w) = {h} => Begins(spare[w], RefGlobal(w) \o RefInline(h, w))

TreeInv ==
    /\ TreeTypeOK
    /\ root = "" => stage \in {"idle", "ok"} /\ service = <<>> /\ NothingYet
    /\ root # "" => stage # "idle"
    /\ stage \in {"service", "globals"} => NothingYet
    /\ stage = "globals" \/ Reading => service = dir.service /\ service # <<>>
    /\ Reading => Loops /\ HostsFit /\ SpareFits

----------------------------------------------------------------------------
(* What a directory holds.                                                 *)

\* A pointer that is not nil points to a value.
LEMMA OptionalValue ==
    ASSUME NEW S, NEW p \in Optional(S), p # <<>>
    PROVE  p[1] \in S /\ p = <<p[1]>>
<1>1. p \in Seq(S) /\ Len(p) <= 1
  BY DEF Optional
<1>2. Len(p) = 1 /\ p[1] \in S
  <2>1. \A q \in Seq(S) : Len(q) = 0 => q = <<>>
    OBVIOUS
  <2>2. Len(p) \in Nat /\ (Len(p) = 1 => p[1] \in S)
    BY <1>1
  <2> QED BY <1>1, <2>1, <2>2
<1>3. <<p[1]>> \in Seq(S) /\ Len(<<p[1]>>) = 1 /\ <<p[1]>>[1] = p[1]
  BY <1>2
<1>4. \A q \in Seq(S) : Len(q) = 1 /\ q[1] = p[1] => q = p
  BY <1>1, <1>2
<1> QED BY <1>2, <1>3, <1>4

\* The files of the directory that is read.
LEMMA DirTypes ==
    ASSUME disk \in Disks, root \in Roots
    PROVE  /\ dir.globals \in Optional(File)
           /\ \A h \in DOMAIN dir.a : dir.a[h] \in Optional(File)
           /\ \A h \in DOMAIN dir.b : dir.b[h] \in Optional(File)
           /\ \A h \in DOMAIN dir.a \cup DOMAIN dir.b, w \in When : dir.hooks[h][w] \in Seq(Lines)
           /\ dir.globals # <<>> => \A w \in When : Len(dir.globals[1].inline[w]) <= MaxInline
<1>1. /\ dir.globals \in Optional(File)
      /\ dir.a \in [DOMAIN dir.a -> Optional(File)]
      /\ dir.b \in [DOMAIN dir.b -> Optional(File)]
      /\ dir.hooks \in [DOMAIN dir.a \cup DOMAIN dir.b -> [When -> Seq(Seq(STRING))]]
      /\ dir.globals # <<>> => \A w \in When : Len(dir.globals[1].inline[w]) <= MaxInline
  BY DisksAssumption DEF dir
<1>2. Seq(Seq(STRING)) \subseteq Seq(Lines)
  BY StringsAreLines, SeqMonotone
<1> QED BY <1>1, <1>2

\* The parts of a config file.
LEMMA FileTypes ==
    ASSUME NEW file \in File
    PROVE  /\ file.ssh \in Optional(SSHConfig) /\ file.rsync \in Optional(RsyncConfig)
           /\ \A w \in When : file.inline[w] \in Lines
<1>1. file.inline \in [When -> Seq(STRING)]
  BY DEF File
<1>2. \A w \in When : file.inline[w] \in Lines
  BY <1>1, StringsAreLines
<1> QED BY <1>2 DEF File

\* The scripts of one host, and the array behind the global one.
LEMMA ScriptTypes ==
    ASSUME disk \in Disks, root \in Roots, Readable(dir.globals), NEW w \in When
    PROVE  /\ RefGlobal(w) \in Lines /\ Len(RefGlobal(w)) \in 0..MaxInline
           /\ \A h : FileOf(h) \in File => RefInline(h, w) \in Lines
           /\ \A h \in DOMAIN dir.a \cup DOMAIN dir.b : RefHooks(h, w) \in Lines
<1>1. dir.globals[1] \in File /\ Len(dir.globals[1].inline[w]) <= MaxInline
  BY DirTypes, OptionalValue DEF Readable
<1>2. RefGlobal(w) \in Lines /\ Len(RefGlobal(w)) <= Len(dir.globals[1].inline[w])
  BY <1>1, FileTypes, CleanScriptTypes DEF RefGlobal
<1>3. Len(RefGlobal(w)) \in 0..MaxInline
  <2>1. Len(RefGlobal(w)) \in Nat /\ Len(dir.globals[1].inline[w]) \in Nat
    BY <1>1, <1>2, FileTypes, LinesConcat
  <2>2. \A m, n \in Nat : m <= n /\ n <= MaxInline => m \in 0..MaxInline
    BY DEF MaxInline
  <2> QED BY <1>1, <1>2, <2>1, <2>2, Zenon
<1>4. ASSUME NEW h, FileOf(h) \in File PROVE RefInline(h, w) \in Lines
  BY <1>4, FileTypes, CleanScriptTypes DEF RefInline
<1>5. ASSUME NEW h \in DOMAIN dir.a \cup DOMAIN dir.b PROVE RefHooks(h, w) \in Lines
  <2>1. FlattenSeq(dir.hooks[h][w]) \in Lines
    BY DirTypes, CleanFlatten
  <2> QED BY <2>1, CleanScriptTypes DEF RefHooks
<1> QED BY <1>2, <1>3, <1>4, <1>5

\* As long as disk and root stay, so does all that the files say.
LEMMA SameDir ==
    ASSUME disk' = disk, root' = root
    PROVE  /\ dir' = dir
           /\ \A h : FileOf(h)' = FileOf(h)
           /\ \A w : RefGlobal(w)' = RefGlobal(w)
           /\ \A h, w : RefInline(h, w)' = RefInline(h, w)
           /\ \A h, w : RefHooks(h, w)' = RefHooks(h, w)
<1>1. dir' = dir
  BY DEF dir
<1>2. \A h : FileOf(h)' = FileOf(h)
  BY <1>1 DEF FileOf
<1>3. \A w : RefGlobal(w)' = RefGlobal(w)
  BY <1>1 DEF RefGlobal
<1>4. \A h, w : RefInline(h, w)' = RefInline(h, w)
  BY <1>2 DEF RefInline
<1>5. \A h, w : RefHooks(h, w)' = RefHooks(h, w)
  BY <1>1 DEF RefHooks
<1> QED BY <1>1, <1>2, <1>3, <1>4, <1>5

\* A host that the loop does not reach keeps its config.
LEMMA SameConfig ==
    ASSUME disk' = disk, root' = root, NEW h,
           h \in Hooked' <=> h \in Hooked, h \in Merged' <=> h \in Merged
    PROVE  Config(h)' = Config(h)
BY SameDir DEF Config

\* A shared script lies within the array.
LEMMA SharedFits ==
    ASSUME NEW lines \in Lines, NEW own \in Lines, mergeInline(lines, own).shared
    PROVE  /\ Fits(lines, own) /\ mergeInline(lines, own).lines = lines \o own
           /\ Len(lines \o own) <= Capacity(Len(lines))
<1>1. Fits(lines, own) /\ mergeInline(lines, own).lines = lines \o own
  BY DEF mergeInline, Own, Shared
<1> QED BY <1>1, LinesConcat DEF Fits

\* The hosts' slices while the config is read and merged.
LEMMA ReadingTypes ==
    disk \in Disks /\ root \in Roots /\ Reading /\ Loops /\ HostsFit /\ SpareFits => TreeTypeOK
<1> SUFFICES ASSUME disk \in Disks, root \in Roots, Reading, Loops, HostsFit, SpareFits
             PROVE  TreeTypeOK
  OBVIOUS
<1>1. stage \in {"a", "b", "hooks", "merge", "ok"} /\ root # ""
  BY DEF Reading
<1>2. todo \subseteq DOMAIN hosts \cup (DOMAIN dir.a \cup DOMAIN dir.b)
  BY <1>1 DEF Loops
<1>3. ASSUME NEW h \in DOMAIN hosts, NEW w \in When, hosts[h].inline[w].shared
      PROVE  Len(hosts[h].inline[w].lines) <= Len(spare[w])
  <2>1. RefGlobal(w) \in Lines /\ RefInline(h, w) \in Lines
    BY ScriptTypes DEF HostsFit
  <2>2. hosts[h] = Config(h)
    BY DEF HostsFit
  <2>3. hosts[h].inline[w] = IF h \in Merged THEN mergeInline(RefGlobal(w), RefInline(h, w))
                             ELSE Own(RefInline(h, w))
    BY <2>2 DEF Config
  <2>4. ~Own(RefInline(h, w)).shared
    BY DEF Own
  <2>5. h \in Merged /\ mergeInline(RefGlobal(w), RefInline(h, w)).shared
    BY <1>3, <2>3, <2>4
  <2>6. Len(spare[w]) = Capacity(Len(RefGlobal(w)))
    BY DEF SpareFits
  <2> QED BY <2>1, <2>3, <2>5, <2>6, SharedFits
<1> QED BY <1>1, <1>2, <1>3 DEF TreeTypeOK

\* When reload fails, the tree stays as it is.
LEMMA FailStep ==
    ASSUME TreeInv, root # "", stage' = "failed", UNCHANGED <<disk, root, todo, spare, hosts>>
    PROVE  TreeInv'
<1>1. ~Reading' /\ stage' \notin {"service", "globals"} /\ root' # "" /\ stage' # "idle"
  BY DEF Reading
<1>2. TreeTypeOK'
  BY SameDir DEF TreeInv, TreeTypeOK
<1> QED BY <1>1, <1>2 DEF TreeInv

\* SetRoot, called once, with the root of the command line.
LEMMA SetRootStep ==
    ASSUME TreeInv, root = "", stage = "idle", disk' = disk,
           NEW newRoot \in Roots \cup {""}, SetRoot(newRoot)
    PROVE  TreeInv' /\ root' = newRoot /\ stage' # "idle" /\ DOMAIN hosts' = DOMAIN hosts
           /\ service' = <<>> /\ (root' = "" => stage' = "ok")
<1>1. service = <<>> /\ NothingYet /\ root = ""
  BY DEF TreeInv
<1>2. /\ UNCHANGED <<todo, service, global, spare, hosts>>
      /\ root' = newRoot /\ stage' = IF newRoot = "" THEN "ok" ELSE "service"
  BY <1>1 DEF SetRoot
<1>3. ~Reading'
  BY <1>2 DEF Reading
<1>4. NothingYet' /\ service' = <<>>
  BY <1>1, <1>2 DEF NothingYet
<1>5. TreeTypeOK'
  <2>1. disk' \in Disks
    BY DEF TreeInv, TreeTypeOK
  <2> QED BY <1>2, <1>4, <2>1 DEF TreeTypeOK, NothingYet
<1> QED BY <1>2, <1>3, <1>4, <1>5 DEF TreeInv

\* config.yml is read, or it is missing.
LEMMA ReadServiceStep ==
    ASSUME TreeInv, ReadService, disk' = disk
    PROVE  TreeInv'
<1>1. stage = "service" /\ root # "" /\ NothingYet /\ UNCHANGED <<root, todo, spare, hosts>>
  BY DEF ReadService, TreeInv
<1>2. CASE dir.service = <<>>
  BY <1>1, <1>2, FailStep DEF ReadService
<1>3. CASE dir.service # <<>>
  <2>1. stage' = "globals" /\ service' = dir.service /\ dir' = dir
    BY <1>1, <1>3, SameDir DEF ReadService
  <2>2. NothingYet' /\ ~Reading' /\ root' # ""
    BY <1>1, <2>1 DEF NothingYet, Reading
  <2>3. TreeTypeOK'
    <3>1. disk' \in Disks /\ root' \in Roots \cup {""}
      BY <1>1 DEF TreeInv, TreeTypeOK
    <3> QED BY <2>1, <2>2, <3>1 DEF TreeTypeOK, NothingYet
  <2> QED BY <1>3, <2>1, <2>2, <2>3 DEF TreeInv
<1> QED BY <1>2, <1>3

\* The array that append has made for the global lines.
LEMMA Padding ==
    ASSUME NEW lines \in Lines, NEW n \in Nat, NEW x \in Line
    PROVE  LET array == lines \o [i \in 1..n |-> x]
           IN  array \in Lines /\ Len(array) = Len(lines) + n /\ Begins(array, lines)
<1>1. [i \in 1..n |-> x] \in Lines /\ Len([i \in 1..n |-> x]) = n
  BY DEF Lines
<1>2. \A s \in Lines : /\ lines \o s \in Lines /\ Len(lines \o s) = Len(lines) + Len(s)
                       /\ Len(lines) \in Nat /\ Len(s) \in Nat
                       /\ \A i \in 1..Len(lines) : (lines \o s)[i] = lines[i]
  BY LinesConcat
<1> DEFINE pad == [i \in 1..n |-> x]
<1> HIDE DEF pad
<1>3. pad \in Lines /\ Len(pad) = n
  BY <1>1 DEF pad
<1>4. lines \o pad \in Lines /\ Len(lines \o pad) = Len(lines) + n /\ Begins(lines \o pad, lines)
  BY <1>2, <1>3 DEF Begins
<1> QED BY <1>4 DEF pad

\* globals.yml is read, and t.hosts made anew; or it cannot be decoded.
LEMMA ReadGlobalsStep ==
    ASSUME TreeInv, ReadGlobals, disk' = disk
    PROVE  TreeInv'
<1>1. stage = "globals" /\ root # "" /\ NothingYet /\ service = dir.service /\ service # <<>>
  BY DEF ReadGlobals, TreeInv
<1>2. root' = root /\ service' = service /\ disk' \in Disks /\ root \in Roots
  BY <1>1 DEF ReadGlobals, TreeInv, TreeTypeOK
<1>3. CASE ~Readable(dir.globals)
  <2>1. stage' = "failed" /\ NothingYet' /\ ~Reading' /\ root' # ""
    BY <1>1, <1>2, <1>3 DEF ReadGlobals, NothingYet, Reading
  <2>2. TreeTypeOK'
    BY <1>2, <2>1 DEF TreeTypeOK, NothingYet
  <2> QED BY <2>1, <2>2 DEF TreeInv
<1>4. CASE Readable(dir.globals)
  <2>1. /\ stage' = "a" /\ todo' = DOMAIN dir.a /\ DOMAIN hosts' = {}
        /\ global' = Decoded(dir.globals[1])
        /\ spare' = [w \in When |-> RefGlobal(w) \o
                        [n \in 1..Capacity(Len(RefGlobal(w))) - Len(RefGlobal(w)) |-> "unused"]]
    BY <1>4 DEF ReadGlobals, RefGlobal
  <2>2. /\ dir' = dir /\ \A w : RefGlobal(w)' = RefGlobal(w)
    BY <1>2, SameDir
  <2>3. Reading' /\ Loops' /\ FirstFiles' = {} /\ SecondFiles' = {} /\ Merged' = {}
    BY <1>1, <1>2, <2>1, <2>2 DEF Reading, Loops, FirstFiles, SecondFiles, Merged
  <2>4. HostsFit'
    <3>1. Readable(dir.globals)' /\ Decoded(dir.globals[1])' = Decoded(dir.globals[1])
      BY <1>4, <2>2
    <3> QED BY <2>1, <2>3, <3>1 DEF HostsFit
  <2>5. SpareFits'
    <3>1. ASSUME NEW w \in When
          PROVE  /\ spare'[w] \in Lines /\ Len(spare'[w]) = Capacity(Len(RefGlobal(w)))
                 /\ Begins(spare'[w], RefGlobal(w))
      <4> DEFINE G == RefGlobal(w)
                 n == Capacity(Len(G)) - Len(G)
      <4>1. G \in Lines /\ Len(G) \in 0..MaxInline
        BY <1>2, <1>4, ScriptTypes
      <4>2. n \in Nat /\ Len(G) + n = Capacity(Len(G))
        <5>1. Len(G) \in Nat /\ Capacity(Len(G)) \in Nat /\ Len(G) <= Capacity(Len(G))
          BY <4>1, CapacityHolds
        <5> QED BY <5>1
      <4>3. "unused" \in Line
        BY StringsAreLines
      <4>4. spare'[w] = G \o [i \in 1..n |-> "unused"]
        BY <2>1
      <4> HIDE DEF G, n
      <4>5. /\ spare'[w] \in Lines /\ Len(spare'[w]) = Len(G) + n /\ Begins(spare'[w], G)
        BY <4>1, <4>2, <4>3, <4>4, Padding
      <4> QED BY <4>2, <4>5 DEF G
    <3>2. \A w \in When : Wrote(w)' = {}
      BY <2>3 DEF Wrote
    <3>3. \A w \in When : RefGlobal(w)' = RefGlobal(w)
      BY <2>2
    <3> QED BY <3>1, <3>2, <3>3 DEF SpareFits, Begins
  <2>6. TreeTypeOK'
    <3>1. disk' \in Disks /\ root' \in Roots /\ stage' = "a" /\ root' # ""
      BY <1>1, <1>2, <2>1
    <3> QED BY <2>1, <2>2, <3>1 DEF TreeTypeOK
  <2>7. service' = (dir.service)' /\ service' # <<>> /\ root' # "" /\ stage' = "a"
    BY <1>1, <1>2, <2>1, <2>2
  <2> QED BY <2>3, <2>4, <2>5, <2>6, <2>7 DEF TreeInv
<1> QED BY <1>3, <1>4

\* A step of reload after the global config has been read.
LEMMA ReadOn ==
    ASSUME TreeInv, Reading, UNCHANGED <<disk, root, service>>,
           stage' \in {"a", "b", "hooks", "merge", "ok"}, Loops', HostsFit', SpareFits'
    PROVE  TreeInv'
<1>1. disk' \in Disks /\ root' \in Roots /\ Reading'
  BY DEF TreeInv, TreeTypeOK, Reading
<1>2. TreeTypeOK'
  <2>1. (disk \in Disks /\ root \in Roots /\ Reading /\ Loops /\ HostsFit /\ SpareFits)' => TreeTypeOK'
    BY ReadingTypes, PTL
  <2> QED BY <1>1, <2>1
<1>3. service' = (dir.service)' /\ service' # <<>>
  BY SameDir DEF TreeInv
<1>4. root' # "" /\ stage' # "idle" /\ stage' \notin {"service", "globals"}
  BY DEF Reading
<1> QED BY <1>1, <1>2, <1>3, <1>4 DEF TreeInv

\* The array is written to by mergeGlobals alone.
LEMMA SpareKept ==
    ASSUME SpareFits, UNCHANGED <<disk, root, spare>>, \A w \in When : Wrote(w)' = Wrote(w)
    PROVE  SpareFits'
<1>1. /\ \A w : RefGlobal(w)' = RefGlobal(w)
      /\ \A h, w : RefInline(h, w)' = RefInline(h, w)
  BY SameDir
<1> QED BY <1>1 DEF SpareFits, Begins

\* The config of a host is read: its file exists, and it has no other.
LEMMA ReadGlobStep ==
    ASSUME TreeInv, ReadGlob, disk' = disk
    PROVE  TreeInv'
<1>1. /\ stage \in {"a", "b"} /\ root # "" /\ Reading /\ Loops /\ HostsFit /\ SpareFits
      /\ disk \in Disks /\ root \in Roots /\ UNCHANGED <<root, service, global, spare>>
  BY DEF ReadGlob, TreeInv, TreeTypeOK, Reading
<1>2. PICK h \in todo : readHostConfig(h)
  BY DEF ReadGlob
<1>3. CASE ~(h \notin DOMAIN hosts /\ Readable(dir[stage][h]))
  BY <1>1, <1>2, <1>3, FailStep DEF readHostConfig
<1>4. CASE h \notin DOMAIN hosts /\ Readable(dir[stage][h])
  <2>1. /\ hosts' = [g \in DOMAIN hosts \cup {h} |->
                        IF g = h THEN Decoded(dir[stage][h][1]) ELSE hosts[g]]
        /\ todo' = todo \ {h} /\ stage' = stage
    BY <1>2, <1>4 DEF readHostConfig
  <2>2. h \in DOMAIN dir[stage] /\ dir[stage][h] \in Optional(File) /\ dir[stage][h] # <<>>
    BY <1>1, <1>4, DirTypes DEF Loops, Readable
  <2>3. dir[stage][h][1] = FileOf(h) /\ FileOf(h) \in File
    <3>1. dir[stage][h][1] \in File
      BY <2>2, OptionalValue
    <3>2. stage = "b" => h \notin DOMAIN dir.a
      BY <1>1, <1>4 DEF HostsFit, FirstFiles
    <3> QED BY <1>1, <2>2, <3>1, <3>2 DEF FileOf
  <2>4. /\ dir' = dir /\ \A g : FileOf(g)' = FileOf(g)
    BY <1>1, SameDir
  <2>5. Hooked = {} /\ Merged = {} /\ Hooked' = {} /\ Merged' = {}
    BY <1>1, <2>1 DEF Hooked, Merged
  <2>6. Loops'
    BY <1>1, <2>1, <2>4 DEF Loops
  <2>7. HostsFit'
    <3>1. DOMAIN hosts' = DOMAIN hosts \cup {h}
      BY <2>1
    <3>2. DOMAIN hosts' = FirstFiles' \cup SecondFiles' /\ FirstFiles' \cap SecondFiles' = {}
      <4>1. CASE stage = "a"
        BY <1>1, <1>2, <1>4, <2>1, <2>2, <2>4, <3>1, <4>1 DEF HostsFit, FirstFiles, SecondFiles
      <4>2. CASE stage = "b"
        BY <1>1, <1>2, <1>4, <2>1, <2>2, <2>4, <3>1, <4>2 DEF HostsFit, FirstFiles, SecondFiles
      <4> QED BY <1>1, <4>1, <4>2
    <3>3. ASSUME NEW g \in DOMAIN hosts'
          PROVE  FileOf(g)' \in File /\ hosts'[g] = Config(g)'
      <4>1. Config(g)' = Config(g)
        BY <1>1, <2>5, SameConfig
      <4>2. CASE g = h
        <5>1. Decoded(FileOf(h)) = Config(h)
          BY <2>5 DEF Decoded, Config, RefInline
        <5> QED BY <2>1, <2>3, <2>4, <3>1, <4>1, <4>2, <5>1
      <4>3. CASE g # h
        <5>1. g \in DOMAIN hosts /\ hosts'[g] = hosts[g]
          BY <2>1, <3>1, <4>3
        <5> QED BY <1>1, <2>4, <4>1, <5>1 DEF HostsFit
      <4> QED BY <4>2, <4>3
    <3>4. Readable(dir.globals)' /\ global' = Decoded(dir.globals[1])'
      BY <1>1, <2>4 DEF HostsFit
    <3> QED BY <3>2, <3>3, <3>4 DEF HostsFit
  <2>8. SpareFits'
    <3>1. \A w \in When : Wrote(w)' = {} /\ Wrote(w) = {}
      BY <2>5 DEF Wrote
    <3> QED BY <1>1, <3>1, SpareKept
  <2> QED BY <1>1, <2>1, <2>6, <2>7, <2>8, ReadOn
<1> QED BY <1>3, <1>4

\* The hooks of a host are read: what "cat" makes of the files.
LEMMA ReadHooksStep ==
    ASSUME TreeInv, ReadHooks, disk' = disk
    PROVE  TreeInv'
<1>1. /\ stage = "hooks" /\ root # "" /\ Reading /\ Loops /\ HostsFit /\ SpareFits
      /\ disk \in Disks /\ root \in Roots /\ UNCHANGED <<root, service, global, spare>>
  BY DEF ReadHooks, TreeInv, TreeTypeOK, Reading
<1> DEFINE Scans(h) == \A w \in When : \A n \in DOMAIN dir.hooks[h][w] : ~Unscannable(dir.hooks[h][w][n])
           script(h) == [w \in When |-> FlattenSeq([n \in DOMAIN dir.hooks[h][w] |->
                                                       cleanScript(dir.hooks[h][w][n])])]
<1>2. PICK h \in todo :
         IF Scans(h)
         THEN /\ hosts' = [hosts EXCEPT ![h].scripts = script(h)]
              /\ todo' = todo \ {h} /\ UNCHANGED stage
         ELSE stage' = "failed" /\ UNCHANGED <<hosts, todo>>
  BY DEF ReadHooks
<1>3. CASE ~Scans(h)
  <2>1. stage' = "failed" /\ UNCHANGED <<hosts, todo>>
    BY <1>2, <1>3
  <2> QED BY <1>1, <2>1, FailStep
<1>4. CASE Scans(h)
  <2>1. /\ hosts' = [hosts EXCEPT ![h].scripts = script(h)]
        /\ todo' = todo \ {h} /\ stage' = stage
    BY <1>2, <1>4
  <2>2. h \in DOMAIN hosts /\ h \in DOMAIN dir.a \cup DOMAIN dir.b
    BY <1>1, <1>2 DEF Loops, HostsFit, FirstFiles, SecondFiles
  <2>3. script(h) = [w \in When |-> RefHooks(h, w)]
    <3>1. ASSUME NEW w \in When
          PROVE  FlattenSeq([n \in DOMAIN dir.hooks[h][w] |-> cleanScript(dir.hooks[h][w][n])])
                   = RefHooks(h, w)
      <4>1. dir.hooks[h][w] \in Seq(Lines)
        BY <1>1, <2>2, DirTypes
      <4> QED BY <4>1, CleanFlatten DEF RefHooks
    <3> QED BY <3>1
  <2> HIDE DEF script, Scans
  <2>4. /\ dir' = dir /\ \A g : FileOf(g)' = FileOf(g)
        /\ \A g, w : RefHooks(g, w)' = RefHooks(g, w)
    BY <1>1, SameDir
  <2>5. DOMAIN hosts' = DOMAIN hosts
    BY <2>1
  <2>6. /\ Merged = {} /\ Merged' = {}
        /\ h \notin Hooked /\ h \in Hooked' /\ \A g : g # h => (g \in Hooked' <=> g \in Hooked)
    BY <1>1, <1>2, <2>1, <2>2, <2>5 DEF Hooked, Merged
  <2>7. Loops'
    BY <1>1, <2>1, <2>5 DEF Loops
  <2>8. HostsFit'
    <3>1. FirstFiles' = FirstFiles /\ SecondFiles' = SecondFiles
      BY <1>1, <2>1, <2>4 DEF FirstFiles, SecondFiles
    <3>2. ASSUME NEW g \in DOMAIN hosts
          PROVE  FileOf(g)' \in File /\ hosts'[g] = Config(g)'
      <4>1. hosts[g] = Config(g) /\ FileOf(g) \in File
        BY <1>1 DEF HostsFit
      <4>2. CASE g = h
        <5>1. hosts'[h] = [Config(h) EXCEPT !.scripts = [w \in When |-> RefHooks(h, w)]]
          BY <2>1, <2>2, <2>3, <4>1, <4>2
        <5>2. Config(h)' = [Config(h) EXCEPT !.scripts = [w \in When |-> RefHooks(h, w)]]
          <6>1. /\ FileOf(h)' = FileOf(h)
                /\ \A w \in When : RefInline(h, w)' = RefInline(h, w) /\ RefHooks(h, w)' = RefHooks(h, w)
            BY <1>1, SameDir
          <6> DEFINE Read(scripts) == [ssh |-> FileOf(h).ssh, rsync |-> FileOf(h).rsync,
                                       inline |-> [w \in When |-> Own(RefInline(h, w))],
                                       scripts |-> scripts]
          <6>2. Config(h) = Read([w \in When |-> <<>>])
            BY <2>6 DEF Config
          <6>3. Config(h)' = Read([w \in When |-> RefHooks(h, w)])
            BY <2>6, <6>1 DEF Config
          <6> QED BY <6>2, <6>3
        <5> QED BY <2>4, <4>1, <4>2, <5>1, <5>2
      <4>3. CASE g # h
        <5>1. hosts'[g] = hosts[g]
          BY <2>1, <4>3
        <5>2. Config(g)' = Config(g)
          BY <1>1, <2>6, <4>3, SameConfig
        <5> QED BY <2>4, <4>1, <5>1, <5>2
      <4> QED BY <4>2, <4>3
    <3>3. Readable(dir.globals)' /\ global' = Decoded(dir.globals[1])'
      BY <1>1, <2>4 DEF HostsFit
    <3> QED BY <1>1, <2>5, <3>1, <3>2, <3>3 DEF HostsFit
  <2>9. SpareFits'
    <3>1. \A w \in When : Wrote(w)' = {} /\ Wrote(w) = {}
      BY <2>6 DEF Wrote
    <3> QED BY <1>1, <3>1, SpareKept
  <2> QED BY <1>1, <2>1, <2>7, <2>8, <2>9, ReadOn
<1> QED BY <1>3, <1>4

\* One loop ends and the next begins.
LEMMA NextStageStep ==
    ASSUME TreeInv, NextStage, disk' = disk
    PROVE  TreeInv'
<1>1. root # ""
  <2>1. stage \in {"a", "b", "hooks", "merge"}
    BY DEF NextStage
  <2>2. stage = "idle" \/ stage = "ok" \/ root # ""
    BY DEF TreeInv
  <2>3. stage # "idle" /\ stage # "ok"
    BY <2>1
  <2> QED BY <2>2, <2>3
<1>2. /\ Reading /\ Loops /\ HostsFit /\ SpareFits /\ disk \in Disks /\ root \in Roots
      /\ todo = {} /\ UNCHANGED <<root, service, global, spare, hosts>>
  BY <1>1 DEF NextStage, TreeInv, TreeTypeOK, Reading
<1>3. \/ stage = "a" /\ stage' = "b" /\ todo' = DOMAIN dir.b
      \/ stage = "b" /\ stage' = "hooks" /\ todo' = DOMAIN hosts
      \/ stage = "hooks" /\ stage' = "merge" /\ todo' = DOMAIN hosts
      \/ stage = "merge" /\ stage' = "ok" /\ todo' = {}
  BY <1>2 DEF NextStage
<1>4. dir' = dir /\ \A h : FileOf(h)' = FileOf(h)
  BY <1>2, SameDir
<1>5. /\ FirstFiles' = FirstFiles /\ SecondFiles' = SecondFiles
      /\ \A h \in DOMAIN hosts : h \in Hooked' <=> h \in Hooked
      /\ \A h \in DOMAIN hosts : h \in Merged' <=> h \in Merged
      /\ Merged' = Merged
  BY <1>2, <1>3, <1>4 DEF FirstFiles, SecondFiles, Hooked, Merged
<1>6. Loops'
  BY <1>2, <1>3, <1>4 DEF Loops
<1>7. HostsFit'
  <2>1. \A h \in DOMAIN hosts : Config(h)' = Config(h)
    BY <1>2, <1>5, SameConfig
  <2> QED BY <1>2, <1>4, <1>5, <2>1 DEF HostsFit
<1>8. SpareFits'
  <2>1. \A w : RefGlobal(w)' = RefGlobal(w) /\ \A h : RefInline(h, w)' = RefInline(h, w)
    BY <1>2, SameDir
  <2>2. \A w \in When : Wrote(w)' = Wrote(w)
    BY <1>5, <2>1 DEF Wrote, Fits
  <2> QED BY <1>2, <2>2, SpareKept
<1> QED BY <1>2, <1>3, <1>6, <1>7, <1>8, ReadOn

\* What mergeGlobals does to the array: the global lines stay, a host's lines
\* follow them where they fit, and else the array stays as it is.
LEMMA OverwriteBegins ==
    ASSUME NEW array \in Lines, NEW lines \in Lines, NEW own \in Lines,
           Begins(array, lines), Len(array) = Capacity(Len(lines))
    PROVE  LET new == overwrite(array, lines, own) IN
           /\ new \in Lines /\ Len(new) = Len(array) /\ Begins(new, lines)
           /\ Fits(lines, own) => Begins(new, lines \o own)
           /\ ~Fits(lines, own) \/ own = <<>> => new = array
<1> DEFINE new == overwrite(array, lines, own)
           all == lines \o own
<1>1. /\ new \in Lines /\ Len(new) = Len(array)
      /\ \A n \in 1..Len(array) :
            new[n] = IF Fits(lines, own) /\ n \in 1..Len(all) THEN all[n] ELSE array[n]
  BY OverwriteTypes
<1>2. /\ Len(lines) \in Nat /\ Len(own) \in Nat /\ Len(all) = Len(lines) + Len(own)
      /\ \A n \in 1..Len(lines) : all[n] = lines[n]
  BY LinesConcat
<1>3. Len(array) \in Nat /\ Len(lines) <= Len(array) /\ \A n \in 1..Len(lines) : array[n] = lines[n]
  BY LinesConcat DEF Begins
<1>4. Fits(lines, own) => Len(all) <= Len(array)
  BY <1>2 DEF Fits
<1> HIDE DEF new, all
<1>5. Begins(new, lines)
  <2>1. ASSUME NEW n \in 1..Len(lines) PROVE new[n] = lines[n]
    BY <1>1, <1>2, <1>3
  <2> QED BY <1>1, <1>3, <2>1 DEF Begins
<1>6. Fits(lines, own) => Begins(new, all)
  <2> SUFFICES ASSUME Fits(lines, own) PROVE Begins(new, all)
    OBVIOUS
  <2>1. ASSUME NEW n \in 1..Len(all) PROVE new[n] = all[n]
    BY <1>1, <1>2, <1>3, <1>4
  <2> QED BY <1>1, <1>4, <2>1 DEF Begins
<1>7. ASSUME ~Fits(lines, own) \/ own = <<>> PROVE new = array
  <2>1. ASSUME NEW n \in 1..Len(array) PROVE new[n] = array[n]
    <3>1. CASE ~Fits(lines, own)
      BY <1>1, <3>1
    <3>2. CASE own = <<>>
      <4>1. Len(all) = Len(lines)
        <5>1. Len(own) = 0
          BY <3>2
        <5> QED BY <1>2, <5>1
      <4> QED BY <1>1, <1>2, <1>3, <4>1
    <3> QED BY <1>7, <3>1, <3>2
  <2>2. Len(new) = Len(array) /\ \A n \in 1..Len(new) : new[n] = array[n]
    BY <1>1, <2>1
  <2> QED BY <1>1, <2>2, LinesEqual
<1> QED BY <1>1, <1>5, <1>6, <1>7 DEF new, all

\* The assignments of mergeGlobals, field by field and as one.
Job(ssh, rsync, inline, scripts) ==
    [ssh |-> ssh, rsync |-> rsync, inline |-> inline, scripts |-> scripts]
IsJob(job) == job = Job(job.ssh, job.rsync, job.inline, job.scripts)
Assigned(f, h, a, b, c, d) ==
    [f EXCEPT ![h].ssh = a, ![h].rsync = b, ![h].inline = c, ![h].scripts = d]
Replaced(f, h, job) == [f EXCEPT ![h] = job]

\* They assign all four fields, so only the new job counts.
LEMMA FourFields ==
    ASSUME NEW f, NEW h \in DOMAIN f, IsJob(f[h]), NEW a, NEW b, NEW c, NEW d
    PROVE  Assigned(f, h, a, b, c, d) = Replaced(f, h, Job(a, b, c, d))
<1>0. f[h] = [ssh |-> f[h].ssh, rsync |-> f[h].rsync, inline |-> f[h].inline,
              scripts |-> f[h].scripts]
  BY DEF IsJob, Job
<1>1. PICK g1 : g1 = [f[h] EXCEPT !.ssh = a]
  OBVIOUS
<1>2. g1 = [ssh |-> a, rsync |-> f[h].rsync, inline |-> f[h].inline, scripts |-> f[h].scripts]
  BY <1>0, <1>1
<1>3. PICK g2 : g2 = [g1 EXCEPT !.rsync = b]
  OBVIOUS
<1>4. g2 = [ssh |-> a, rsync |-> b, inline |-> f[h].inline, scripts |-> f[h].scripts]
  BY <1>2, <1>3
<1>5. PICK g3 : g3 = [g2 EXCEPT !.inline = c]
  OBVIOUS
<1>6. g3 = [ssh |-> a, rsync |-> b, inline |-> c, scripts |-> f[h].scripts]
  BY <1>4, <1>5
<1>7. PICK g4 : g4 = [g3 EXCEPT !.scripts = d]
  OBVIOUS
<1>8. g4 = [ssh |-> a, rsync |-> b, inline |-> c, scripts |-> d]
  BY <1>6, <1>7
<1>9. [f[h] EXCEPT !.ssh = a, !.rsync = b, !.inline = c, !.scripts = d] = g4
  BY <1>1, <1>3, <1>5, <1>7
<1>10. [f EXCEPT ![h].ssh = a, ![h].rsync = b, ![h].inline = c, ![h].scripts = d]
         = [f EXCEPT ![h] = [f[h] EXCEPT !.ssh = a, !.rsync = b, !.inline = c, !.scripts = d]]
  OBVIOUS
<1> QED BY <1>8, <1>9, <1>10 DEF Assigned, Replaced, Job

\* The global config is merged into the config of a host.
LEMMA MergeStep ==
    ASSUME TreeInv, Merge, disk' = disk
    PROVE  TreeInv'
<1>1. /\ stage = "merge" /\ root # "" /\ Reading /\ Loops /\ HostsFit /\ SpareFits
      /\ disk \in Disks /\ root \in Roots /\ UNCHANGED <<root, stage, service, global>>
  BY DEF Merge, TreeInv, TreeTypeOK, Reading
<1>2. PICK h \in todo : mergeGlobals(h) /\ todo' = todo \ {h}
  BY DEF Merge
<1>3. h \in DOMAIN hosts /\ h \in Hooked /\ h \notin Merged /\ FileOf(h) \in File
      /\ h \in DOMAIN dir.a \cup DOMAIN dir.b
  BY <1>1, <1>2 DEF Loops, Hooked, Merged, HostsFit, FirstFiles, SecondFiles
<1>4. /\ global.ssh = dir.globals[1].ssh /\ global.rsync = dir.globals[1].rsync
      /\ \A w \in When : global.inline[w].lines = RefGlobal(w) /\ global.scripts[w] = <<>>
  BY <1>1 DEF HostsFit, Decoded, Own, RefGlobal
<1>5. hosts[h] = [ssh |-> FileOf(h).ssh, rsync |-> FileOf(h).rsync,
                  inline |-> [w \in When |-> Own(RefInline(h, w))],
                  scripts |-> [w \in When |-> RefHooks(h, w)]]
  BY <1>1, <1>3 DEF HostsFit, Config
<1>6. \A w \in When : hosts[h].inline[w].lines = RefInline(h, w)
  BY <1>5 DEF Own
<1>7. \A w \in When : <<>> \o RefHooks(h, w) = RefHooks(h, w)
  <2>1. \A s \in Lines : <<>> \o s = s
    BY DEF Lines
  <2> QED BY <1>1, <1>3, <2>1, ScriptTypes DEF HostsFit
<1> DEFINE merged == [ssh |-> mergeSSH(FileOf(h).ssh, dir.globals[1].ssh),
                      rsync |-> mergeRSync(FileOf(h).rsync, dir.globals[1].rsync),
                      inline |-> [w \in When |-> mergeInline(RefGlobal(w), RefInline(h, w))],
                      scripts |-> [w \in When |-> RefHooks(h, w)]]
           array(w) == overwrite(spare[w], RefGlobal(w), RefInline(h, w))
<1>8. hosts' = [hosts EXCEPT ![h] = merged]
  <2>1. hosts' = [hosts EXCEPT
               ![h].ssh     = mergeSSH(@, global.ssh),
               ![h].rsync   = mergeRSync(@, global.rsync),
               ![h].inline  = [w \in When |-> mergeInline(global.inline[w].lines, hosts[h].inline[w].lines)],
               ![h].scripts = [w \in When |-> global.scripts[w] \o @[w]]]
    BY <1>2 DEF mergeGlobals
  <2>2. [w \in When |-> mergeInline(global.inline[w].lines, hosts[h].inline[w].lines)]
          = [w \in When |-> mergeInline(RefGlobal(w), RefInline(h, w))]
    BY <1>4, <1>6
  <2>3. [w \in When |-> global.scripts[w] \o RefHooks(h, w)] = [w \in When |-> RefHooks(h, w)]
    BY <1>4, <1>7
  <2>4. hosts' = [hosts EXCEPT
               ![h].ssh     = mergeSSH(hosts[h].ssh, global.ssh),
               ![h].rsync   = mergeRSync(hosts[h].rsync, global.rsync),
               ![h].inline  = [w \in When |-> mergeInline(global.inline[w].lines, hosts[h].inline[w].lines)],
               ![h].scripts = [w \in When |-> global.scripts[w] \o hosts[h].scripts[w]]]
    BY <1>3, <2>1
  <2>5. /\ mergeSSH(hosts[h].ssh, global.ssh) = merged.ssh
        /\ mergeRSync(hosts[h].rsync, global.rsync) = merged.rsync
        /\ [w \in When |-> mergeInline(global.inline[w].lines, hosts[h].inline[w].lines)] = merged.inline
        /\ [w \in When |-> global.scripts[w] \o hosts[h].scripts[w]] = merged.scripts
    BY <1>4, <1>5, <2>2, <2>3
  <2>6. merged = [ssh |-> merged.ssh, rsync |-> merged.rsync, inline |-> merged.inline,
                  scripts |-> merged.scripts]
    OBVIOUS
  <2> HIDE DEF merged
  <2>7. hosts' = [hosts EXCEPT ![h].ssh = merged.ssh, ![h].rsync = merged.rsync,
                               ![h].inline = merged.inline, ![h].scripts = merged.scripts]
    BY <2>4, <2>5
  <2>8. IsJob(hosts[h])
    BY <1>5 DEF IsJob, Job
  <2>9. Assigned(hosts, h, merged.ssh, merged.rsync, merged.inline, merged.scripts)
          = Replaced(hosts, h, Job(merged.ssh, merged.rsync, merged.inline, merged.scripts))
    BY <1>3, <2>8, FourFields
  <2> QED BY <2>6, <2>7, <2>9 DEF Assigned, Replaced, Job
<1>9. \A w \in When : spare'[w] = array(w)
  BY <1>2, <1>4, <1>6 DEF mergeGlobals
<1> HIDE DEF merged, array
<1>10. /\ dir' = dir /\ \A g : FileOf(g)' = FileOf(g)
       /\ \A w : RefGlobal(w)' = RefGlobal(w)
       /\ \A g, w : RefInline(g, w)' = RefInline(g, w) /\ RefHooks(g, w)' = RefHooks(g, w)
  BY <1>1, SameDir
<1>11. /\ DOMAIN hosts' = DOMAIN hosts
       /\ Hooked' = Hooked /\ Merged' = Merged \cup {h}
  BY <1>1, <1>2, <1>3, <1>8 DEF Hooked, Merged
<1>12. Loops'
  BY <1>1, <1>2, <1>11 DEF Loops
<1>13. HostsFit'
  <2>1. FirstFiles' = FirstFiles /\ SecondFiles' = SecondFiles
    BY <1>1, <1>10 DEF FirstFiles, SecondFiles
  <2>2. ASSUME NEW g \in DOMAIN hosts
        PROVE  hosts'[g] = Config(g)'
    <3>1. CASE g = h
      <4>1. Config(h)' = merged
        BY <1>3, <1>10, <1>11 DEF Config, merged
      <4> QED BY <1>3, <1>8, <3>1, <4>1
    <3>2. CASE g # h
      <4>1. Config(g)' = Config(g)
        BY <1>1, <1>11, <3>2, SameConfig
      <4> QED BY <1>1, <1>8, <3>2, <4>1 DEF HostsFit
    <3> QED BY <3>1, <3>2
  <2> QED BY <1>1, <1>10, <1>11, <2>1, <2>2 DEF HostsFit
<1>14. SpareFits'
  <2> SUFFICES ASSUME NEW w \in When
               PROVE  /\ spare'[w] \in Lines /\ Len(spare'[w]) = Capacity(Len(RefGlobal(w)))
                      /\ Begins(spare'[w], RefGlobal(w))
                      /\ \A g \in Wrote(w)' : Wrote(w)' = {g} =>
                            Begins(spare'[w], RefGlobal(w) \o RefInline(g, w))
    BY <1>10 DEF SpareFits, Begins
  <2> DEFINE G == RefGlobal(w)
             O == RefInline(h, w)
  <2>1. G \in Lines /\ O \in Lines
    BY <1>1, <1>3, ScriptTypes DEF HostsFit
  <2>2. /\ spare[w] \in Lines /\ Len(spare[w]) = Capacity(Len(G)) /\ Begins(spare[w], G)
        /\ \A g \in Wrote(w) : Wrote(w) = {g} => Begins(spare[w], G \o RefInline(g, w))
    BY <1>1 DEF SpareFits
  <2>3. Wrote(w)' = Wrote(w) \cup (IF O # <<>> /\ Fits(G, O) THEN {h} ELSE {})
    BY <1>10, <1>11 DEF Wrote, Fits
  <2>4. h \notin Wrote(w)
    BY <1>3 DEF Wrote
  <2>5. spare'[w] = overwrite(spare[w], G, O)
    BY <1>9 DEF array
  <2> HIDE DEF G, O
  <2>6. /\ spare'[w] \in Lines /\ Len(spare'[w]) = Len(spare[w]) /\ Begins(spare'[w], G)
        /\ Fits(G, O) => Begins(spare'[w], G \o O)
        /\ ~Fits(G, O) \/ O = <<>> => spare'[w] = spare[w]
    BY <2>1, <2>2, <2>5, OverwriteBegins
  <2>7. ASSUME NEW g \in Wrote(w)', Wrote(w)' = {g}
        PROVE  Begins(spare'[w], G \o RefInline(g, w))
    <3>1. CASE O # <<>> /\ Fits(G, O)
      <4>1. g = h
        BY <2>3, <2>7, <3>1
      <4> QED BY <2>6, <3>1, <4>1 DEF O
    <3>2. CASE ~(O # <<>> /\ Fits(G, O))
      <4>1. Wrote(w) = {g}
        BY <2>3, <2>7, <3>2
      <4> QED BY <2>2, <2>6, <3>2, <4>1
    <3> QED BY <3>1, <3>2
  <2> QED BY <2>2, <2>6, <2>7 DEF G
<1> QED BY <1>1, <1>12, <1>13, <1>14, ReadOn

\* Every step of reload keeps the invariant of the tree.
LEMMA ReloadStepInv ==
    ASSUME TreeInv, Reload, disk' = disk
    PROVE  TreeInv'
BY ReadServiceStep, ReadGlobalsStep, ReadGlobStep, ReadHooksStep, MergeStep, NextStageStep
   DEF Reload

----------------------------------------------------------------------------
(* What the tree is when it is loaded.                                     *)

\* A merge with a missing config is no merge, and otherwise there is a result.
LEMMA OptionalConcat ==
    ASSUME NEW S, NEW p \in Optional(S), NEW q \in Optional(S)
    PROVE  /\ q = <<>> => p \o q = p
           /\ p = <<>> => p \o q = q
           /\ p \o q = <<>> <=> p = <<>> /\ q = <<>>
<1>1. p \in Seq(S) /\ q \in Seq(S)
  BY DEF Optional
<1>2. /\ q = <<>> => p \o q = p
      /\ p = <<>> => p \o q = q
  BY <1>1
<1>3. ASSUME p \o q = <<>> PROVE p = <<>> /\ q = <<>>
  <2>1. Len(p \o q) = Len(p) + Len(q) /\ Len(p) \in Nat /\ Len(q) \in Nat
    BY <1>1
  <2>2. Len(p) = 0 /\ Len(q) = 0
    BY <1>3, <2>1
  <2>3. \A s \in Seq(S) : Len(s) = 0 => s = <<>>
    OBVIOUS
  <2> QED BY <1>1, <2>2, <2>3
<1> QED BY <1>2, <1>3

\* mergeGlobals, for the ssh config of a host.
LEMMA MergeSSHExact ==
    ASSUME NEW mine \in Optional(SSHConfig), NEW all \in Optional(SSHConfig)
    PROVE  LET ssh == mergeSSH(mine, all) IN
           /\ ssh = <<>> <=> mine \o all = <<>>
           /\ ssh # <<>> => \A f \in DOMAIN ssh[1] :
                 ssh[1][f] = IF mine # <<>> /\ (mine[1][f] # "unset" \/ all = <<>>)
                             THEN mine[1][f] ELSE all[1][f]
<1>1. CASE mine = <<>> \/ all = <<>>
  <2>1. mergeSSH(mine, all) = mine \o all
    BY <1>1 DEF mergeSSH
  <2>2. mine # <<>> => mergeSSH(mine, all) = mine /\ all = <<>>
    BY <1>1, <2>1, OptionalConcat
  <2>3. mine = <<>> => mergeSSH(mine, all) = all
    BY <1>1, <2>1, OptionalConcat
  <2> QED BY <2>1, <2>2, <2>3
<1>2. CASE mine # <<>> /\ all # <<>>
  <2> PICK merged : merged = [field \in {"user", "port", "timeout"} |->
                        IF mine[1][field] = "unset" THEN all[1][field] ELSE mine[1][field]]
    OBVIOUS
  <2>1. mergeSSH(mine, all) = <<merged>>
    BY <1>2 DEF mergeSSH
  <2>2. mine \o all # <<>>
    BY <1>2, OptionalConcat
  <2>3. <<merged>> # <<>> /\ <<merged>>[1] = merged
    OBVIOUS
  <2> QED BY <1>2, <2>1, <2>2, <2>3
<1> QED BY <1>1, <1>2

\* mergeGlobals, for the lists of the rsync config of a host.
LEMMA MergeRSyncExact ==
    ASSUME NEW mine \in Optional(RsyncConfig), NEW all \in Optional(RsyncConfig)
    PROVE  LET rsync   == mergeRSync(mine, all)
               list(r, k) == IF r = <<>> THEN <<>> ELSE r[1].list[k]
           IN  /\ rsync = <<>> <=> mine \o all = <<>>
               /\ rsync # <<>> => \A k \in Kind :
                     rsync[1].list[k] = IF mine # <<>> /\ mine[1].override[k] THEN list(mine, k)
                                        ELSE list(mine, k) \o list(all, k)
<1>1. \A r \in Optional(RsyncConfig) : r # <<>> => \A k \in Kind : r[1].list[k] \in Seq(STRING)
  <2>1. \A r \in RsyncConfig : r.list \in [Kind -> Seq(STRING)]
    BY DEF RsyncConfig
  <2> QED BY <2>1, OptionalValue
<1>2. \A s \in Seq(STRING) : s \o <<>> = s /\ <<>> \o s = s
  <2> PICK S : S = STRING
    OBVIOUS
  <2>1. \A s \in Seq(S) : s \o <<>> = s /\ <<>> \o s = s
    OBVIOUS
  <2> QED BY <2>1
<1>3. CASE mine = <<>> \/ all = <<>>
  <2>1. mergeRSync(mine, all) = mine \o all
    BY <1>3 DEF mergeRSync
  <2>2. mine # <<>> => mergeRSync(mine, all) = mine /\ all = <<>>
    BY <1>3, <2>1, OptionalConcat
  <2>3. mine = <<>> => mergeRSync(mine, all) = all
    BY <1>3, <2>1, OptionalConcat
  <2>4. CASE mine # <<>>
    BY <1>1, <1>2, <2>1, <2>2, <2>4
  <2>5. CASE mine = <<>>
    BY <1>1, <1>2, <2>1, <2>3, <2>5
  <2> QED BY <2>4, <2>5
<1>4. CASE mine # <<>> /\ all # <<>>
  <2> PICK lists : lists = [k \in Kind |-> IF mine[1].override[k] THEN mine[1].list[k]
                                          ELSE mine[1].list[k] \o all[1].list[k]]
    OBVIOUS
  <2> PICK merged : merged = [mine[1] EXCEPT !.list = lists]
    OBVIOUS
  <2>1. mergeRSync(mine, all) = <<merged>>
    BY <1>4 DEF mergeRSync
  <2>2. mine \o all # <<>>
    BY <1>4, OptionalConcat
  <2>3. <<merged>> # <<>> /\ <<merged>>[1] = merged
    OBVIOUS
  <2>4. merged.list = lists
    <3>1. mine[1] \in [list : [Kind -> Seq(STRING)], override : [Kind -> BOOLEAN]]
      BY <1>4, OptionalValue DEF RsyncConfig
    <3> QED BY <3>1
  <2> QED BY <1>4, <2>1, <2>2, <2>3, <2>4
<1> QED BY <1>3, <1>4

\* A tree that is loaded has been read to the end.
LEMMA LoadedTree ==
    ASSUME TreeInv, Loaded
    PROVE  /\ Reading /\ HostsFit /\ SpareFits /\ disk \in Disks /\ root \in Roots
           /\ service = dir.service
           /\ DOMAIN hosts = DOMAIN dir.a \cup DOMAIN dir.b /\ DOMAIN dir.a \cap DOMAIN dir.b = {}
           /\ Hooked = DOMAIN hosts /\ Merged = DOMAIN hosts
<1>1. stage = "ok" /\ root # "" /\ Reading /\ HostsFit /\ SpareFits /\ service = dir.service
  BY DEF Loaded, TreeInv, Reading
<1>2. disk \in Disks /\ root \in Roots
  BY <1>1 DEF TreeInv, TreeTypeOK
<1> QED BY <1>1, <1>2 DEF HostsFit, FirstFiles, SecondFiles, Hooked, Merged

\* The tree is that of one directory, and all of it.
LEMMA TreeIsWhole == TreeInv => WholeTree
<1> SUFFICES ASSUME TreeInv, Loaded
             PROVE  /\ service = dir.service
                    /\ DOMAIN hosts = DOMAIN dir.a \cup DOMAIN dir.b
                    /\ DOMAIN dir.a \cap DOMAIN dir.b = {}
                    /\ \A h \in DOMAIN hosts :
                          /\ hosts[h].ssh = <<>> <=> FileOf(h).ssh \o dir.globals[1].ssh = <<>>
                          /\ hosts[h].ssh # <<>> => \A f \in DOMAIN hosts[h].ssh[1] :
                                hosts[h].ssh[1][f] = RefSSH(h, f)
                          /\ hosts[h].rsync = <<>> <=> FileOf(h).rsync \o dir.globals[1].rsync = <<>>
                          /\ hosts[h].rsync # <<>> => \A k \in Kind :
                                hosts[h].rsync[1].list[k] = RefRSync(h, k)
                          /\ \A w \in When : hosts[h].scripts[w] = RefHooks(h, w)
  BY DEF WholeTree
<1>1. /\ HostsFit /\ disk \in Disks /\ root \in Roots /\ service = dir.service
      /\ DOMAIN hosts = DOMAIN dir.a \cup DOMAIN dir.b /\ DOMAIN dir.a \cap DOMAIN dir.b = {}
      /\ Hooked = DOMAIN hosts /\ Merged = DOMAIN hosts
  BY LoadedTree
<1>2. dir.globals[1].ssh \in Optional(SSHConfig) /\ dir.globals[1].rsync \in Optional(RsyncConfig)
  BY <1>1, DirTypes, OptionalValue, FileTypes DEF HostsFit, Readable
<1>3. ASSUME NEW h \in DOMAIN hosts
      PROVE  /\ hosts[h].ssh = <<>> <=> FileOf(h).ssh \o dir.globals[1].ssh = <<>>
             /\ hosts[h].ssh # <<>> => \A f \in DOMAIN hosts[h].ssh[1] :
                   hosts[h].ssh[1][f] = RefSSH(h, f)
             /\ hosts[h].rsync = <<>> <=> FileOf(h).rsync \o dir.globals[1].rsync = <<>>
             /\ hosts[h].rsync # <<>> => \A k \in Kind :
                   hosts[h].rsync[1].list[k] = RefRSync(h, k)
             /\ \A w \in When : hosts[h].scripts[w] = RefHooks(h, w)
  <2>1. FileOf(h).ssh \in Optional(SSHConfig) /\ FileOf(h).rsync \in Optional(RsyncConfig)
    BY <1>1, FileTypes DEF HostsFit
  <2>2. hosts[h] = Config(h) /\ h \in Hooked /\ h \in Merged
    BY <1>1 DEF HostsFit
  <2>3. /\ hosts[h].ssh = mergeSSH(FileOf(h).ssh, dir.globals[1].ssh)
        /\ hosts[h].rsync = mergeRSync(FileOf(h).rsync, dir.globals[1].rsync)
        /\ \A w \in When : hosts[h].scripts[w] = RefHooks(h, w)
    BY <2>2 DEF Config
  <2>4. /\ hosts[h].ssh = <<>> <=> FileOf(h).ssh \o dir.globals[1].ssh = <<>>
        /\ hosts[h].ssh # <<>> => \A f \in DOMAIN hosts[h].ssh[1] :
              hosts[h].ssh[1][f] = RefSSH(h, f)
    BY <1>2, <2>1, <2>3, MergeSSHExact DEF RefSSH
  <2>5. /\ hosts[h].rsync = <<>> <=> FileOf(h).rsync \o dir.globals[1].rsync = <<>>
        /\ hosts[h].rsync # <<>> => \A k \in Kind :
              hosts[h].rsync[1].list[k] = RefRSync(h, k)
    BY <1>2, <2>1, <2>3, MergeRSyncExact DEF RefRSync
  <2> QED BY <2>3, <2>4, <2>5
<1> QED BY <1>1, <1>3

\* The slice of a host, in an array that begins with the global lines.
LEMMA MergedLines ==
    ASSUME NEW lines \in Lines, NEW own \in Lines, NEW array \in Lines,
           Begins(array, lines), Len(array) = Capacity(Len(lines))
    PROVE  LET merged == Inline(mergeInline(lines, own), array) IN
           /\ merged \in Lines
           /\ Len(merged) = Len(lines) + Len(own)
           /\ IsPrefix(lines, merged)
           /\ ~Fits(lines, own) \/ own = <<>> \/ Begins(array, lines \o own) => merged = lines \o own
<1> DEFINE all == lines \o own
           merged == Inline(mergeInline(lines, own), array)
<1>1. /\ all \in Lines /\ Len(lines) \in Nat /\ Len(own) \in Nat /\ Len(array) \in Nat
      /\ Len(all) = Len(lines) + Len(own)
      /\ \A n \in 1..Len(lines) : all[n] = lines[n]
  BY LinesConcat
<1>2. CASE ~Fits(lines, own)
  <2>1. merged = all
    BY <1>2 DEF mergeInline, Inline, Own
  <2> HIDE DEF merged, all
  <2>2. IsPrefix(lines, all)
    BY <1>1, LinesPrefix
  <2> QED BY <1>1, <2>1, <2>2 DEF merged, all
<1>3. CASE Fits(lines, own)
  <2>1. merged = SubSeq(array, 1, Len(all))
    BY <1>3 DEF mergeInline, Inline, Shared
  <2>2. Len(all) \in 0..Len(array)
    BY <1>1, <1>3 DEF Fits
  <2> HIDE DEF merged, all
  <2>3. /\ merged \in Lines /\ Len(merged) = Len(all)
        /\ \A n \in 1..Len(all) : merged[n] = array[n]
    BY <2>1, <2>2, LinesSlice
  <2>4. \A n \in 1..Len(lines) : merged[n] = lines[n]
    BY <1>1, <2>3 DEF Begins
  <2>5. IsPrefix(lines, merged)
    BY <1>1, <2>3, <2>4, LinesPrefix
  <2>6. ASSUME own = <<>> \/ Begins(array, all) PROVE merged = all
    <3>1. ASSUME NEW n \in 1..Len(merged) PROVE merged[n] = all[n]
      <4>1. CASE Begins(array, all)
        BY <2>3, <4>1 DEF Begins
      <4>2. CASE own = <<>>
        <5>1. Len(own) = 0
          BY <4>2
        <5> QED BY <1>1, <2>3, <2>4, <5>1
      <4> QED BY <2>6, <4>1, <4>2
    <3> QED BY <1>1, <2>3, <3>1, LinesEqual
  <2> QED BY <1>1, <1>3, <2>3, <2>5, <2>6 DEF merged, all
<1> QED BY <1>2, <1>3

\* The inline scripts, but for two writers into one array.
LEMMA TreeInlineExact == TreeInv => InlineExact
<1> SUFFICES ASSUME TreeInv, Loaded, NEW h \in DOMAIN hosts, NEW w \in When
             PROVE  LET lines == Inline(hosts[h].inline[w], spare[w]) IN
                    /\ Len(lines) = Len(RefGlobal(w)) + Len(RefInline(h, w))
                    /\ IsPrefix(RefGlobal(w), lines)
                    /\ \/ lines = RefGlobal(w) \o RefInline(h, w)
                       \/ h \in Writers(w) /\ Writers(w) # {h}
  BY DEF InlineExact
<1>1. HostsFit /\ SpareFits /\ disk \in Disks /\ root \in Roots /\ Merged = DOMAIN hosts
  BY LoadedTree
<1>2. RefGlobal(w) \in Lines /\ RefInline(h, w) \in Lines
  BY <1>1, ScriptTypes DEF HostsFit
<1>3. hosts[h].inline[w] = mergeInline(RefGlobal(w), RefInline(h, w))
  <2>1. hosts[h] = Config(h) /\ h \in Merged
    BY <1>1 DEF HostsFit
  <2> QED BY <2>1 DEF Config
<1>4. /\ spare[w] \in Lines /\ Len(spare[w]) = Capacity(Len(RefGlobal(w)))
      /\ Begins(spare[w], RefGlobal(w))
      /\ \A g \in Wrote(w) : Wrote(w) = {g} => Begins(spare[w], RefGlobal(w) \o RefInline(g, w))
  BY <1>1 DEF SpareFits
<1>5. Wrote(w) = Writers(w)
  BY <1>1 DEF Wrote, Writers
<1>6. h \in Writers(w) <=> RefInline(h, w) # <<>> /\ Fits(RefGlobal(w), RefInline(h, w))
  BY DEF Writers
<1>7. Writers(w) = {h} => Begins(spare[w], RefGlobal(w) \o RefInline(h, w))
  BY <1>4, <1>5
<1> QED BY <1>2, <1>3, <1>4, <1>6, <1>7, MergedLines

----------------------------------------------------------------------------
(* The inductive invariant of the process.                                 *)

\* What SetLevel has made of a level, or has left.
Leveled(asked) ==
    IF asked \in Names \ {"panic"} THEN level = ParseLevel(asked) /\ std = level
    ELSE level = Panic /\ std = Info

\* How many entries initConfig has logged, at most.
Written == IF pc = "start" THEN 0 ELSE IF pc = "reload" THEN 1 ELSE IF pc = "fatal" THEN 3 ELSE 2

ProcTypes ==
    /\ level \in 0..6 /\ std \in 0..6 /\ hook \in {"none"} \cup {c.gelf : c \in Invocations}
    /\ logged \in 0..MaxEntries /\ call \in Invocations
    /\ pc \in {"start", "reload", "load", "command", "flush", "exit", "fatal"}
    /\ pool \in Int /\ known \subseteq DOMAIN hosts
    /\ pending \in Nat /\ pending <= logged + Written

ProcInv ==
    /\ ProcTypes
    /\ pc = "start" => /\ level = Panic /\ std = Info
                       /\ root = "" /\ stage = "idle" /\ known = {}
    /\ pc # "start" => root = treeRoot /\ stage # "idle"
    /\ pc = "reload" => known = {} /\ Leveled(Verbosity)
    /\ pc \in {"load", "command", "flush", "exit"} =>
          /\ stage = "ok"
          /\ root # "" => pool = dir.service[1].parallel
    /\ pc \in {"load", "command"} => Leveled(Asked)
    /\ pc \in {"command", "flush", "exit"} => known = DOMAIN hosts
    /\ pc = "exit" => pending = 0

StartInv == TreeInv /\ ProcInv

\* The level that is asked for is the one that is set.
LEMMA SetLevelExact ==
    ASSUME NEW asked, level = Panic, std = Info, SetLevel(asked)
    PROVE  Leveled(asked)' /\ level' \in 0..6 /\ std' \in 0..6
<1>1. /\ asked \in Names => ParseLevel(asked) \in 0..6
      /\ asked \in Names \ {"panic"} => ParseLevel(asked) # Panic
      /\ asked = "panic" => ParseLevel(asked) = Panic
  BY DEF Names, ParseLevel, Panic, Fatal, Info, Debug
<1>2. Panic \in 0..6 /\ Info \in 0..6 /\ Panic' = Panic /\ Info' = Info
  BY DEF Panic, Info
<1>3. CASE asked \in Names \ {"panic"}
  BY <1>1, <1>2, <1>3 DEF SetLevel, Leveled
<1>4. CASE asked \notin Names \ {"panic"}
  BY <1>1, <1>2, <1>4 DEF SetLevel, Leveled
<1> QED BY <1>3, <1>4

\* An entry goes to the hook, or does not.
LEMMA LogOnce ==
    ASSUME pending \in Nat, NEW entry, Log(entry)
    PROVE  pending' \in Nat /\ pending' <= pending + 1
BY DEF Log

\* The first state.
LEMMA StartInvInit == Init => StartInv
<1> SUFFICES ASSUME Init PROVE StartInv
  OBVIOUS
<1>1. /\ disk \in Disks /\ root = "" /\ stage = "idle" /\ todo = {} /\ service = <<>>
      /\ DOMAIN hosts = {}
      /\ level = Panic /\ hook = "none" /\ std = Info /\ pending = 0
      /\ call \in Invocations /\ pc = "start" /\ pool = -1 /\ known = {} /\ logged = 0
  BY DEF Init, TreeInit, GlInit
<1>2. TreeTypeOK
  BY <1>1 DEF TreeTypeOK
<1>3. TreeInv
  BY <1>1, <1>2 DEF TreeInv, NothingYet, Reading
<1>4. ProcTypes
  <2>0. Written = 0
    BY <1>1 DEF Written
  <2>1. Panic \in 0..6 /\ Info \in 0..6
    BY DEF Panic, Info
  <2>2. 0 \in 0..MaxEntries /\ -1 \in Int /\ 0 \in Nat /\ 0 <= 0 + 0
    BY MaxEntriesAssumption
  <2>3. hook \in {"none"} \cup {c.gelf : c \in Invocations} /\ known \subseteq DOMAIN hosts
    BY <1>1
  <2> QED BY <1>1, <2>0, <2>1, <2>2, <2>3 DEF ProcTypes
<1> QED BY <1>1, <1>3, <1>4 DEF StartInv, ProcInv

\* initConfig sets up the logging and calls SetRoot.
LEMMA BeginStep ==
    ASSUME StartInv, BeginInit
    PROVE  StartInv'
<1>1. /\ pc = "start" /\ level = Panic /\ std = Info /\ root = "" /\ stage = "idle" /\ known = {}
      /\ pc' = "reload" /\ UNCHANGED <<call, disk, pool, known, logged>>
      /\ SetEndpoint(call.gelf) /\ SetLevel(Verbosity) /\ SetRoot(treeRoot)
      /\ TreeInv /\ ProcTypes
  BY DEF StartInv, ProcInv, BeginInit
<1>2. treeRoot \in Roots \cup {""} /\ treeRoot' = treeRoot /\ Verbosity' = Verbosity
  <2>1. call.flag \in Roots \cup {""} /\ call.env \in Roots \cup {""}
    BY <1>1, InvocationsAssumption DEF ProcTypes
  <2> QED BY <1>1, <2>1 DEF treeRoot, Verbosity
<1>3. TreeInv' /\ root' = treeRoot /\ stage' # "idle" /\ DOMAIN hosts' = DOMAIN hosts
  BY <1>1, <1>2, SetRootStep
<1>4. Leveled(Verbosity)' /\ level' \in 0..6 /\ std' \in 0..6
  <2> PICK asked : asked = Verbosity
    OBVIOUS
  <2>1. Leveled(asked)' /\ level' \in 0..6 /\ std' \in 0..6
    BY <1>1, SetLevelExact
  <2> QED BY <1>2, <2>1 DEF Leveled
<1>5. pending' \in Nat /\ pending' <= pending + 1
  <2>1. pending \in Nat
    BY <1>1 DEF ProcTypes
  <2>2. pending' = pending \/ Log(Debug)
    BY DEF BeginInit
  <2> QED BY <2>1, <2>2, LogOnce
<1>6. ProcTypes'
  <2>1. hook' \in {"none"} \cup {c.gelf : c \in Invocations}
    BY <1>1 DEF SetEndpoint, ProcTypes
  <2>2. Written = 0 /\ Written' = 1
    BY <1>1 DEF Written
  <2>3. logged \in 0..MaxEntries /\ pending \in Nat /\ pending <= logged + 0
    BY <1>1, <2>2 DEF ProcTypes
  <2>4. pending' <= logged' + 1
    <3>1. logged' = logged
      BY <1>1
    <3> QED BY <1>5, <2>3, <3>1, MaxEntriesAssumption
  <2> QED BY <1>1, <1>3, <1>4, <1>5, <2>1, <2>2, <2>4 DEF ProcTypes
<1> QED BY <1>1, <1>2, <1>3, <1>4, <1>6 DEF StartInv, ProcInv

\* The tree is read.
LEMMA ReloadStepStep ==
    ASSUME StartInv, ReloadStep
    PROVE  StartInv'
<1>1. /\ pc = "reload" /\ Reload /\ TreeInv /\ ProcInv
      /\ UNCHANGED <<call, disk, level, hook, std, pending, pc, pool, known, logged>>
  BY DEF StartInv, ReloadStep, glVars, procVars
<1>2. TreeInv'
  BY <1>1, ReloadStepInv
<1>3. root' = root /\ stage' # "idle"
  BY <1>1 DEF Reload, ReadService, ReadGlobals, ReadGlob, readHostConfig, ReadHooks, Merge, NextStage,
             ProcInv
<1>4. treeRoot' = treeRoot /\ Verbosity' = Verbosity
  BY <1>1 DEF treeRoot, Verbosity
<1>5. ProcTypes'
  BY <1>1 DEF ProcInv, ProcTypes, Written
<1>6. Leveled(Verbosity)'
  BY <1>1, <1>4 DEF ProcInv, Leveled
<1> QED BY <1>1, <1>2, <1>3, <1>4, <1>5, <1>6 DEF StartInv, ProcInv

\* After the tree has been read, nothing writes to it any more.
LEMMA TreeStays ==
    ASSUME TreeInv, UNCHANGED <<disk, treeVars>>
    PROVE  TreeInv'
<1>1. UNCHANGED <<disk, root, stage, todo, service, global, spare, hosts>>
  BY DEF treeVars
<1>2. dir' = dir /\ \A h : FileOf(h)' = FileOf(h)
  BY <1>1, SameDir
<1>3. FirstFiles' = FirstFiles /\ SecondFiles' = SecondFiles /\ Hooked' = Hooked /\ Merged' = Merged
  BY <1>1, <1>2 DEF FirstFiles, SecondFiles, Hooked, Merged
<1>4. HostsFit => HostsFit'
  <2>1. \A h \in DOMAIN hosts : Config(h)' = Config(h)
    BY <1>1, <1>3, SameConfig
  <2> QED BY <1>1, <1>2, <1>3, <2>1 DEF HostsFit
<1>5. SpareFits => SpareFits'
  <2>1. \A w : RefGlobal(w)' = RefGlobal(w) /\ \A h : RefInline(h, w)' = RefInline(h, w)
    BY <1>1, SameDir
  <2>2. \A w \in When : Wrote(w)' = Wrote(w)
    BY <1>3, <2>1 DEF Wrote, Fits
  <2> QED BY <1>1, <2>2, SpareKept
<1>6. TreeTypeOK'
  BY <1>1, <1>2 DEF TreeInv, TreeTypeOK
<1> QED BY <1>1, <1>2, <1>4, <1>5, <1>6 DEF TreeInv, NothingYet, Reading, Loops

\* initConfig ends: the level of the config, and the size of the queue.
LEMMA EndStep ==
    ASSUME StartInv, EndInit
    PROVE  StartInv'
<1>1. /\ pc = "reload" /\ stage = "ok" /\ TreeInv /\ ProcTypes
      /\ known = {} /\ Leveled(Verbosity) /\ root = treeRoot
      /\ UNCHANGED <<call, disk, treeVars, known, logged, hook>>
      /\ pc' \in {"load", "command"}
  BY DEF StartInv, ProcInv, EndInit
<1>2. UNCHANGED <<root, stage, todo, service, global, spare, hosts>> /\ dir' = dir
  BY <1>1, SameDir DEF treeVars
<1>3. TreeInv'
  BY <1>1, TreeStays
<1>4. Verbosity' = Verbosity /\ Asked' = Asked /\ treeRoot' = treeRoot
  <2>1. Verbosity' = Verbosity /\ treeRoot' = treeRoot
    BY <1>1 DEF Verbosity, treeRoot
  <2> QED BY <1>1, <1>2, <2>1 DEF Asked
<1>5. Leveled(Asked)' /\ level' \in 0..6 /\ std' \in 0..6
  <2>1. CASE service # <<>> /\ call.verbosity = 0
    <3>1. Verbosity = "" /\ Asked = service[1].level
      BY <2>1 DEF Verbosity, Asked
    <3>2. level = Panic /\ std = Info
      BY <1>1, <3>1 DEF Leveled, Names
    <3> PICK asked : asked = Asked
      OBVIOUS
    <3>3. SetLevel(asked)
      BY <2>1, <3>1 DEF EndInit
    <3>4. Leveled(asked)' /\ level' \in 0..6 /\ std' \in 0..6
      BY <3>2, <3>3, SetLevelExact
    <3> QED BY <1>4, <3>4 DEF Leveled
  <2>2. CASE ~(service # <<>> /\ call.verbosity = 0)
    <3>1. Asked = Verbosity /\ UNCHANGED <<level, std>>
      BY <2>2 DEF Asked, EndInit
    <3> QED BY <1>1, <1>4, <3>1 DEF Leveled, ProcTypes
  <2> QED BY <2>1, <2>2
<1>6. pending' \in Nat /\ pending' <= pending + 1
  BY <1>1 DEF EndInit, ProcTypes
<1>7. /\ service # <<>> => pc' = "load" /\ pool' = service[1].parallel /\ service[1].parallel \in Int
                           /\ service = dir.service
      /\ service = <<>> => pc' = "command" /\ pool' = pool /\ root = "" /\ DOMAIN hosts = {}
  <2>1. ASSUME service # <<>> PROVE service[1].parallel \in Int /\ service = dir.service
    <3>1. service = dir.service /\ disk \in Disks /\ root \in Roots
      BY <1>1, <2>1, LoadedTree DEF Loaded
    <3>2. dir.service \in Optional([parallel : 0..255, level : STRING])
      BY <3>1, DisksAssumption DEF dir
    <3>3. service[1] \in [parallel : 0..255, level : STRING]
      BY <2>1, <3>1, <3>2, OptionalValue
    <3> QED BY <3>1, <3>3
  <2>2. ASSUME service = <<>> PROVE root = "" /\ DOMAIN hosts = {}
    BY <1>1, <2>2 DEF TreeInv, Reading, NothingYet
  <2> QED BY <2>1, <2>2 DEF EndInit
<1>8. ProcTypes'
  <2>1. Written' = 2 /\ Written = 1
    BY <1>1 DEF Written
  <2>2. pool' \in Int
    BY <1>1, <1>7 DEF ProcTypes
  <2> QED BY <1>1, <1>2, <1>5, <1>6, <2>1, <2>2 DEF ProcTypes
<1>9. root' # "" => pool' = dir'.service[1].parallel
  BY <1>2, <1>7
<1>10. pc' = "command" => known' = DOMAIN hosts'
  BY <1>1, <1>2, <1>7
<1> QED BY <1>1, <1>2, <1>3, <1>4, <1>5, <1>8, <1>9, <1>10 DEF StartInv, ProcInv

\* What a step of the process does not touch, when it leaves the tree alone.
LEMMA SameTree ==
    ASSUME StartInv, UNCHANGED <<call, disk, treeVars>>
    PROVE  /\ TreeInv' /\ UNCHANGED <<root, stage, service, hosts>> /\ dir' = dir
           /\ treeRoot' = treeRoot /\ Verbosity' = Verbosity /\ Asked' = Asked
<1>1. TreeInv' /\ UNCHANGED <<root, stage, service, hosts>>
  BY TreeStays DEF StartInv, treeVars
<1>2. dir' = dir
  BY <1>1, SameDir
<1>3. treeRoot' = treeRoot /\ Verbosity' = Verbosity
  BY DEF treeRoot, Verbosity
<1>4. Asked' = Asked
  BY <1>1, <1>3 DEF Asked
<1> QED BY <1>1, <1>2, <1>3, <1>4

\* Fatalf logs one more entry.
LEMMA FatalStep ==
    ASSUME StartInv, pc \in {"reload", "load"}, Fatalf,
           UNCHANGED <<call, disk, treeVars, pool, known, logged>>
    PROVE  StartInv'
<1>1. /\ TreeInv' /\ UNCHANGED <<root, stage, service, hosts>> /\ treeRoot' = treeRoot
      /\ UNCHANGED <<call, pool, known, logged, level, hook, std>> /\ pc' = "fatal" /\ Log(Fatal)
  BY SameTree DEF Fatalf
<1>2. ProcTypes /\ root = treeRoot /\ stage # "idle"
  BY DEF StartInv, ProcInv
<1>3. ProcTypes'
  <2>1. Written \in 1..2 /\ Written' = 3
    BY <1>1 DEF Written
  <2>2. logged \in 0..MaxEntries /\ pending \in Nat /\ pending <= logged + Written
    BY <1>2 DEF ProcTypes
  <2>3. pending' \in Nat /\ pending' <= pending + 1
    BY <1>1, <2>2, LogOnce
  <2>4. pending' <= logged + 3
    BY <2>1, <2>2, <2>3, MaxEntriesAssumption
  <2> QED BY <1>1, <1>2, <2>1, <2>3, <2>4 DEF ProcTypes
<1> QED BY <1>1, <1>2, <1>3 DEF StartInv, ProcInv

\* The state is loaded, host by host.
LEMMA LoadHostStep ==
    ASSUME StartInv, LoadHost
    PROVE  StartInv'
<1>1. /\ pc = "load" /\ known' \subseteq DOMAIN hosts
      /\ UNCHANGED <<call, disk, treeVars, level, hook, std, pending, pc, pool, logged>>
      /\ ProcInv
  BY DEF StartInv, LoadHost, ProcInv, ProcTypes, glVars
<1>2. /\ TreeInv' /\ UNCHANGED <<root, stage, service, hosts>> /\ dir' = dir
      /\ treeRoot' = treeRoot /\ Asked' = Asked
  BY <1>1, SameTree
<1>3. ProcTypes'
  BY <1>1, <1>2 DEF ProcInv, ProcTypes, Written
<1>4. Leveled(Asked)'
  BY <1>1, <1>2 DEF ProcInv, Leveled
<1> QED BY <1>1, <1>2, <1>3, <1>4 DEF StartInv, ProcInv

\* The state is loaded, and the command runs; it ends, and the log is flushed.
LEMMA AdvanceStep ==
    ASSUME StartInv, UNCHANGED <<call, disk, treeVars, glVars, pool, known, logged>>,
           \/ pc = "load" /\ known = DOMAIN hosts /\ pc' = "command"
           \/ pc = "command" /\ pc' = "flush"
           \/ pc = "flush" /\ pending = 0 /\ pc' = "exit"
    PROVE  StartInv'
<1>1. UNCHANGED <<call, level, hook, std, pending, pool, known, logged>> /\ ProcInv
  BY DEF StartInv, glVars
<1>2. /\ TreeInv' /\ UNCHANGED <<root, stage, service, hosts>> /\ dir' = dir
      /\ treeRoot' = treeRoot /\ Asked' = Asked
  BY SameTree
<1>3. ProcTypes'
  <2>1. Written' = Written
    BY DEF Written
  <2> QED BY <1>1, <1>2, <2>1 DEF ProcInv, ProcTypes
<1>4. pc \in {"load", "command"} => Leveled(Asked)'
  BY <1>1, <1>2 DEF ProcInv, Leveled
<1> QED BY <1>1, <1>2, <1>3, <1>4 DEF StartInv, ProcInv

\* The command logs an entry.
LEMMA CommandLogsStep ==
    ASSUME StartInv, CommandLogs
    PROVE  StartInv'
<1>1. /\ pc = "command" /\ logged < MaxEntries /\ logged' = logged + 1 /\ ProcInv
      /\ UNCHANGED <<call, disk, treeVars, level, hook, std, pc, pool, known>>
  BY DEF StartInv, CommandLogs
<1>2. /\ TreeInv' /\ UNCHANGED <<root, stage, service, hosts>> /\ dir' = dir
      /\ treeRoot' = treeRoot /\ Asked' = Asked
  BY <1>1, SameTree
<1>3. ProcTypes'
  <2>1. Written = 2 /\ Written' = 2
    BY <1>1 DEF Written
  <2>2. logged \in 0..MaxEntries /\ pending \in Nat /\ pending <= logged + Written
    BY <1>1 DEF ProcInv, ProcTypes
  <2>3. pending' \in Nat /\ pending' <= pending + 1
    BY <2>2, LogOnce DEF CommandLogs
  <2>4. logged' \in 0..MaxEntries /\ pending' <= logged' + 2
    BY <1>1, <2>1, <2>2, <2>3, MaxEntriesAssumption
  <2> QED BY <1>1, <1>2, <2>1, <2>3, <2>4 DEF ProcInv, ProcTypes
<1>4. Leveled(Asked)'
  BY <1>1, <1>2 DEF ProcInv, Leveled
<1> QED BY <1>1, <1>2, <1>3, <1>4 DEF StartInv, ProcInv

\* The hook sends an entry.
LEMMA SenderStep ==
    ASSUME StartInv, Sender
    PROVE  StartInv'
<1>1. /\ pc \notin {"exit", "fatal"} /\ pending > 0 /\ pending' = pending - 1 /\ ProcInv
      /\ UNCHANGED <<call, disk, treeVars, level, hook, std, pc, pool, known, logged>>
  BY DEF StartInv, Sender, Deliver, procVars
<1>2. /\ TreeInv' /\ UNCHANGED <<root, stage, service, hosts>> /\ dir' = dir
      /\ treeRoot' = treeRoot /\ Verbosity' = Verbosity /\ Asked' = Asked
  BY <1>1, SameTree
<1>3. ProcTypes'
  <2>1. Written \in 0..3 /\ Written' = Written
    BY <1>1 DEF Written
  <2>2. logged \in 0..MaxEntries /\ pending \in Nat /\ pending <= logged + Written
    BY <1>1 DEF ProcInv, ProcTypes
  <2>3. pending' \in Nat /\ pending' <= logged + Written
    BY <1>1, <2>1, <2>2, MaxEntriesAssumption
  <2> QED BY <1>1, <1>2, <2>1, <2>3 DEF ProcInv, ProcTypes
<1>4. /\ Leveled(Verbosity) => Leveled(Verbosity)'
      /\ Leveled(Asked) => Leveled(Asked)'
  BY <1>1, <1>2 DEF Leveled
<1> QED BY <1>1, <1>2, <1>3, <1>4 DEF StartInv, ProcInv

\* Nothing happens.
LEMMA StutterStep ==
    ASSUME StartInv, UNCHANGED vars
    PROVE  StartInv'
<1>1. /\ UNCHANGED <<call, disk, treeVars, level, hook, std, pending, pc, pool, known, logged>>
      /\ ProcInv
  BY DEF StartInv, vars, diskVars, glVars, procVars
<1>2. /\ TreeInv' /\ UNCHANGED <<root, stage, service, hosts>> /\ dir' = dir
      /\ treeRoot' = treeRoot /\ Verbosity' = Verbosity /\ Asked' = Asked
  BY <1>1, SameTree
<1>3. ProcTypes'
  BY <1>1, <1>2 DEF ProcInv, ProcTypes, Written
<1>4. /\ Leveled(Verbosity) => Leveled(Verbosity)'
      /\ Leveled(Asked) => Leveled(Asked)'
  BY <1>1, <1>2 DEF Leveled
<1> QED BY <1>1, <1>2, <1>3, <1>4 DEF StartInv, ProcInv

\* Every step keeps the invariant.
LEMMA StartInvNext == StartInv /\ [Next]_vars => StartInv'
<1> SUFFICES ASSUME StartInv, [Next]_vars PROVE StartInv'
  OBVIOUS
<1>1. CASE BeginInit
  BY <1>1, BeginStep
<1>2. CASE ReloadStep
  BY <1>2, ReloadStepStep
<1>3. CASE ReloadFails
  BY <1>3, FatalStep DEF ReloadFails
<1>4. CASE EndInit
  BY <1>4, EndStep
<1>5. CASE LoadHost
  BY <1>5, LoadHostStep
<1>6. CASE LoadFails
  BY <1>6, FatalStep DEF LoadFails
<1>7. CASE LoadEnds
  BY <1>7, AdvanceStep DEF LoadEnds
<1>8. CASE CommandLogs
  BY <1>8, CommandLogsStep
<1>9. CASE CommandEnds
  BY <1>9, AdvanceStep DEF CommandEnds
<1>10. CASE Exit
  BY <1>10, AdvanceStep DEF Exit, Flushed
<1>11. CASE Sender
  BY <1>11, SenderStep
<1>12. CASE UNCHANGED vars
  BY <1>12, StutterStep
<1> QED BY <1>1, <1>2, <1>3, <1>4, <1>5, <1>6, <1>7, <1>8, <1>9, <1>10, <1>11, <1>12
        DEF Next, Main, Ended

\* It holds in every state of every process.
LEMMA StartInvAlways == Spec => []StartInv
BY StartInvInit, StartInvNext, PTL DEF Spec

----------------------------------------------------------------------------
(* The theorems.                                                           *)

\* Every variable keeps its type: shared slices lie within their array, and no
\* more entries wait for Graylog than have been logged.
THEOREM StartTypes == Spec => []TypeOK
<1>1. StartInv => TypeOK
  <2> SUFFICES ASSUME StartInv PROVE TypeOK
    OBVIOUS
  <2>1. TreeTypeOK /\ ProcTypes
    BY DEF StartInv, TreeInv, ProcInv
  <2>2. pending \in 0..MaxEntries + 3
    <3>1. pending \in Nat /\ pending <= logged + Written /\ logged \in 0..MaxEntries
      BY <2>1 DEF ProcTypes
    <3>2. Written \in 0..3
      BY DEF Written
    <3> QED BY <3>1, <3>2, MaxEntriesAssumption
  <2> QED BY <2>1, <2>2 DEF TypeOK, ProcTypes
<1> QED BY <1>1, StartInvAlways, PTL

\* A tree that is loaded is the tree of one directory and all of it, for every
\* directory and in whatever order the maps are walked (reload, mergeGlobals).
THEOREM StartTreeIsWhole == Spec => []WholeTree
<1>1. StartInv => WholeTree
  BY TreeIsWhole DEF StartInv
<1> QED BY <1>1, StartInvAlways, PTL

\* A host runs the global inline script and then its own, but for those that
\* share the spare room of the global array (append in mergeGlobals).
THEOREM StartInlineExact == Spec => []InlineExact
<1>1. StartInv => InlineExact
  BY TreeInlineExact DEF StartInv
<1> QED BY <1>1, StartInvAlways, PTL

\* A command runs after all of initConfig or not at all.
THEOREM StartCommandHasState == Spec => []CommandHasState
<1>1. StartInv => CommandHasState
  <2> SUFFICES ASSUME StartInv, pc \in {"command", "flush", "exit"}
               PROVE  /\ stage = "ok" /\ known = DOMAIN hosts
                      /\ IF treeRoot = "" THEN service = <<>> /\ known = {}
                         ELSE root = treeRoot /\ pool = disk[treeRoot].service[1].parallel
    BY DEF CommandHasState
  <2>1. /\ stage = "ok" /\ known = DOMAIN hosts /\ root = treeRoot
        /\ root # "" => pool = dir.service[1].parallel
    BY DEF StartInv, ProcInv
  <2>2. root = "" => service = <<>> /\ DOMAIN hosts = {}
    BY DEF StartInv, TreeInv, NothingYet
  <2> QED BY <2>1, <2>2 DEF dir
<1> QED BY <1>1, StartInvAlways, PTL

\* While a command runs, Graylog gets what the terminal shows, at the level
\* asked for (SetLevel, whose zero level hides a config's "panic").
THEOREM StartLevelsAgree == Spec => []LevelsAgree
<1>1. StartInv => LevelsAgree
  BY DEF StartInv, ProcInv, LevelsAgree, Leveled
<1> QED BY <1>1, StartInvAlways, PTL

\* Everything that was fired is sent before Execute returns (Flush).
THEOREM StartFlushedAtExit == Spec => []FlushedAtExit
<1>1. StartInv => FlushedAtExit
  BY DEF StartInv, ProcInv, FlushedAtExit
<1> QED BY <1>1, StartInvAlways, PTL
=============================================================================
