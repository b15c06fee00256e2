-------------------------- MODULE ConfigLoadProofs --------------------------
(***************************************************************************)
(* What Load makes of a file, and what becomes of it in the programs, for  *)
(* files of any number of lines and any number of saves and loads.  IInv   *)
(* is inductive: it says of the lines read so far what LoadedIsMeant says  *)
(* of the whole file.                                                      *)
(***************************************************************************)
EXTENDS ConfigLoad, FiniteSetTheorems, SequenceTheorems, TLAPS

Strings == Words \cup Members(DefaultKeys) \cup {"0.0.0.0"}
ListDirectives == UserLists \cup PathLists \cup {"hostkey"}

\* A Config has all directives, and those that HostKey and its like add to are lists.
ConfigOK(c) ==
  /\ DOMAIN c = Directives
  /\ \A d \in ListDirectives : c[d] \in Seq(Strings)

\* Config c is what text t says, which has no line that Load refuses.
Reads(t, c) ==
  /\ \A i \in DOMAIN t : Accepts(t[i])
  /\ \A d \in Directives : Means(t, d, c[d])

Types ==
  /\ disk \in Seq(Lines) \cup {Absent, Denied}
  /\ rest \in Seq(Lines) /\ (rest # << >> => disk \in Seq(Lines))
  /\ old \in Seq(Lines)
  /\ text \in Seq(Lines) \cup {Absent, Denied}
  /\ pos \in Nat
  /\ ConfigOK(cfg)

\* Load has its file open while it reads.  Unless somebody writes to it, that is the one
\* it has opened, and cfg is what the lines say that it has read.
Reading ==
  /\ fd # "none" <=> pc = "read"
  /\ pc = "read" => fd \in {"path", "old"} /\ (fd = "path" => disk \in Seq(Lines))
  /\ pc = "read" /\ ~torn =>
       View = text /\ pos <= Len(text) /\ Reads(SubSeq(text, 1, pos), cfg)

IInv ==
  /\ Types /\ Reading
  /\ program = "server" => port = 0
  /\ LoadedIsMeant /\ RunsAsWritten

----------------------------------------------------------------------------
(* One line more.                                                          *)

LEMMA AcceptedLine ==
  ASSUME NEW line \in Lines, Accepts(line), Known(line)
  PROVE  /\ line \in Seq(Words) /\ Len(line) \in Nat \ {0}
         /\ Tail(line) \in Seq(Words) /\ Len(Tail(line)) = Len(line) - 1
         /\ \A i \in 1..Len(Tail(line)) : Tail(line)[i] = line[i + 1]
         /\ Directive(line) \in Directives
<1>1. line \in Seq(Words) /\ line # << >>
  BY DEF Lines, Accepts, Known
<1> QED BY <1>1, HeadTailProperties DEF Known

\* Where a line takes one argument, or two.
LEMMA Arguments ==
  ASSUME NEW line \in Lines, Accepts(line), Known(line)
  PROVE  LET d == Directive(line)
             args == Tail(line)
         IN /\ d \notin UserLists \cup {"authorizedkeysfile", "subsystem"} =>
                 args = << line[2] >> /\ args[1] = line[2] /\ line[2] \in Words
            /\ d = "subsystem" => args[1] = line[2] /\ args[2] = line[3]
<1> DEFINE args == Tail(line)
<1>1. args \in Seq(Words) /\ \A i \in 1..Len(args) : args[i] = line[i + 1]
  BY AcceptedLine
<1>2. ASSUME Directive(line) \notin UserLists \cup {"authorizedkeysfile", "subsystem"}
      PROVE  args = << line[2] >> /\ args[1] = line[2] /\ line[2] \in Words
  <2>1. Len(args) = 1
    BY <1>2 DEF Accepts
  <2> HIDE DEF args
  <2>2. args[1] = line[2] /\ args[1] \in Words
    BY <1>1, <2>1
  <2>3. args = << args[1] >>
    BY <1>1, <2>1
  <2> QED BY <2>2, <2>3
<1>3. ASSUME Directive(line) = "subsystem"
      PROVE  args[1] = line[2] /\ args[2] = line[3]
  <2>1. Len(args) = 2
    BY <1>3 DEF Accepts, UserLists
  <2> HIDE DEF args
  <2> QED BY <1>1, <2>1
<1> QED BY <1>2, <1>3

LEMMA LinesOfAppend ==
  ASSUME NEW t \in Seq(Lines), NEW line \in Lines, NEW d
  PROVE  /\ LinesOf(t, d) \in SUBSET (1..Len(t)) /\ Len(t) \in Nat
         /\ \A i \in 1..Len(t) : Append(t, line)[i] = t[i]
         /\ Append(t, line)[Len(t) + 1] = line
         /\ LinesOf(Append(t, line), d) =
              IF Known(line) /\ Directive(line) = d THEN LinesOf(t, d) \cup {Len(t) + 1}
                                                    ELSE LinesOf(t, d)
BY DEF LinesOf

\* The numbers of a set of lines, with a later one.
LEMMA RankOfMore ==
  ASSUME NEW n \in Nat, NEW lines \in SUBSET (1..n)
  PROVE  LET more == lines \cup {n + 1}
         IN /\ IsFiniteSet(lines) /\ Cardinality(lines) \in Nat
            /\ Cardinality(more) = Cardinality(lines) + 1
            /\ \A i \in lines : /\ Rank(more, i) = Rank(lines, i)
                                /\ Rank(lines, i) \in 1..Cardinality(lines)
            /\ Rank(more, n + 1) = Cardinality(lines) + 1
<1> DEFINE more == lines \cup {n + 1}
<1>1. IsFiniteSet(lines) /\ Cardinality(lines) \in Nat
  <2>1. IsFiniteSet(1..n)
    BY FS_Interval
  <2>2. IsFiniteSet(lines)
    BY <2>1, FS_Subset
  <2> QED BY <2>2, FS_CardinalityType
<1>2. Cardinality(more) = Cardinality(lines) + 1
  BY <1>1, FS_AddElement
<1>3. ASSUME NEW i \in lines
      PROVE  Rank(more, i) = Rank(lines, i) /\ Rank(lines, i) \in 1..Cardinality(lines)
  <2> DEFINE upTo == {j \in lines : j <= i}
  <2>1. {j \in more : j <= i} = upTo
    OBVIOUS
  <2>2. IsFiniteSet(upTo) /\ Cardinality(upTo) <= Cardinality(lines)
    BY <1>1, FS_Subset
  <2>3. Cardinality(upTo) \in Nat /\ Cardinality(upTo) # 0
    <3>1. i \in upTo
      OBVIOUS
    <3> HIDE DEF upTo
    <3> QED BY <2>2, <3>1, FS_CardinalityType, FS_EmptySet
  <2> QED BY <1>1, <2>1, <2>2, <2>3 DEF Rank
<1>4. {j \in more : j <= n + 1} = more
  <2>1. \A j \in more : j \in 1..n + 1
    OBVIOUS
  <2> HIDE DEF more
  <2> QED BY <2>1
<1> QED BY <1>1, <1>2, <1>3, <1>4 DEF Rank

\* Means, by the kind of the directive.
LEMMA Kinds ==
  ASSUME NEW t, NEW d, NEW v, NEW lines, lines = LinesOf(t, d)
  PROVE  Means(t, d, v) <=>
           /\ lines = {} => v = Default[d]
           /\ lines # {} =>
                /\ d \in UserLists \cup PathLists => Adds(t, lines, d, v)
                /\ d = "hostkey" => Lists(t, lines, v)
                /\ d = "subsystem" => Binds(t, lines, v)
                /\ d \notin UserLists \cup PathLists \cup {"hostkey", "subsystem"} =>
                     EndsWith(t, lines, d, v)
BY DEF Means, UserLists, PathLists

\* What a text says depends on the lines about the directive only.
LEMMA OtherLines ==
  ASSUME NEW t, NEW u, NEW d, NEW v,
         LinesOf(u, d) = LinesOf(t, d), \A i \in LinesOf(t, d) : u[i] = t[i],
         Means(t, d, v)
  PROVE  Means(u, d, v)
<1> DEFINE lines == LinesOf(t, d)
<1> HIDE DEF lines
<1>1. LinesOf(t, d) = lines /\ LinesOf(u, d) = lines /\ \A i \in lines : u[i] = t[i]
  BY DEF lines
<1>2. Adds(u, lines, d, v) <=> Adds(t, lines, d, v)
  <2>1. Args(u, lines) = Args(t, lines)
    BY <1>1 DEF Args
  <2> QED BY <2>1 DEF Adds
<1>3. Lists(u, lines, v) <=> Lists(t, lines, v)
  <2>1. \A list : InOrder(u, lines, list) <=> InOrder(t, lines, list)
    BY <1>1 DEF InOrder
  <2> QED BY <2>1 DEF Lists, RepeatsDefaults
<1>4. Binds(u, lines, v) <=> Binds(t, lines, v)
  <2>1. {u[i][2] : i \in lines} = {t[i][2] : i \in lines}
    BY <1>1
  <2>2. \A i \in lines :
          /\ u[i][2] = t[i][2] /\ u[i][3] = t[i][3]
          /\ \A j \in lines : u[j][2] = u[i][2] <=> t[j][2] = t[i][2]
    BY <1>1
  <2>3. \A i \in lines :
          (v[u[i][2]] = u[i][3] \/ \E j \in lines : j > i /\ u[j][2] = u[i][2])
            <=> (v[t[i][2]] = t[i][3] \/ \E j \in lines : j > i /\ t[j][2] = t[i][2])
    BY <2>2
  <2> QED BY <2>1, <2>3 DEF Binds
<1>5. EndsWith(u, lines, d, v) <=> EndsWith(t, lines, d, v)
  BY <1>1 DEF EndsWith
<1> QED BY <1>1, <1>2, <1>3, <1>4, <1>5, Kinds

\* What a line does to a Config, directive by directive.
LEMMA AppliedBy ==
  ASSUME NEW c, ConfigOK(c), NEW line \in Lines, Accepts(line)
  PROVE  /\ ConfigOK(Applied(c, line))
         /\ \A e \in Directives :
              ~(Known(line) /\ e = Directive(line)) => Applied(c, line)[e] = c[e]
         /\ Known(line) =>
              LET d == Directive(line)
                  args == Tail(line)
                  v == Applied(c, line)[d]
              IN /\ d \in Scalars \cup Booleans => v = Value(d, line[2])
                 /\ d \in UserLists \cup PathLists => v = c[d] \o args
                 /\ d = "hostkey" => v = IF c[d] = DefaultKeys THEN args ELSE c[d] \o args
                 /\ d = "authorizedkeysfile" => v = args
                 /\ d = "subsystem" => v = Put(c[d], line[2], line[3])
<1> DEFINE d == Directive(line)
           args == Tail(line)
           new == Applied(c, line)
<1>1. CASE ~Known(line)
  <2>1. new = c
    BY <1>1 DEF Applied
  <2> QED BY <1>1, <2>1
<1>2. CASE Known(line)
  <2>1. args \in Seq(Words) /\ d \in Directives
    BY <1>2, AcceptedLine
  <2>2. DOMAIN c = Directives
    BY DEF ConfigOK
  <2>3. Default["hostkey"] = DefaultKeys
    BY DEF Default, Directives, Scalars, Booleans, UserLists, PathLists
  <2>4. /\ d \in Scalars \cup Booleans => new = [c EXCEPT ![d] = Value(d, args[1])]
        /\ d \in UserLists \cup PathLists => new = [c EXCEPT ![d] = @ \o args]
        /\ d = "hostkey" => new = [c EXCEPT ![d] = IF @ = Default[d] THEN args ELSE @ \o args]
        /\ d = "authorizedkeysfile" => new = [c EXCEPT ![d] = args]
        /\ d = "subsystem" => new = [c EXCEPT ![d] = Put(@, args[1], args[2])]
    BY <1>2 DEF Applied, Scalars, Booleans, UserLists, PathLists
  <2>5. /\ d \in Scalars \cup Booleans => args[1] = line[2]
        /\ d = "subsystem" => args[1] = line[2] /\ args[2] = line[3]
    BY <1>2, Arguments DEF Scalars, Booleans, UserLists
  <2> HIDE DEF new, args, d
  <2>6. \/ d \in Scalars \cup Booleans \/ d \in UserLists \cup PathLists
        \/ d = "hostkey" \/ d = "authorizedkeysfile" \/ d = "subsystem"
    BY <2>1 DEF Directives
  <2>7. /\ d \in Scalars \cup Booleans => new[d] = Value(d, line[2])
        /\ d \in UserLists \cup PathLists => new[d] = c[d] \o args
        /\ d = "hostkey" => new[d] = IF c[d] = DefaultKeys THEN args ELSE c[d] \o args
        /\ d = "authorizedkeysfile" => new[d] = args
        /\ d = "subsystem" => new[d] = Put(c[d], line[2], line[3])
    BY <2>1, <2>2, <2>3, <2>4, <2>5
  <2>8. /\ \A e \in Directives : e # d => new[e] = c[e]
        /\ DOMAIN new = Directives
    BY <2>1, <2>2, <2>4, <2>6
  <2>9. d \in ListDirectives => new[d] \in Seq(Strings)
    <3>1. args \in Seq(Strings)
      BY <2>1 DEF Strings
    <3>2. d \in ListDirectives => c[d] \in Seq(Strings)
      BY DEF ConfigOK
    <3>3. CASE d \in UserLists \cup PathLists
      <4>1. new[d] = c[d] \o args
        BY <2>7, <3>3
      <4>2. c[d] \in Seq(Strings)
        BY <3>2, <3>3 DEF ListDirectives
      <4> QED BY <3>1, <4>1, <4>2, ConcatProperties
    <3>4. CASE d = "hostkey"
      <4>1. new[d] = args \/ new[d] = c[d] \o args
        BY <2>7, <3>4
      <4>2. c[d] \in Seq(Strings)
        BY <3>2, <3>4 DEF ListDirectives
      <4> QED BY <3>1, <4>1, <4>2, ConcatProperties
    <3> QED BY <3>3, <3>4 DEF ListDirectives
  <2>10. ConfigOK(new)
    BY <2>8, <2>9 DEF ConfigOK, ListDirectives, Directives
  <2> QED BY <1>2, <2>7, <2>8, <2>10 DEF new, args, d
<1> QED BY <1>1, <1>2

\* The lists of words: every line adds its words.
LEMMA LineAdds ==
  ASSUME NEW t \in Seq(Lines), NEW line \in Lines, Accepts(line), Known(line),
         Directive(line) \in UserLists \cup PathLists,
         NEW v \in Seq(Strings), Means(t, Directive(line), v)
  PROVE  Means(Append(t, line), Directive(line), v \o Tail(line))
<1> DEFINE d == Directive(line)
           u == Append(t, line)
           n == Len(t)
           lines == LinesOf(t, d)
           args == Tail(line)
<1>1. /\ lines \in SUBSET (1..n) /\ n \in Nat
      /\ \A i \in 1..n : u[i] = t[i]
      /\ u[n + 1] = line
      /\ LinesOf(u, d) = lines \cup {n + 1}
  BY LinesOfAppend
<1>2. args \in Seq(Strings)
  BY AcceptedLine DEF Strings
<1>3. Members(v \o args) = Members(v) \cup Members(args)
  <2> HIDE DEF args
  <2>1. /\ v \o args \in Seq(Strings) /\ Len(v \o args) = Len(v) + Len(args)
        /\ Len(v) \in Nat /\ Len(args) \in Nat
        /\ DOMAIN v = 1..Len(v) /\ DOMAIN args = 1..Len(args)
        /\ DOMAIN (v \o args) = 1..(Len(v) + Len(args))
    BY <1>2, ConcatProperties
  <2>2. /\ \A i \in 1..Len(v) : (v \o args)[i] = v[i]
        /\ \A i \in 1..Len(args) : (v \o args)[Len(v) + i] = args[i]
    BY <1>2, <2>1, ConcatProperties
  <2>3. \A x \in Members(v \o args) : x \in Members(v) \cup Members(args)
    <3> SUFFICES ASSUME NEW i \in 1..(Len(v) + Len(args))
                 PROVE  (v \o args)[i] \in Members(v) \cup Members(args)
      BY <2>1 DEF Members
    <3>1. CASE i <= Len(v)
      BY <2>1, <2>2, <3>1 DEF Members
    <3>2. CASE i > Len(v)
      <4>1. i - Len(v) \in 1..Len(args) /\ i = Len(v) + (i - Len(v))
        BY <2>1, <3>2
      <4> QED BY <2>1, <2>2, <4>1 DEF Members
    <3> QED BY <2>1, <3>1, <3>2
  <2>4. \A x \in Members(v) \cup Members(args) : x \in Members(v \o args)
    <3>1. \A i \in 1..Len(v) : i \in DOMAIN (v \o args)
      BY <2>1
    <3>2. \A i \in 1..Len(args) : Len(v) + i \in DOMAIN (v \o args)
      BY <2>1
    <3> QED BY <2>1, <2>2, <3>1, <3>2 DEF Members
  <2> QED BY <2>3, <2>4
<1>4. Args(u, lines \cup {n + 1}) = Args(t, lines) \cup Members(args)
  <2>1. /\ \A i \in lines : Members(Tail(u[i])) = Members(Tail(t[i]))
        /\ Members(Tail(u[n + 1])) = Members(args)
    BY <1>1
  <2> HIDE DEF lines, u, n, args
  <2> QED BY <2>1 DEF Args
<1>5. Members(v) = Members(Default[d]) \cup Args(t, lines)
  <2>1. Means(t, d, v) <=> /\ lines = {} => v = Default[d]
                           /\ lines # {} => Adds(t, lines, d, v)
    <3> HIDE DEF d
    <3> QED BY Kinds DEF UserLists, PathLists, d
  <2>2. lines = {} => Args(t, lines) = {}
    BY DEF Args
  <2> QED BY <2>1, <2>2 DEF Adds
<1> HIDE DEF args, u, lines, n
<1>6. Adds(u, lines \cup {n + 1}, d, v \o args)
  BY <1>3, <1>4, <1>5 DEF Adds
<1>7. Means(u, d, v \o args)
  <2>1. lines \cup {n + 1} # {}
    OBVIOUS
  <2> HIDE DEF d
  <2>2. d \in UserLists \cup PathLists /\ d \notin {"hostkey", "subsystem"}
    BY DEF UserLists, PathLists, d
  <2> QED BY <1>1, <1>6, <2>1, <2>2, Kinds
<1> QED BY <1>7 DEF args, u

\* What has one value: the new line is the last one.
LEMMA LineEnds ==
  ASSUME NEW t \in Seq(Lines), NEW line \in Lines, Known(line), NEW v,
         Directive(line) \notin UserLists \cup PathLists \cup {"hostkey", "subsystem"},
         v = IF Directive(line) = "authorizedkeysfile" THEN Tail(line)
                                                       ELSE Value(Directive(line), line[2])
  PROVE  Means(Append(t, line), Directive(line), v)
<1> DEFINE d == Directive(line)
           u == Append(t, line)
           n == Len(t)
           lines == LinesOf(u, d)
<1>1. /\ n \in Nat /\ n + 1 \in lines /\ u[n + 1] = line
      /\ \A i \in lines : i \in 1..n + 1
  <2>1. /\ LinesOf(t, d) \in SUBSET (1..n) /\ n \in Nat
        /\ lines = LinesOf(t, d) \cup {n + 1}
        /\ u[n + 1] = line
    BY LinesOfAppend
  <2> HIDE DEF d, u, n, lines
  <2> QED BY <2>1
<1>2. v = IF d = "authorizedkeysfile" THEN Tail(line) ELSE Value(d, line[2])
  OBVIOUS
<1>3. d \notin UserLists \cup PathLists \cup {"hostkey", "subsystem"}
  OBVIOUS
<1> HIDE DEF d, u, n, lines
<1>4. IsLast(lines, n + 1)
  BY <1>1 DEF IsLast
<1>5. EndsWith(u, lines, d, v)
  <2>1. v = IF d = "authorizedkeysfile" THEN Tail(u[n + 1]) ELSE Value(d, u[n + 1][2])
    BY <1>1, <1>2
  <2> QED BY <1>1, <1>4, <2>1 DEF EndsWith
<1>6. Means(u, d, v)
  <2>1. lines # {}
    BY <1>1
  <2>2. lines = LinesOf(u, d)
    BY DEF lines
  <2> QED BY <1>3, <1>5, <2>1, <2>2, Kinds
<1> QED BY <1>6 DEF u, d

\* Subsystem: the new line binds its name anew.
LEMMA LineBinds ==
  ASSUME NEW t \in Seq(Lines), NEW line \in Lines, Known(line),
         Directive(line) = "subsystem",
         NEW v, Means(t, "subsystem", v)
  PROVE  Means(Append(t, line), "subsystem", Put(v, line[2], line[3]))
<1> DEFINE u == Append(t, line)
           n == Len(t)
           lines == LinesOf(t, "subsystem")
           more == lines \cup {n + 1}
           new == Put(v, line[2], line[3])
<1>1. /\ lines \in SUBSET (1..n) /\ n \in Nat
      /\ \A i \in 1..n : u[i] = t[i]
      /\ u[n + 1] = line
      /\ LinesOf(u, "subsystem") = more
  BY LinesOfAppend
<1>2. Default["subsystem"] = << >>
  BY DEF Default, Directives, UserLists, Booleans, PathLists, Scalars
<1>3. Binds(t, lines, v)
  <2>1. Means(t, "subsystem", v) <=> /\ lines = {} => v = << >>
                                     /\ lines # {} => Binds(t, lines, v)
    BY <1>2, Kinds DEF UserLists, PathLists
  <2>2. lines = {} /\ v = << >> => Binds(t, lines, v)
    <3> HIDE DEF lines
    <3> QED BY DEF Binds
  <2> QED BY <2>1, <2>2
<1>4. Binds(u, more, new)
  <2> HIDE DEF u, n, lines
  <2>1. /\ DOMAIN new = DOMAIN v \cup {line[2]}
        /\ new[line[2]] = line[3]
        /\ \A x \in DOMAIN v : x # line[2] => new[x] = v[x]
    BY DEF Put
  <2>2. /\ \A i \in lines : u[i] = t[i] /\ i < n + 1
        /\ u[n + 1] = line
    BY <1>1
  <2> HIDE DEF new
  <2>3. DOMAIN new = {u[i][2] : i \in more}
    BY <1>3, <2>1, <2>2 DEF Binds
  <2>4. ASSUME NEW i \in more
        PROVE  new[u[i][2]] = u[i][3] \/ \E j \in more : j > i /\ u[j][2] = u[i][2]
    <3>1. CASE i = n + 1
      BY <2>1, <2>2, <3>1
    <3>2. CASE i \in lines /\ u[i][2] = line[2]
      BY <1>1, <2>2, <3>2
    <3>3. CASE i \in lines /\ u[i][2] # line[2]
      BY <1>3, <2>1, <2>2, <3>3 DEF Binds
    <3> QED BY <3>1, <3>2, <3>3
  <2> QED BY <2>3, <2>4 DEF Binds
<1>5. more # {}
  OBVIOUS
<1> HIDE DEF more, new, u, lines, n
<1> QED BY <1>1, <1>4, <1>5, Kinds DEF UserLists, PathLists, new, u

\* HostKey: the list grows by one key, unless it looks like the default one.
LEMMA LineLists ==
  ASSUME NEW t \in Seq(Lines), NEW line \in Lines, Accepts(line), Known(line),
         Directive(line) = "hostkey",
         NEW v \in Seq(Strings), Means(t, "hostkey", v)
  PROVE  Means(Append(t, line), "hostkey", IF v = DefaultKeys THEN Tail(line) ELSE v \o Tail(line))
<1> DEFINE u == Append(t, line)
           n == Len(t)
           lines == LinesOf(t, "hostkey")
           more == lines \cup {n + 1}
           args == Tail(line)
           new == IF v = DefaultKeys THEN args ELSE v \o args
<1>1. /\ lines \in SUBSET (1..n) /\ n \in Nat
      /\ \A i \in 1..n : u[i] = t[i]
      /\ u[n + 1] = line
      /\ LinesOf(u, "hostkey") = more
  BY LinesOfAppend
<1>2. /\ IsFiniteSet(lines) /\ Cardinality(lines) \in Nat
      /\ Cardinality(more) = Cardinality(lines) + 1
      /\ \A i \in lines : Rank(more, i) = Rank(lines, i) /\ Rank(lines, i) \in 1..Cardinality(lines)
      /\ Rank(more, n + 1) = Cardinality(lines) + 1
  BY <1>1, RankOfMore
<1>3. /\ args = << line[2] >> /\ line[2] \in Words
      /\ args \in Seq(Strings) /\ Len(args) = 1 /\ args[1] = line[2]
  <2>1. args = << line[2] >> /\ line[2] \in Words
    BY Arguments DEF UserLists
  <2> HIDE DEF args
  <2> QED BY <2>1 DEF Strings
<1>4. /\ Default["hostkey"] = DefaultKeys
      /\ DOMAIN DefaultKeys = 1..3 /\ Len(DefaultKeys) = 3
  <2>1. Default["hostkey"] = DefaultKeys
    BY DEF Default, Directives, UserLists, Booleans, PathLists, Scalars
  <2>2. DOMAIN DefaultKeys = 1..3 /\ Len(DefaultKeys) = 3
    BY DEF DefaultKeys
  <2> QED BY <2>1, <2>2
<1>5. IF lines = {} THEN v = DefaultKeys ELSE Lists(t, lines, v)
  BY <1>4, Kinds DEF UserLists, PathLists
<1> HIDE DEF u, n, lines, args
<1>6. \A list : InOrder(t, lines, list) =>
               \A i \in lines : Rank(more, i) \in DOMAIN list => list[Rank(more, i)] = u[i][2]
  BY <1>1, <1>2 DEF InOrder
<1>7. Lists(u, more, new)
  <2>1. CASE lines = {}
    <3>1. Cardinality(lines) = 0
      BY <2>1, FS_EmptySet
    <3>2. new = args
      BY <1>5, <2>1
    <3>3. InOrder(u, more, args)
      BY <1>1, <1>2, <1>3, <2>1, <3>1 DEF InOrder
    <3>4. Len(new) = Cardinality(more)
      BY <1>2, <1>3, <3>1, <3>2
    <3> HIDE DEF new, more
    <3> QED BY <3>2, <3>3, <3>4 DEF Lists
  <2>2. ASSUME lines # {}, Cardinality(lines) >= 3, InOrder(t, lines, DefaultKeys)
        PROVE  RepeatsDefaults(u, more)
    <3> SUFFICES InOrder(u, more, DefaultKeys)
      BY <1>2, <1>4, <2>2 DEF RepeatsDefaults
    <3>1. Rank(more, n + 1) \notin DOMAIN DefaultKeys
      BY <1>2, <1>4, <2>2
    <3>2. \A i \in lines : Rank(more, i) \in DOMAIN DefaultKeys => DefaultKeys[Rank(more, i)] = u[i][2]
      BY <1>6, <2>2
    <3> QED BY <3>1, <3>2 DEF InOrder
  <2>3. CASE lines # {} /\ RepeatsDefaults(t, lines)
    BY <1>2, <1>4, <2>2, <2>3 DEF RepeatsDefaults, Lists
  <2>4. CASE lines # {} /\ Len(v) = Cardinality(lines) /\ InOrder(t, lines, v)
    <3>1. CASE v = DefaultKeys
      BY <1>4, <2>2, <2>4, <3>1 DEF Lists
    <3>2. CASE v # DefaultKeys
      <4>1. /\ new = v \o args /\ Len(new) = Len(v) + 1 /\ Len(v) \in Nat
            /\ DOMAIN v = 1..Len(v) /\ DOMAIN new = 1..Len(v) + 1
        BY <1>3, <3>2, ConcatProperties
      <4>2. /\ \A i \in 1..Len(v) : new[i] = v[i]
            /\ new[Len(v) + 1] = line[2]
        BY <1>3, <4>1, ConcatProperties
      <4> HIDE DEF new
      <4>3. ASSUME NEW i \in more, Rank(more, i) \in DOMAIN new
            PROVE  new[Rank(more, i)] = u[i][2]
        <5>1. CASE i = n + 1
          BY <1>1, <1>2, <2>4, <4>2, <5>1
        <5>2. CASE i \in lines
          BY <1>2, <1>6, <2>4, <4>1, <4>2, <5>2
        <5> QED BY <5>1, <5>2
      <4> QED BY <1>2, <2>4, <4>1, <4>3 DEF Lists, InOrder
    <3> QED BY <3>1, <3>2
  <2> QED BY <1>5, <2>1, <2>3, <2>4 DEF Lists
<1>8. more # {}
  OBVIOUS
<1> HIDE DEF more, new
<1> QED BY <1>1, <1>7, <1>8, Kinds DEF UserLists, PathLists, new, u, args

\* The step of ReadLine: what cfg says of the lines read so far, it says with one more.
LEMMA ReadsLine ==
  ASSUME NEW t \in Seq(Lines), NEW line \in Lines, Accepts(line),
         NEW c, ConfigOK(c), Reads(t, c)
  PROVE  ConfigOK(Applied(c, line)) /\ Reads(Append(t, line), Applied(c, line))
<1> DEFINE new == Applied(c, line)
           u == Append(t, line)
<1>1. \A i \in DOMAIN u : Accepts(u[i])
  BY DEF Reads
<1>2. ASSUME NEW e \in Directives, ~(Known(line) /\ e = Directive(line))
      PROVE  Means(u, e, new[e])
  <2>1. new[e] = c[e] /\ Means(t, e, c[e])
    BY <1>2, AppliedBy DEF Reads
  <2>2. LinesOf(u, e) = LinesOf(t, e) /\ \A i \in LinesOf(t, e) : u[i] = t[i]
    BY <1>2, LinesOfAppend
  <2> QED BY <2>1, <2>2, OtherLines
<1>3. ASSUME Known(line)
      PROVE  Means(u, Directive(line), new[Directive(line)])
  <2> DEFINE d == Directive(line)
             args == Tail(line)
  <2>1. d \in Directives
    BY <1>3, AcceptedLine
  <2>2. /\ d \in Scalars \cup Booleans => new[d] = Value(d, line[2])
        /\ d \in UserLists \cup PathLists => new[d] = c[d] \o args
        /\ d = "hostkey" => new[d] = IF c[d] = DefaultKeys THEN args ELSE c[d] \o args
        /\ d = "authorizedkeysfile" => new[d] = args
        /\ d = "subsystem" => new[d] = Put(c[d], line[2], line[3])
    BY <1>3, AppliedBy
  <2>3. Means(t, d, c[d])
    BY <2>1 DEF Reads
  <2>4. d \in ListDirectives => c[d] \in Seq(Strings)
    BY DEF ConfigOK
  <2> HIDE DEF new
  <2>5. CASE d \in UserLists \cup PathLists
    BY <1>3, <2>2, <2>3, <2>4, <2>5, LineAdds DEF ListDirectives
  <2>6. CASE d = "hostkey"
    BY <1>3, <2>2, <2>3, <2>4, <2>6, LineLists DEF ListDirectives
  <2>7. CASE d = "subsystem"
    BY <1>3, <2>2, <2>3, <2>7, LineBinds
  <2>8. CASE d \in Scalars \cup Booleans \cup {"authorizedkeysfile"}
    <3>1. /\ d \notin UserLists \cup PathLists \cup {"hostkey", "subsystem"}
          /\ d = "authorizedkeysfile" => d \notin Scalars \cup Booleans
      BY <2>8 DEF Scalars, Booleans, UserLists, PathLists
    <3>2. new[d] = IF d = "authorizedkeysfile" THEN args ELSE Value(d, line[2])
      BY <2>2, <2>8, <3>1
    <3> QED BY <1>3, <3>1, <3>2, LineEnds
  <2> QED BY <2>1, <2>5, <2>6, <2>7, <2>8 DEF Directives
<1>4. ConfigOK(new)
  BY AppliedBy
<1> HIDE DEF new, u
<1>5. \A e \in Directives : Means(u, e, new[e])
  BY <1>2, <1>3
<1> QED BY <1>1, <1>4, <1>5 DEF Reads, u, new

\* Nothing read yet.
LEMMA DefaultReads == ConfigOK(Default) /\ Reads(<< >>, Default)
<1>1. DOMAIN Default = Directives
  BY DEF Default
<1>2. /\ \A d \in UserLists \cup {"trustedusercakeys", "revokedkeys"} : Default[d] = << >>
      /\ Default["listenaddress"] = << "0.0.0.0" >>
      /\ Default["hostkey"] = DefaultKeys
  BY DEF Default, Directives, UserLists, Booleans, PathLists, Scalars
<1>3. DefaultKeys \in Seq(Strings)
  <2>1. \A i \in 1..3 : DefaultKeys[i] \in Members(DefaultKeys)
    BY DEF DefaultKeys, Members
  <2> QED BY <2>1 DEF DefaultKeys, Strings
<1>4. << >> \in Seq(Strings) /\ << "0.0.0.0" >> \in Seq(Strings)
  BY DEF Strings
<1>5. \A d \in ListDirectives : Default[d] \in Seq(Strings)
  BY <1>2, <1>3, <1>4 DEF ListDirectives, UserLists, PathLists
<1>6. \A d : LinesOf(<< >>, d) = {}
  BY DEF LinesOf
<1> QED BY <1>1, <1>5, <1>6 DEF ConfigOK, Reads, Means

----------------------------------------------------------------------------
(* IInv is an invariant.                                                   *)

LEMMA InitInvariant == Init => IInv
<1> SUFFICES ASSUME Init PROVE IInv
  OBVIOUS
<1>1. Types
  BY LoadAssumption, DefaultReads DEF Init, Types
<1>2. Reading /\ LoadedIsMeant /\ RunsAsWritten
  BY DEF Init, Reading, LoadedIsMeant, RunsAsWritten
<1> QED BY <1>1, <1>2 DEF Init, IInv

\* What the steps of the administrator and of Load leave alone.
LEMMA LoadedKept ==
  ASSUME LoadedIsMeant, pc' = "loaded" => pc = "loaded" /\ torn' = torn /\ text' = text /\ cfg' = cfg
  PROVE  LoadedIsMeant'
BY DEF LoadedIsMeant, IsFile

LEMMA RunsKept ==
  ASSUME RunsAsWritten, UNCHANGED <<program, phase, useVars>>
  PROVE  RunsAsWritten'
BY DEF RunsAsWritten, IsFile, Followed, Handlers, useVars

\* The administrator's steps leave alone what has been read.
LEMMA ReplaceInvariant == IInv /\ Replace => IInv'
<1> SUFFICES ASSUME IInv, Replace PROVE IInv'
  OBVIOUS
<1>1. Types'
  BY LoadAssumption DEF IInv, Types, Reading, Replace
<1>2. View' = View \/ pc # "read"
  BY DEF IInv, Reading, Replace, View
<1>3. Reading'
  BY <1>2 DEF IInv, Reading, Replace
<1>4. LoadedIsMeant' /\ RunsAsWritten'
  <2>1. pc' = "loaded" => pc = "loaded" /\ torn' = torn /\ text' = text /\ cfg' = cfg
    BY DEF IInv, Types, Reading, Replace
  <2>2. UNCHANGED programVars
    BY DEF Replace
  <2> QED BY <2>1, <2>2, LoadedKept, RunsKept DEF IInv, programVars
<1> QED BY <1>1, <1>3, <1>4 DEF IInv, Replace, programVars

LEMMA TruncateInvariant == IInv /\ Truncate => IInv'
<1> SUFFICES ASSUME IInv, Truncate PROVE IInv'
  OBVIOUS
<1>1. Types'
  BY LoadAssumption DEF IInv, Types, Truncate
<1>2. Reading'
  <2>1. pc = "read" => View' = View \/ torn'
    BY DEF Truncate, View, IInv, Reading, Types
  <2>2. << >> \in Seq(Lines)
    OBVIOUS
  <2> QED BY <2>1, <2>2 DEF IInv, Types, Reading, Truncate
<1>3. LoadedIsMeant' /\ RunsAsWritten'
  <2>1. pc' = "loaded" => pc = "loaded" /\ torn' = torn /\ text' = text /\ cfg' = cfg
    BY DEF IInv, Types, Reading, Truncate
  <2>2. UNCHANGED programVars
    BY DEF Truncate
  <2> QED BY <2>1, <2>2, LoadedKept, RunsKept DEF IInv, programVars
<1> QED BY <1>1, <1>2, <1>3 DEF IInv, Truncate, programVars

LEMMA WriteLineInvariant == IInv /\ WriteLine => IInv'
<1> SUFFICES ASSUME IInv, WriteLine PROVE IInv'
  OBVIOUS
<1>1. disk \in Seq(Lines) /\ rest \in Seq(Lines) /\ rest # << >>
  BY DEF IInv, Types, WriteLine
<1>2. Head(rest) \in Lines /\ Tail(rest) \in Seq(Lines)
  BY <1>1, HeadTailProperties
<1>3. disk' \in Seq(Lines) /\ rest' \in Seq(Lines)
  BY <1>1, <1>2 DEF WriteLine
<1>4. Types'
  BY <1>3 DEF IInv, Types, WriteLine
<1>5. Reading'
  BY <1>3 DEF IInv, Reading, WriteLine, View
<1>6. LoadedIsMeant' /\ RunsAsWritten'
  <2>1. pc' = "loaded" => pc = "loaded" /\ torn' = torn /\ text' = text /\ cfg' = cfg
    BY DEF IInv, Types, Reading, WriteLine
  <2>2. UNCHANGED programVars
    BY DEF WriteLine
  <2> QED BY <2>1, <2>2, LoadedKept, RunsKept DEF IInv, programVars
<1> QED BY <1>4, <1>5, <1>6 DEF IInv, WriteLine, programVars

LEMMA OpenInvariant == IInv /\ Open => IInv'
<1> SUFFICES ASSUME IInv, Open PROVE IInv'
  OBVIOUS
<1>1. Types'
  BY DefaultReads DEF IInv, Types, Open, fileVars
<1>2. \/ disk = Absent /\ pc' = "loaded" /\ fd' = fd
      \/ disk = Denied /\ pc' = "failed" /\ fd' = fd
      \/ disk \in Seq(Lines) /\ pc' = "read" /\ fd' = "path"
  BY DEF IInv, Types, Open
<1>3. Reading'
  <2>1. fd = "none"
    BY DEF IInv, Reading, Open
  <2>2. ASSUME disk \in Seq(Lines)
        PROVE  Len(disk) \in Nat /\ SubSeq(disk, 1, 0) = << >>
    BY <2>2
  <2>3. ASSUME pc' = "read"
        PROVE  View' = text' /\ pos' <= Len(text') /\ Reads(SubSeq(text, 1, pos), cfg)'
    <3>1. disk \in Seq(Lines) /\ fd' = "path"
      BY <1>2, <2>3
    <3>2. pos' = 0 /\ text' = disk /\ disk' = disk /\ cfg' = Default
      BY DEF Open, fileVars
    <3>3. SubSeq(text, 1, pos)' = << >>
      BY <2>2, <3>1, <3>2
    <3>4. View' = text' /\ pos' <= Len(text')
      BY <2>2, <3>1, <3>2 DEF View
    <3>5. Reads(SubSeq(text, 1, pos)', cfg')
      BY <3>2, <3>3, DefaultReads
    <3> QED BY <3>4, <3>5
  <2> QED BY <1>2, <2>1, <2>3 DEF Reading, Open, fileVars
<1>4. LoadedIsMeant'
  BY <1>2 DEF Open, fileVars, LoadedIsMeant, IsFile
<1>5. RunsAsWritten'
  <2>1. UNCHANGED programVars
    BY DEF Open
  <2> QED BY <2>1, RunsKept DEF IInv, programVars
<1> QED BY <1>1, <1>3, <1>4, <1>5 DEF IInv, Open, programVars

LEMMA ReadLineInvariant == IInv /\ ReadLine => IInv'
<1> SUFFICES ASSUME IInv, ReadLine PROVE IInv'
  OBVIOUS
<1> DEFINE line == View[pos + 1]
<1>1. /\ View \in Seq(Lines) /\ pos \in Nat /\ pos < Len(View)
      /\ line \in Lines /\ Accepts(line)
      /\ cfg' = Applied(cfg, line) /\ ConfigOK(cfg)
  BY DEF IInv, Types, Reading, ReadLine, View
<1>2. ConfigOK(cfg')
  BY <1>1, AppliedBy
<1>3. Types'
  BY <1>1, <1>2 DEF IInv, Types, ReadLine, fileVars
<1>4. Reading'
  <2>1. ASSUME ~torn
        PROVE  View = text /\ pos' <= Len(text) /\ Reads(SubSeq(text, 1, pos'), cfg')
    <3>1. View = text /\ Reads(SubSeq(text, 1, pos), cfg)
      BY <2>1 DEF IInv, Reading, ReadLine
    <3>2. SubSeq(text, 1, pos) \in Seq(Lines)
      BY <1>1, <3>1, SubSeqProperties
    <3>3. SubSeq(text, 1, pos + 1) = Append(SubSeq(text, 1, pos), line)
      BY <1>1, <3>1, SubSeqProperties
    <3>4. text' = text /\ pos' = pos + 1 /\ Len(View) \in Nat
      BY <1>1 DEF ReadLine
    <3> HIDE DEF line
    <3>5. Reads(Append(SubSeq(text, 1, pos), line), cfg')
      BY <1>1, <3>1, <3>2, ReadsLine
    <3>6. pos' <= Len(text)
      BY <1>1, <3>1, <3>4
    <3>7. Reads(SubSeq(text, 1, pos'), cfg')
      BY <3>3, <3>4, <3>5
    <3> QED BY <3>1, <3>6, <3>7
  <2>2. View' = View
    BY DEF ReadLine, fileVars, View
  <2> QED BY <2>1, <2>2 DEF IInv, Reading, ReadLine, fileVars
<1>5. LoadedIsMeant' /\ RunsAsWritten'
  <2>1. pc' = "loaded" => pc = "loaded" /\ torn' = torn /\ text' = text /\ cfg' = cfg
    BY DEF IInv, Types, Reading, ReadLine
  <2>2. UNCHANGED programVars
    BY DEF ReadLine
  <2> QED BY <2>1, <2>2, LoadedKept, RunsKept DEF IInv, programVars
<1> QED BY <1>3, <1>4, <1>5 DEF IInv, ReadLine, programVars

LEMMA ReadFailsInvariant == IInv /\ ReadFails => IInv'
<1> SUFFICES ASSUME IInv, ReadFails PROVE IInv'
  OBVIOUS
<1>1. Types' /\ Reading'
  BY DEF IInv, Types, Reading, ReadFails, Close, fileVars
<1>2. LoadedIsMeant' /\ RunsAsWritten'
  <2>1. pc' = "loaded" => pc = "loaded" /\ torn' = torn /\ text' = text /\ cfg' = cfg
    BY DEF IInv, Types, Reading, ReadFails
  <2>2. UNCHANGED programVars
    BY DEF ReadFails
  <2> QED BY <2>1, <2>2, LoadedKept, RunsKept DEF IInv, programVars
<1> QED BY <1>1, <1>2 DEF IInv, ReadFails, programVars

\* At the end the lines read are those of the file.
LEMMA ReadEndsInvariant == IInv /\ ReadEnds => IInv'
<1> SUFFICES ASSUME IInv, ReadEnds PROVE IInv'
  OBVIOUS
<1>1. Types' /\ Reading'
  BY DEF IInv, Types, Reading, ReadEnds, Close, fileVars
<1>2. LoadedIsMeant'
  <2>1. ASSUME ~torn
        PROVE  IsFile(text) /\ Reads(text, cfg)
    <3>1. /\ View = text /\ text \in Seq(Lines)
          /\ pos \in Nat /\ pos = Len(text)
          /\ Reads(SubSeq(text, 1, pos), cfg)
      BY <2>1 DEF IInv, Types, Reading, ReadEnds, View
    <3>2. SubSeq(text, 1, Len(text)) = text
      BY <3>1, SubSeqFull
    <3> QED BY <3>1, <3>2, LoadAssumption DEF IsFile
  <2> QED BY <2>1 DEF ReadEnds, LoadedIsMeant, Reads, IsFile
<1>3. RunsAsWritten'
  <2>1. UNCHANGED programVars
    BY DEF ReadEnds
  <2> QED BY <2>1, RunsKept DEF IInv, programVars
<1> QED BY <1>1, <1>2, <1>3 DEF IInv, ReadEnds, programVars

LEMMA StartFailsInvariant == IInv /\ StartFails => IInv'
<1> SUFFICES ASSUME IInv, StartFails PROVE IInv'
  OBVIOUS
<1>1. /\ UNCHANGED <<fileVars, loadVars>> /\ program' = program /\ port' = port
      /\ verdict' = verdict /\ phase = "starting" /\ phase' = "exited"
  BY DEF StartFails
<1>2. Types' /\ Reading' /\ LoadedIsMeant'
  BY <1>1 DEF IInv, Types, Reading, View, fileVars, loadVars, LoadedIsMeant, IsFile
<1>3. RunsAsWritten'
  BY <1>1 DEF RunsAsWritten
<1> QED BY <1>1, <1>2, <1>3 DEF IInv

LEMMA TestInvariant == IInv /\ Test => IInv'
<1> SUFFICES ASSUME IInv, Test PROVE IInv'
  OBVIOUS
<1>1. /\ UNCHANGED <<fileVars, loadVars>> /\ program' = program /\ port' = port
      /\ pc = "loaded" /\ phase' = "exited"
  BY DEF Test
<1>2. Types' /\ Reading' /\ LoadedIsMeant'
  BY <1>1 DEF IInv, Types, Reading, View, fileVars, loadVars, LoadedIsMeant, IsFile
<1>3. RunsAsWritten'
  BY <1>1 DEF RunsAsWritten
<1> QED BY <1>1, <1>2, <1>3 DEF IInv

\* Use takes over a Config that is what its file means, and forgets it.
LEMMA UseInvariant ==
  ASSUME IInv, NEW c, pc = "loaded", fd' = fd, UNCHANGED <<fileVars, old, program, port>>,
         Use(c), c = WithPort(cfg) \/ c = cfg
  PROVE  /\ Types' /\ Reading' /\ LoadedIsMeant'
         /\ program = "server" => port = 0
         /\ ~torn => IF IsFile(text) THEN \A d \in Followed : Means(text, d, active'[d])
                                     ELSE active' = Handlers(Default)
<1>1. /\ active' = Handlers(c)
      /\ pc' = "idle" /\ cfg' = Default /\ pos' = 0 /\ text' = << >> /\ torn' = FALSE
  BY DEF Use
<1>2. Types' /\ Reading' /\ LoadedIsMeant'
  BY <1>1, DefaultReads DEF IInv, Types, Reading, View, fileVars, LoadedIsMeant
<1>3. /\ DOMAIN cfg = Directives /\ DOMAIN c = Directives
      /\ \A d \in Directives \ {"port"} : c[d] = cfg[d]
      /\ program = "server" => c = cfg
  BY DEF IInv, Types, ConfigOK, WithPort
<1>4. \A d \in Followed : active'[d] = cfg[d]
  <2>1. CASE program = "server"
    BY <1>1, <1>3, <2>1 DEF Handlers, ServerConfig, Followed
  <2>2. CASE program # "server"
    BY <1>1, <1>3, <2>2 DEF Handlers, HandlerConfig, Followed
  <2> QED BY <2>1, <2>2
<1>5. ASSUME ~torn, ~IsFile(text)
      PROVE  active' = Handlers(Default)
  <2>1. cfg = Default
    BY <1>5 DEF IInv, LoadedIsMeant
  <2>2. CASE program = "server"
    BY <1>1, <1>3, <2>1, <2>2
  <2>3. CASE program # "server"
    <3>1. HandlerConfig(c) = HandlerConfig(cfg)
      <4>1. \A d \in Directives \ ({"listenaddress", "port"} \cup MetricsDirectives) : c[d] = cfg[d]
        BY <1>3
      <4> QED BY <4>1 DEF HandlerConfig
    <3> QED BY <1>1, <2>1, <2>3, <3>1 DEF Handlers
  <2> QED BY <2>2, <2>3
<1>6. ASSUME ~torn, IsFile(text)
      PROVE  \A d \in Followed : Means(text, d, active'[d])
  BY <1>4, <1>6 DEF IInv, LoadedIsMeant, Followed
<1> QED BY <1>2, <1>5, <1>6 DEF IInv

LEMMA RunInvariant == IInv /\ Run => IInv'
<1> SUFFICES ASSUME IInv, Run PROVE IInv'
  OBVIOUS
<1>1. /\ pc = "loaded" /\ Use(WithPort(cfg))
      /\ fd' = fd /\ UNCHANGED <<fileVars, old, program, port>>
      /\ source' = text /\ sourceTorn' = torn /\ start' = text /\ startTorn' = torn
      /\ metrics' = MetricsConfig(cfg)
  BY DEF Run, Use
<1>2. /\ Types' /\ Reading' /\ LoadedIsMeant'
      /\ program = "server" => port = 0
      /\ ~torn => IF IsFile(text) THEN \A d \in Followed : Means(text, d, active'[d])
                                  ELSE active' = Handlers(Default)
  BY <1>1, UseInvariant
<1>3. ~torn => IF IsFile(text) THEN \A d \in MetricsDirectives : Means(text, d, metrics'[d])
                               ELSE metrics' = MetricsConfig(Default)
  <2>1. \A d \in MetricsDirectives : metrics'[d] = cfg[d]
    BY <1>1 DEF MetricsConfig
  <2>2. \A d \in MetricsDirectives : d \in Directives
    BY DEF MetricsDirectives, Directives, Scalars, Booleans
  <2>3. ~torn => IF IsFile(text) THEN \A d \in Directives : Means(text, d, cfg[d])
                                 ELSE cfg = Default
    BY <1>1 DEF IInv, LoadedIsMeant
  <2> QED BY <1>1, <2>1, <2>2, <2>3
<1>4. RunsAsWritten'
  <2>1. Followed' = Followed /\ Handlers(Default)' = Handlers(Default)
    BY <1>1 DEF Followed, Handlers
  <2> QED BY <1>1, <1>2, <1>3, <2>1 DEF RunsAsWritten, IsFile
<1> QED BY <1>1, <1>2, <1>4 DEF IInv

LEMMA ReloadInvariant == IInv /\ Reload => IInv'
<1> SUFFICES ASSUME IInv, Reload PROVE IInv'
  OBVIOUS
<1>1. /\ pc = "loaded" /\ phase = "running" /\ Use(cfg)
      /\ fd' = fd /\ UNCHANGED <<fileVars, old, program, port>>
      /\ source' = text /\ sourceTorn' = torn
      /\ UNCHANGED <<metrics, start, startTorn>>
  BY DEF Reload, Use
<1>2. /\ Types' /\ Reading' /\ LoadedIsMeant'
      /\ program = "server" => port = 0
      /\ ~torn => IF IsFile(text) THEN \A d \in Followed : Means(text, d, active'[d])
                                  ELSE active' = Handlers(Default)
  BY <1>1, UseInvariant
<1>3. ~startTorn => IF IsFile(start) THEN \A d \in MetricsDirectives : Means(start, d, metrics[d])
                                     ELSE metrics = MetricsConfig(Default)
  BY <1>1 DEF IInv, RunsAsWritten
<1>4. RunsAsWritten'
  <2>1. Followed' = Followed /\ Handlers(Default)' = Handlers(Default)
    BY <1>1 DEF Followed, Handlers
  <2> QED BY <1>1, <1>2, <1>3, <2>1 DEF RunsAsWritten, IsFile
<1> QED BY <1>1, <1>2, <1>4 DEF IInv

LEMMA ReloadFailsInvariant == IInv /\ ReloadFails => IInv'
<1> SUFFICES ASSUME IInv, ReloadFails PROVE IInv'
  OBVIOUS
<1>1. Types' /\ Reading' /\ LoadedIsMeant'
  BY DefaultReads DEF IInv, Types, Reading, View, ReloadFails, fileVars, LoadedIsMeant
<1>2. RunsAsWritten'
  BY RunsKept DEF IInv, ReloadFails, programVars
<1> QED BY <1>1, <1>2 DEF IInv, ReloadFails, programVars

LEMMA NextInvariant == IInv /\ [Next]_vars => IInv'
<1> SUFFICES ASSUME IInv, [Next]_vars PROVE IInv'
  OBVIOUS
<1>1. CASE UNCHANGED vars
  BY <1>1, LoadedKept, RunsKept
     DEF IInv, vars, fileVars, loadVars, programVars, Types, Reading, View
<1> QED
  BY <1>1, ReplaceInvariant, TruncateInvariant, WriteLineInvariant, OpenInvariant,
     ReadLineInvariant, ReadFailsInvariant, ReadEndsInvariant, StartFailsInvariant,
     TestInvariant, RunInvariant, ReloadInvariant, ReloadFailsInvariant DEF Next

THEOREM Invariance == Spec => []IInv
BY InitInvariant, NextInvariant, PTL DEF Spec

----------------------------------------------------------------------------
(* What follows.                                                           *)

\* What Load returns is what the whole file means (parseConfigFile, parseConfigLine):
\* for every file, however many lines it has and however often it is saved meanwhile.
THEOREM LoadedCorrect == Spec => []LoadedIsMeant
BY Invariance, PTL DEF IInv

\* The handlers come from the last file that was taken over and the metrics server from
\* the one of the start, each of them whole, through every save and every reload that is
\* refused (loadAndApplyConfig, NewWithConfigFile, reloadConfiguration).
THEOREM RunsCorrect == Spec => []RunsAsWritten
BY Invariance, PTL DEF IInv
=============================================================================
