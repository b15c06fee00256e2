----------------------------- MODULE SftpProofs -----------------------------
(***************************************************************************)
(* Where paths lead, for trees of any size and paths with any number of    *)
(* links, and what the SFTP sessions can do to a tree, for any number of   *)
(* them.                                                                   *)
(***************************************************************************)
EXTENDS Sftp, SequenceTheorems, FiniteSetTheorems, TLAPS

(* Induction over the natural numbers, said of a set: a well-founded order *)
(* of finite sets has a least element among the intervals 1..n.            *)

LEMMA LeastNumber ==
  ASSUME NEW T \in SUBSET Nat, T # {}
  PROVE  \E n \in T : \A m \in T : n <= m
<1> DEFINE Below == {1..n : n \in T}
<1>1. Below \subseteq FiniteSubsetsOf(Nat) /\ Below # {}
  <2>1. ASSUME NEW n \in T PROVE 1..n \in SUBSET Nat /\ IsFiniteSet(1..n)
    BY FS_Interval
  <2>2. \A n \in T : 1..n \in FiniteSubsetsOf(Nat)
    BY <2>1 DEF FiniteSubsetsOf
  <2> QED BY <2>2
<1>2. PICK B \in Below : \A C \in Below : <<C, B>> \notin StrictSubsetOrdering(Nat)
  <2> HIDE DEF Below
  <2> QED BY <1>1, FS_StrictSubsetOrderingWellFounded, WFMin
<1>3. PICK n \in T : B = 1..n
  OBVIOUS
<1>4. ASSUME NEW m \in T, m < n PROVE FALSE
  <2>1. 1..m \in Below
    OBVIOUS
  <2>2. 1..m \subseteq 1..n /\ n \in 1..n /\ n \notin 1..m
    BY <1>4
  <2>3. <<1..m, B>> \in (SUBSET Nat) \X (SUBSET Nat)
    BY <1>3
  <2>4. <<1..m, B>> \in StrictSubsetOrdering(Nat)
    BY <1>3, <2>2, <2>3 DEF StrictSubsetOrdering
  <2> HIDE DEF Below
  <2> QED BY <1>2, <2>1, <2>4
<1> QED BY <1>4

\* A set with 0 and with n for every n - 1 below a bound has every number up to it.
LEMMA SetInduction ==
  ASSUME NEW N \in Nat, NEW S, 0 \in S, \A n \in 1..N : n - 1 \in S => n \in S
  PROVE  0..N \subseteq S
<1> SUFFICES ASSUME NEW b \in 0..N, b \notin S PROVE FALSE
  OBVIOUS
<1> DEFINE Others == (0..N) \ S
<1>1. PICK n \in Others : \A m \in Others : n <= m
  <2>1. Others \in SUBSET Nat /\ Others # {}
    OBVIOUS
  <2> HIDE DEF Others
  <2> QED BY <2>1, LeastNumber
<1>2. n # 0 /\ n \in 1..N /\ n - 1 \in 0..N
  BY <1>1
<1>3. n - 1 \in S
  BY <1>1, <1>2
<1> QED BY <1>1, <1>2, <1>3

----------------------------------------------------------------------------
(* Paths and their prefixes.                                               *)

LEMMA SamePath ==
  ASSUME NEW p \in Paths, NEW q \in Paths, Len(p) = Len(q), \A i \in 1..Len(p) : p[i] = q[i]
  PROVE  p = q
BY SeqEqual DEF Paths

LEMMA FirstNames ==
  ASSUME NEW p \in Paths, NEW k \in 0..Len(p)
  PROVE  /\ SubSeq(p, 1, k) \in Paths /\ Len(SubSeq(p, 1, k)) = k
         /\ \A i \in 1..k : SubSeq(p, 1, k)[i] = p[i]
BY DEF Paths

LEMMA FirstNamesAre ==
  ASSUME NEW p \in Paths, NEW q \in Paths, Len(q) <= Len(p), \A i \in 1..Len(q) : q[i] = p[i]
  PROVE  Len(q) \in 0..Len(p) /\ SubSeq(p, 1, Len(q)) = q
<1> DEFINE s == SubSeq(p, 1, Len(q))
<1>1. Len(q) \in 0..Len(p)
  BY DEF Paths
<1>2. s \in Paths /\ Len(s) = Len(q) /\ \A i \in 1..Len(q) : s[i] = p[i]
  BY <1>1, FirstNames
<1> HIDE DEF s
<1>3. s = q
  BY <1>2, SamePath
<1> QED BY <1>1, <1>3 DEF s

LEMMA LastNames ==
  ASSUME NEW p \in Paths, NEW k \in 0..Len(p)
  PROVE  /\ SubSeq(p, k + 1, Len(p)) \in Paths /\ Len(SubSeq(p, k + 1, Len(p))) = Len(p) - k
         /\ \A i \in 1..(Len(p) - k) : SubSeq(p, k + 1, Len(p))[i] = p[k + i]
BY SubSeqProperties DEF Paths

LEMMA Joined ==
  ASSUME NEW p \in Paths, NEW q \in Paths
  PROVE  /\ p \o q \in Paths /\ Len(p \o q) = Len(p) + Len(q)
         /\ \A i \in 1..(Len(p) + Len(q)) : (p \o q)[i] = IF i <= Len(p) THEN p[i] ELSE q[i - Len(p)]
BY ConcatProperties DEF Paths

LEMMA PrefixNames ==
  ASSUME NEW q \in Paths, NEW p \in Paths
  PROVE  /\ IsPrefix(q, p) <=> Len(q) <= Len(p) /\ \A i \in 1..Len(q) : q[i] = p[i]
         /\ IsStrictPrefix(q, p) <=> IsPrefix(q, p) /\ Len(q) < Len(p)
<1>1. IsPrefix(q, p) <=> Len(q) <= Len(p) /\ \A i \in 1..Len(q) : q[i] = p[i]
  <2>1. ASSUME Len(q) <= Len(p)
        PROVE  SubSeq(q, 1, Len(q)) = SubSeq(p, 1, Len(q)) <=> \A i \in 1..Len(q) : q[i] = p[i]
    <3>1. Len(q) \in 0..Len(q) /\ Len(q) \in 0..Len(p)
      BY <2>1 DEF Paths
    <3>2. SubSeq(q, 1, Len(q)) = q
      BY FirstNamesAre
    <3>3. \A i \in 1..Len(q) : SubSeq(p, 1, Len(q))[i] = p[i]
      BY <3>1, FirstNames
    <3>4. ASSUME \A i \in 1..Len(q) : q[i] = p[i] PROVE SubSeq(p, 1, Len(q)) = q
      BY <2>1, <3>4, FirstNamesAre
    <3> QED BY <3>2, <3>3, <3>4
  <2> QED BY <2>1 DEF IsPrefix
<1>2. IsStrictPrefix(q, p) <=> IsPrefix(q, p) /\ Len(q) < Len(p)
  <2>1. ASSUME IsPrefix(q, p), Len(q) >= Len(p) PROVE q = p
    BY <1>1, <2>1, SamePath DEF Paths
  <2> QED BY <1>1, <2>1 DEF IsStrictPrefix, Paths
<1> QED BY <1>1, <1>2

LEMMA AbovePrefix ==
  ASSUME NEW p \in Paths
  PROVE  /\ \A q \in Above(p) : q \in Paths
         /\ \A q \in Paths : q \in Above(p) <=> IsStrictPrefix(q, p)
<1>1. ASSUME NEW q \in Above(p) PROVE q \in Paths /\ IsStrictPrefix(q, p)
  <2>1. PICK k \in 0..(Len(p) - 1) : q = SubSeq(p, 1, k)
    BY DEF Above
  <2>2. k \in Nat /\ k < Len(p) /\ k <= Len(p) /\ k \in 0..Len(p)
    BY DEF Paths
  <2>3. q \in Paths /\ Len(q) = k /\ \A i \in 1..k : q[i] = p[i]
    BY <2>1, <2>2, FirstNames
  <2> QED BY <2>2, <2>3, PrefixNames
<1>2. ASSUME NEW q \in Paths, IsStrictPrefix(q, p) PROVE q \in Above(p)
  <2>1. Len(q) \in 0..(Len(p) - 1) /\ Len(q) \in 0..Len(p)
    BY <1>2, PrefixNames DEF Paths
  <2>2. SubSeq(p, 1, Len(q)) = q
    BY <1>2, <2>1, FirstNamesAre, PrefixNames
  <2> QED BY <2>1, <2>2 DEF Above
<1> QED BY <1>1, <1>2

LEMMA PrefixesOrdered ==
  ASSUME NEW p \in Paths, NEW q \in Paths, NEW r \in Paths
  PROVE  /\ IsPrefix(p, q) /\ IsPrefix(q, r) => IsPrefix(p, r)
         /\ IsPrefix(p, r) /\ IsPrefix(q, r) => IsPrefix(p, q) \/ IsStrictPrefix(q, p)
         /\ IsPrefix(p, p \o q)
         /\ IsPrefix(p, q) => IsPrefix(p, q \o r)
<1>1. Len(p) \in Nat /\ Len(q) \in Nat /\ Len(r) \in Nat
  BY DEF Paths
<1>2. IsPrefix(p, q) /\ IsPrefix(q, r) => IsPrefix(p, r)
  BY <1>1, PrefixNames
<1>3. IsPrefix(p, r) /\ IsPrefix(q, r) => IsPrefix(p, q) \/ IsStrictPrefix(q, p)
  BY <1>1, PrefixNames
<1>4. ASSUME NEW x \in Paths, NEW y \in Paths PROVE IsPrefix(x, x \o y)
  <2> DEFINE z == x \o y
  <2>1. z \in Paths /\ Len(z) = Len(x) + Len(y) /\ Len(x) \in Nat /\ Len(y) \in Nat
        /\ \A i \in 1..(Len(x) + Len(y)) : z[i] = IF i <= Len(x) THEN x[i] ELSE y[i - Len(x)]
    BY Joined DEF Paths
  <2> HIDE DEF z
  <2>2. \A i \in 1..Len(x) : i \in 1..(Len(x) + Len(y)) /\ x[i] = z[i]
    BY <2>1
  <2>3. IsPrefix(x, z)
    BY <2>1, <2>2, PrefixNames
  <2> QED BY <2>3 DEF z
<1>5. ASSUME IsPrefix(p, q) PROVE IsPrefix(p, q \o r)
  <2>1. q \o r \in Paths
    BY Joined
  <2>2. \A x \in Paths : IsPrefix(q, x) => IsPrefix(p, x)
    BY <1>1, <1>5, PrefixNames
  <2> QED BY <1>4, <2>1, <2>2
<1> QED BY <1>2, <1>3, <1>4, <1>5

\* A path but for its first part.
LEMMA PrefixRest ==
  ASSUME NEW p \in Paths, NEW q \in Paths, IsPrefix(q, p)
  PROVE  /\ Len(q) \in 0..Len(p) /\ SubSeq(p, 1, Len(q)) = q
         /\ p = q \o SubSeq(p, Len(q) + 1, Len(p))
<1>1. Len(q) \in 0..Len(p) /\ Len(p) \in Nat
  BY PrefixNames DEF Paths
<1>2. SubSeq(p, 1, Len(q)) = q
  BY FirstNamesAre, PrefixNames
<1>3. p = q \o SubSeq(p, Len(q) + 1, Len(p))
  <2> DEFINE r == SubSeq(p, Len(q) + 1, Len(p))
  <2>1. r \in Paths /\ Len(r) = Len(p) - Len(q) /\ \A i \in 1..(Len(p) - Len(q)) : r[i] = p[Len(q) + i]
    BY <1>1, LastNames
  <2> HIDE DEF r
  <2>2. q \o r \in Paths /\ Len(q \o r) = Len(p)
        /\ \A i \in 1..Len(p) : (q \o r)[i] = IF i <= Len(q) THEN q[i] ELSE r[i - Len(q)]
    BY <1>1, <2>1, Joined
  <2>3. \A i \in 1..Len(p) : (q \o r)[i] = p[i]
    BY <1>1, <2>1, <2>2, PrefixNames
  <2>4. p = q \o r
    BY <2>2, <2>3, SamePath
  <2> QED BY <2>4 DEF r
<1> QED BY <1>1, <1>2, <1>3

LEMMA FrontAndLast ==
  ASSUME NEW p \in Paths, p # << >>
  PROVE  /\ Front(p) \in Paths /\ Last(p) \in Names /\ Len(Front(p)) = Len(p) - 1
         /\ p = Append(Front(p), Last(p))
         /\ Front(p) \in Above(p) /\ IsStrictPrefix(Front(p), p)
<1>1. Len(p) \in Nat \ {0} /\ Len(p) - 1 \in 0..Len(p) /\ Len(p) - 1 \in 0..(Len(p) - 1)
  BY DEF Paths
<1>2. Front(p) \in Paths /\ Len(Front(p)) = Len(p) - 1 /\ \A i \in 1..(Len(p) - 1) : Front(p)[i] = p[i]
  BY <1>1, FirstNames DEF Front
<1>3. Front(p) \in Above(p)
  BY <1>1 DEF Front, Above
<1>4. Last(p) \in Names
  BY <1>1 DEF Last, Paths
<1>5. p = Append(Front(p), Last(p))
  <2>1. Append(Front(p), Last(p)) \in Paths /\ Len(Append(Front(p), Last(p))) = Len(p)
        /\ \A i \in 1..Len(p) : Append(Front(p), Last(p))[i] = IF i = Len(p) THEN p[i] ELSE Front(p)[i]
    BY <1>1, <1>2, <1>4, AppendProperties DEF Paths, Last
  <2> DEFINE s == Append(Front(p), Last(p))
  <2>2. \A i \in 1..Len(p) : s[i] = p[i]
    BY <1>1, <1>2, <2>1
  <2> HIDE DEF s
  <2>3. p = s
    BY <2>1, <2>2, SamePath DEF s
  <2> QED BY <2>3 DEF s
<1> QED BY <1>2, <1>3, <1>4, <1>5, AbovePrefix

\* One name more.
LEMMA OneMore ==
  ASSUME NEW p \in Paths, NEW x \in Names
  PROVE  /\ Append(p, x) \in Paths /\ Append(p, x) # << >>
         /\ Front(Append(p, x)) = p
         /\ \A q \in Paths : IsStrictPrefix(q, Append(p, x)) <=> IsPrefix(q, p)
<1> DEFINE r == Append(p, x)
<1>1. r \in Paths /\ Len(r) = Len(p) + 1 /\ (\A i \in 1..Len(p) : r[i] = p[i]) /\ Len(p) \in Nat
  BY AppendProperties DEF Paths
<1>2. Len(r) # 0 /\ r # << >>
  BY <1>1
<1> HIDE DEF r
<1>3. Front(r) = p
  <2>1. SubSeq(r, 1, Len(p)) = p
    BY <1>1, FirstNamesAre
  <2> QED BY <1>1, <2>1 DEF Front
<1>4. ASSUME NEW q \in Paths PROVE IsStrictPrefix(q, r) <=> IsPrefix(q, p)
  <2>1. Len(q) \in Nat
    BY DEF Paths
  <2> QED BY <1>1, <2>1, PrefixNames
<1> QED BY <1>1, <1>2, <1>3, <1>4 DEF r

----------------------------------------------------------------------------
(* Where paths lead.                                                       *)

\* What is there is an object, below directories.
LEMMA TreeObjects ==
  ASSUME NEW t, IsTree(t), NEW p \in DOMAIN t
  PROVE  /\ p \in Paths /\ t[p] \in Objects /\ t[p].to \in Paths
         /\ t[p].type = "file" => t[p].ino \in Inodes
         /\ \A q \in Paths : IsStrictPrefix(q, p) => IsA(t, "dir", q)
<1>1. p \in Paths /\ t[p] \in Objects
  BY DEF IsTree
<1>2. t[p].to \in Paths
  BY <1>1 DEF Objects
<1> QED BY <1>1, <1>2, AbovePrefix DEF IsTree

\* What a link stands for is a path.
LEMMA AimPath ==
  ASSUME NEW t, IsTree(t), NEW p \in DOMAIN t
  PROVE  Aim(t, p) \in Paths
<1>1. p \in Paths /\ t[p].to \in Paths /\ t[p].up \in Nat \cup {None} /\ Len(p) \in Nat
  BY TreeObjects DEF Objects, Paths
<1>2. ASSUME t[p].up # None PROVE Ancestor(p, t[p].up) \in Paths
  <2> DEFINE k == IF t[p].up < Len(p) THEN Len(p) - 1 - t[p].up ELSE 0
  <2>1. k \in 0..Len(p)
    BY <1>1, <1>2
  <2> HIDE DEF k
  <2>2. SubSeq(p, 1, k) \in Paths
    BY <1>1, <2>1, FirstNames
  <2> QED BY <2>2 DEF Ancestor, k
<1> QED BY <1>1, <1>2, Joined DEF Aim

LEMMA FirstLink ==
  ASSUME NEW t, NEW p \in Paths, LinksOn(t, p) # {}
  PROVE  /\ Min(LinksOn(t, p)) \in LinksOn(t, p) /\ Min(LinksOn(t, p)) \in 1..Len(p)
         /\ \A j \in LinksOn(t, p) : Min(LinksOn(t, p)) <= j
<1> DEFINE S == LinksOn(t, p)
<1>1. S \subseteq 1..Len(p) /\ S \in SUBSET Nat
  BY DEF LinksOn, Paths
<1> HIDE DEF S
<1>2. S # {}
  BY DEF S
<1>3. \E x \in S : \A y \in S : x <= y
  BY <1>1, <1>2, LeastNumber
<1>4. Min(S) \in S /\ \A y \in S : Min(S) <= y
  BY <1>3 DEF Min
<1> QED BY <1>1, <1>4 DEF S

\* One link replaced: its target and what is behind it.
LEMMA FollowIs ==
  ASSUME NEW t, IsTree(t), NEW p \in Paths, LinksOn(t, p) # {}
  PROVE  \E k \in 1..Len(p) :
           /\ IsA(t, "link", SubSeq(p, 1, k))
           /\ \A j \in 1..(k - 1) : ~IsA(t, "link", SubSeq(p, 1, j))
           /\ SubSeq(p, 1, k) \in DOMAIN t /\ Aim(t, SubSeq(p, 1, k)) \in Paths
           /\ SubSeq(p, k + 1, Len(p)) \in Paths
           /\ Follow(t, p) = Aim(t, SubSeq(p, 1, k)) \o SubSeq(p, k + 1, Len(p))
<1> DEFINE k == Min(LinksOn(t, p))
<1>1. k \in 1..Len(p) /\ k \in LinksOn(t, p) /\ \A j \in LinksOn(t, p) : k <= j
  BY FirstLink
<1>2. Follow(t, p) = Aim(t, SubSeq(p, 1, k)) \o SubSeq(p, k + 1, Len(p))
  BY DEF Follow
<1> HIDE DEF k
<1>3. IsA(t, "link", SubSeq(p, 1, k)) /\ Len(p) \in Nat
  BY <1>1 DEF LinksOn, Paths
<1>4. ASSUME NEW j \in 1..(k - 1) PROVE ~IsA(t, "link", SubSeq(p, 1, j))
  BY <1>1, <1>3 DEF LinksOn
<1>5. SubSeq(p, 1, k) \in DOMAIN t /\ Aim(t, SubSeq(p, 1, k)) \in Paths
  BY <1>3, AimPath DEF IsA
<1>6. SubSeq(p, k + 1, Len(p)) \in Paths
  BY <1>1, <1>3, LastNames
<1> QED BY <1>1, <1>2, <1>3, <1>4, <1>5, <1>6

LEMMA FollowPath ==
  ASSUME NEW t, IsTree(t), NEW p \in Paths
  PROVE  Follow(t, p) \in Paths
<1>1. CASE LinksOn(t, p) = {}
  BY <1>1 DEF Follow
<1>2. CASE LinksOn(t, p) # {}
  <2>1. \E q, r \in Paths : Follow(t, p) = q \o r
    BY <1>2, FollowIs
  <2> QED BY <2>1, Joined
<1> QED BY <1>1, <1>2

LEMMA FollowedIs ==
  ASSUME NEW t, IsTree(t), NEW p \in Paths
  PROVE  LET after == Followed(t, p)
         IN /\ after \in [0..MaxHops -> Paths] /\ after[0] = p
            /\ \A n \in 1..MaxHops : after[n] = Follow(t, after[n - 1])
<1> DEFINE Body(g) == [n \in 0..MaxHops |-> IF n = 0 THEN p ELSE Follow(t, g[n - 1])]
           after == CHOOSE g : g = Body(g)
<1>1. MaxHops \in Nat
  BY FileTreeAssumption
<1>2. PICK f \in [0..MaxHops -> Paths] : f[0] = p /\ \A n \in 1..MaxHops : f[n] = Follow(t, f[n - 1])
  <2> DEFINE Up(n, g) == g[0] = p /\ \A m \in 1..n : g[m] = Follow(t, g[m - 1])
             Some == {n \in 0..MaxHops : \E g \in [0..MaxHops -> Paths] : Up(n, g)}
  <2>1. 0 \in Some
    <3>1. [i \in 0..MaxHops |-> p] \in [0..MaxHops -> Paths] /\ Up(0, [i \in 0..MaxHops |-> p])
      BY <1>1
    <3> HIDE DEF Up
    <3> QED BY <1>1, <3>1
  <2>2. ASSUME NEW n \in 1..MaxHops, n - 1 \in Some PROVE n \in Some
    <3>1. PICK g \in [0..MaxHops -> Paths] : Up(n - 1, g)
      BY <2>2
    <3>2. g[n - 1] \in Paths
      BY <1>1
    <3>3. Follow(t, g[n - 1]) \in Paths
      BY <3>2, FollowPath
    <3> DEFINE h == [g EXCEPT ![n] = Follow(t, g[n - 1])]
    <3>4. h \in [0..MaxHops -> Paths] /\ Up(n, h)
      BY <1>1, <3>1, <3>3
    <3> HIDE DEF h, Up
    <3> QED BY <1>1, <3>4
  <2>3. MaxHops \in Some
    <3> HIDE DEF Some
    <3> QED BY <1>1, <2>1, <2>2, SetInduction
  <2> QED BY <2>3
<1>3. f = Body(f)
  BY <1>1, <1>2
<1>4. after = Body(after)
  <2> HIDE DEF Body
  <2> QED BY <1>3
<1>5. Followed(t, p) = after
  BY DEF Followed
<1> HIDE DEF after
<1>6. after[0] = p /\ \A n \in 1..MaxHops : after[n] = Follow(t, after[n - 1])
  BY <1>1, <1>4
<1>7. \A n \in 0..MaxHops : after[n] = f[n]
  <2> DEFINE S == {n \in 0..MaxHops : after[n] = f[n]}
  <2>1. 0 \in S
    BY <1>1, <1>2, <1>6
  <2>2. ASSUME NEW n \in 1..MaxHops, n - 1 \in S PROVE n \in S
    BY <1>1, <1>2, <1>6, <2>2
  <2>3. 0..MaxHops \subseteq S
    <3> HIDE DEF S
    <3> QED BY <1>1, <2>1, <2>2, SetInduction
  <2> QED BY <2>3
<1>8. after \in [0..MaxHops -> Paths]
  BY <1>1, <1>2, <1>4, <1>7
<1> QED BY <1>5, <1>6, <1>8

LEMMA FinalPath ==
  ASSUME NEW t, IsTree(t), NEW p \in Paths
  PROVE  /\ Final(t, p) \in Paths \cup {None}
         /\ Final(t, p) # None => Final(t, p) = Followed(t, p)[MaxHops] /\ LinksOn(t, Final(t, p)) = {}
         /\ LinksOn(t, Followed(t, p)[MaxHops]) = {} => Final(t, p) = Followed(t, p)[MaxHops]
<1>1. MaxHops \in 0..MaxHops
  BY FileTreeAssumption
<1>2. Followed(t, p)[MaxHops] \in Paths
  BY <1>1, FollowedIs
<1> QED BY <1>2 DEF Final

LEMMA LeadsPath ==
  ASSUME NEW t, IsTree(t), NEW p \in Paths
  PROVE  /\ None \notin DOMAIN t
         /\ Leads(t, p) # None <=> Leads(t, p) \in DOMAIN t
         /\ Leads(t, p) # None => Leads(t, p) = Final(t, p) /\ Leads(t, p) \in Paths
         /\ Leads(t, p) = None <=> Final(t, p) \notin DOMAIN t
<1>1. None \notin DOMAIN t
  BY FileTreeAssumption DEF IsTree
<1> QED BY <1>1 DEF Leads, IsTree

\* What holds of p and stays true of a path that is followed holds in the end.
LEMMA FollowedIn ==
  ASSUME NEW t, IsTree(t), NEW p \in Paths, NEW S, p \in S,
         \A q \in Paths : q \in S => Follow(t, q) \in S
  PROVE  Followed(t, p)[MaxHops] \in S
<1> DEFINE T == {n \in 0..MaxHops : Followed(t, p)[n] \in S}
<1>1. MaxHops \in Nat
  BY FileTreeAssumption
<1>2. 0 \in T
  BY <1>1, FollowedIs
<1>3. ASSUME NEW n \in 1..MaxHops, n - 1 \in T PROVE n \in T
  <2>1. Followed(t, p)[n - 1] \in Paths /\ Followed(t, p)[n] = Follow(t, Followed(t, p)[n - 1])
    BY <1>1, FollowedIs
  <2> QED BY <1>1, <1>3, <2>1
<1>4. MaxHops \in T
  <2> HIDE DEF T
  <2> QED BY <1>1, <1>2, <1>3, SetInduction
<1> QED BY <1>4

LEMMA NoLinks ==
  ASSUME NEW t, IsTree(t), NEW p \in Paths, LinksOn(t, p) = {}
  PROVE  Final(t, p) = p
<1>1. Follow(t, p) = p
  BY DEF Follow
<1>2. Followed(t, p)[MaxHops] \in {p}
  BY <1>1, FollowedIn
<1> QED BY <1>2, FinalPath

\* Links on a first part of a path are links on the path.
LEMMA LinksOnPrefix ==
  ASSUME NEW t, NEW p \in Paths, NEW q \in Paths, IsPrefix(q, p)
  PROVE  /\ \A k \in 1..Len(q) : SubSeq(q, 1, k) = SubSeq(p, 1, k)
         /\ \A k \in 1..Len(p) : k \in LinksOn(t, q) <=> k \in LinksOn(t, p) /\ k <= Len(q)
         /\ LinksOn(t, q) \subseteq LinksOn(t, p)
<1>1. Len(q) \in Nat /\ Len(p) \in Nat /\ Len(q) <= Len(p) /\ \A i \in 1..Len(q) : q[i] = p[i]
  BY PrefixNames DEF Paths
<1>2. ASSUME NEW k \in 1..Len(q) PROVE SubSeq(q, 1, k) = SubSeq(p, 1, k)
  <2> DEFINE s == SubSeq(q, 1, k)
  <2>1. s \in Paths /\ Len(s) = k /\ \A i \in 1..k : s[i] = q[i]
    BY <1>1, FirstNames
  <2> HIDE DEF s
  <2>2. Len(s) <= Len(p) /\ \A i \in 1..Len(s) : s[i] = p[i]
    BY <1>1, <2>1
  <2>3. SubSeq(p, 1, Len(s)) = s
    BY <2>1, <2>2, FirstNamesAre
  <2> QED BY <2>1, <2>3 DEF s
<1>3. ASSUME NEW k \in 1..Len(p) PROVE k \in LinksOn(t, q) <=> k \in LinksOn(t, p) /\ k <= Len(q)
  <2>1. CASE k <= Len(q)
    <3>1. k \in 1..Len(q)
      BY <1>1, <2>1
    <3>2. SubSeq(q, 1, k) = SubSeq(p, 1, k)
      BY <1>2, <3>1
    <3> QED BY <2>1, <3>1, <3>2 DEF LinksOn
  <2>2. CASE ~(k <= Len(q))
    BY <1>1, <2>2 DEF LinksOn
  <2> QED BY <2>1, <2>2
<1>4. LinksOn(t, q) \subseteq 1..Len(p)
  BY <1>1 DEF LinksOn
<1> QED BY <1>2, <1>3, <1>4

\* While there are links on the first part of a path, they are the ones that are followed.
LEMMA FollowJoined ==
  ASSUME NEW t, IsTree(t), NEW q \in Paths, NEW r \in Paths, LinksOn(t, q) # {}
  PROVE  Follow(t, q \o r) = Follow(t, q) \o r
<1> DEFINE p == q \o r
<1>1. p \in Paths /\ Len(p) = Len(q) + Len(r) /\ Len(q) \in Nat /\ Len(r) \in Nat
      /\ (\A i \in 1..(Len(q) + Len(r)) : p[i] = IF i <= Len(q) THEN q[i] ELSE r[i - Len(q)])
      /\ IsPrefix(q, p)
  BY Joined, PrefixesOrdered DEF Paths
<1> HIDE DEF p
<1>2. /\ \A k \in 1..Len(q) : SubSeq(q, 1, k) = SubSeq(p, 1, k)
      /\ LinksOn(t, p) # {}
  BY <1>1, LinksOnPrefix
<1>3. PICK k \in 1..Len(q) :
        /\ IsA(t, "link", SubSeq(q, 1, k))
        /\ \A j \in 1..(k - 1) : ~IsA(t, "link", SubSeq(q, 1, j))
        /\ Aim(t, SubSeq(q, 1, k)) \in Paths
        /\ SubSeq(q, k + 1, Len(q)) \in Paths
        /\ Follow(t, q) = Aim(t, SubSeq(q, 1, k)) \o SubSeq(q, k + 1, Len(q))
  BY FollowIs
<1>4. PICK l \in 1..Len(p) :
        /\ IsA(t, "link", SubSeq(p, 1, l))
        /\ \A j \in 1..(l - 1) : ~IsA(t, "link", SubSeq(p, 1, j))
        /\ Follow(t, p) = Aim(t, SubSeq(p, 1, l)) \o SubSeq(p, l + 1, Len(p))
  BY <1>1, <1>2, FollowIs
<1>5. k = l
  <2>1. IsA(t, "link", SubSeq(p, 1, k)) /\ k \in 1..Len(p)
    <3>1. SubSeq(q, 1, k) = SubSeq(p, 1, k)
      BY <1>2
    <3>2. IsA(t, "link", SubSeq(p, 1, k))
      BY <1>3, <3>1
    <3>3. k \in 1..Len(p)
      BY <1>1
    <3> QED BY <3>2, <3>3
  <2>2. ~(k < l)
    BY <1>1, <1>4, <2>1
  <2>3. ~(l < k)
    <3> SUFFICES ASSUME l < k PROVE FALSE
      OBVIOUS
    <3>1. l \in 1..Len(q) /\ l \in 1..(k - 1)
      BY <1>1
    <3> QED BY <1>2, <1>3, <1>4, <3>1
  <2> QED BY <1>1, <2>2, <2>3
<1>6. SubSeq(p, k + 1, Len(p)) = SubSeq(q, k + 1, Len(q)) \o r
  <2> DEFINE a == SubSeq(p, k + 1, Len(p))
             b == SubSeq(q, k + 1, Len(q))
  <2>1. k \in 0..Len(p) /\ k \in 0..Len(q) /\ k \in Nat
    BY <1>1
  <2>2. a \in Paths /\ Len(a) = Len(p) - k /\ \A i \in 1..(Len(p) - k) : a[i] = p[k + i]
    BY <1>1, <2>1, LastNames
  <2>3. b \in Paths /\ Len(b) = Len(q) - k /\ \A i \in 1..(Len(q) - k) : b[i] = q[k + i]
    BY <2>1, LastNames
  <2> HIDE DEF a, b
  <2>4. b \o r \in Paths /\ Len(b \o r) = Len(b) + Len(r)
        /\ \A i \in 1..(Len(b) + Len(r)) : (b \o r)[i] = IF i <= Len(b) THEN b[i] ELSE r[i - Len(b)]
    BY <2>3, Joined
  <2>5. ASSUME NEW i \in 1..Len(a) PROVE a[i] = (b \o r)[i]
    <3>1. a[i] = p[k + i] /\ k + i \in 1..(Len(q) + Len(r)) /\ i \in 1..(Len(b) + Len(r))
      BY <1>1, <2>1, <2>2, <2>3
    <3>2. CASE i <= Len(b)
      BY <1>1, <2>1, <2>3, <2>4, <3>1, <3>2
    <3>3. CASE ~(i <= Len(b))
      <4>1. ~(i <= Len(b)) /\ ~(k + i <= Len(q)) /\ k + i - Len(q) = i - Len(b)
        BY <1>1, <2>1, <2>3, <3>3
      <4> QED BY <1>1, <2>4, <3>1, <4>1
    <3> QED BY <3>2, <3>3
  <2>6. Len(a) = Len(b \o r)
    BY <1>1, <2>1, <2>2, <2>3, <2>4
  <2>7. a = b \o r
    BY <2>2, <2>4, <2>5, <2>6, SamePath
  <2> QED BY <2>7 DEF a, b
<1>7. Follow(t, p) = (Aim(t, SubSeq(q, 1, k)) \o SubSeq(q, k + 1, Len(q))) \o r
  <2>1. Follow(t, p) = Aim(t, SubSeq(q, 1, k)) \o (SubSeq(q, k + 1, Len(q)) \o r)
    BY <1>2, <1>3, <1>4, <1>5, <1>6
  <2>2. \A x, y \in Paths : x \o (y \o r) = (x \o y) \o r
    <3>1. \A a, b, c \in Seq(Names) : (a \o b) \o c = a \o (b \o c)
      BY ConcatAssociative
    <3> QED BY <3>1 DEF Paths
  <2> QED BY <1>3, <2>1, <2>2
<1> QED BY <1>3, <1>7 DEF p

\* What leads somewhere does so through directories: a first part of it does, too.
LEMMA PrefixLeads ==
  ASSUME NEW t, IsTree(t), NEW p \in Paths, NEW q \in Paths, IsPrefix(q, p), Leads(t, p) # None
  PROVE  Leads(t, q) # None
<1> DEFINE r == SubSeq(p, Len(q) + 1, Len(p))
           A == Followed(t, p)
           B == Followed(t, q)
           Ended(n) == LinksOn(t, B[n]) = {} /\ B[n] \in DOMAIN t
           S == {n \in 0..MaxHops : A[n] = B[n] \o r \/ Ended(n)}
<1>1. MaxHops \in Nat
  BY FileTreeAssumption
<1>2. p = q \o r /\ r \in Paths
  BY PrefixRest, LastNames
<1>3. /\ A \in [0..MaxHops -> Paths] /\ A[0] = p
      /\ \A n \in 1..MaxHops : A[n] = Follow(t, A[n - 1])
  BY FollowedIs
<1>4. /\ B \in [0..MaxHops -> Paths] /\ B[0] = q
      /\ \A n \in 1..MaxHops : B[n] = Follow(t, B[n - 1])
  BY FollowedIs
<1> HIDE DEF A, B, r
<1>5. 0 \in S
  BY <1>1, <1>2, <1>3, <1>4
<1>6. ASSUME NEW n \in 1..MaxHops, n - 1 \in S PROVE n \in S
  <2>1. n \in 0..MaxHops /\ n - 1 \in 0..MaxHops
    BY <1>1
  <2>2. A[n - 1] \in Paths /\ B[n - 1] \in Paths
    BY <1>3, <1>4, <2>1
  <2>3. CASE Ended(n - 1)
    <3>1. B[n] = B[n - 1]
      BY <1>4, <2>3 DEF Follow
    <3> QED BY <2>1, <2>3, <3>1
  <2>4. CASE A[n - 1] = B[n - 1] \o r /\ LinksOn(t, B[n - 1]) # {}
    <3>1. A[n] = Follow(t, B[n - 1] \o r) /\ B[n] = Follow(t, B[n - 1])
      BY <1>3, <1>4, <2>4
    <3>2. A[n] = B[n] \o r
      <4>1. PICK x \in Paths : x = B[n - 1]
        BY <2>2
      <4>2. Follow(t, x \o r) = Follow(t, x) \o r
        BY <1>2, <2>4, <4>1, FollowJoined
      <4> QED BY <3>1, <4>1, <4>2
    <3> QED BY <2>1, <3>2
  <2>5. CASE A[n - 1] = B[n - 1] \o r /\ LinksOn(t, B[n - 1]) = {}
    <3>1. B[n] = B[n - 1]
      BY <1>4, <2>5 DEF Follow
    <3>2. CASE LinksOn(t, A[n - 1]) = {}
      <4>1. A[n] = A[n - 1]
        BY <1>3, <3>2 DEF Follow
      <4> QED BY <2>1, <2>5, <3>1, <4>1
    <3>3. CASE LinksOn(t, A[n - 1]) # {}
      <4>1. PICK k \in LinksOn(t, A[n - 1]) : TRUE
        BY <3>3
      <4>2. k \in 1..Len(A[n - 1]) /\ IsA(t, "link", SubSeq(A[n - 1], 1, k)) /\ k \in 0..Len(A[n - 1])
        BY <2>2 DEF LinksOn, Paths
      <4>3. IsPrefix(B[n - 1], A[n - 1])
        BY <1>2, <2>2, <2>5, PrefixesOrdered
      <4>4. ~(k <= Len(B[n - 1]))
        <5>1. \A j \in 1..Len(A[n - 1]) :
                j \in LinksOn(t, B[n - 1]) <=> j \in LinksOn(t, A[n - 1]) /\ j <= Len(B[n - 1])
          BY <2>2, <4>3, LinksOnPrefix
        <5> QED BY <2>5, <4>1, <4>2, <5>1
      <4> DEFINE l == SubSeq(A[n - 1], 1, k)
      <4>5. l \in Paths /\ Len(l) = k /\ IsPrefix(l, A[n - 1])
        <5>1. l \in Paths /\ Len(l) = k /\ \A i \in 1..k : l[i] = A[n - 1][i]
          BY <2>2, <4>2, FirstNames
        <5> HIDE DEF l
        <5> QED BY <2>2, <4>2, <5>1, PrefixNames
      <4>6. l \in DOMAIN t
        BY <4>2 DEF IsA
      <4> HIDE DEF l
      <4>7. IsStrictPrefix(B[n - 1], l)
        <5>1. IsPrefix(B[n - 1], l) \/ IsStrictPrefix(l, B[n - 1])
          BY <2>2, <4>3, <4>5, PrefixesOrdered
        <5>2. Len(B[n - 1]) \in Nat /\ k \in Nat
          BY <2>2, <4>2 DEF Paths
        <5> QED BY <2>2, <4>4, <4>5, <5>1, <5>2, PrefixNames
      <4>8. B[n - 1] \in DOMAIN t
        BY <2>2, <4>6, <4>7, TreeObjects DEF IsA
      <4> QED BY <2>1, <2>5, <3>1, <4>8
    <3> QED BY <3>2, <3>3
  <2> QED BY <1>6, <2>3, <2>4, <2>5
<1>7. MaxHops \in S
  <2> HIDE DEF S
  <2> QED BY <1>1, <1>5, <1>6, SetInduction
<1>8. A[MaxHops] \in DOMAIN t /\ LinksOn(t, A[MaxHops]) = {}
  BY LeadsPath, FinalPath DEF A
<1>9. Ended(MaxHops)
  <2>1. SUFFICES ASSUME A[MaxHops] = B[MaxHops] \o r PROVE Ended(MaxHops)
    BY <1>7
  <2>2. MaxHops \in 0..MaxHops /\ A[MaxHops] \in Paths /\ B[MaxHops] \in Paths
    BY <1>1, <1>3, <1>4
  <2>3. IsPrefix(B[MaxHops], A[MaxHops])
    BY <1>2, <2>1, <2>2, PrefixesOrdered
  <2>4. LinksOn(t, B[MaxHops]) = {}
    BY <1>8, <2>2, <2>3, LinksOnPrefix
  <2>5. B[MaxHops] \in DOMAIN t
    <3>1. CASE B[MaxHops] = A[MaxHops]
      BY <1>8, <3>1
    <3>2. CASE B[MaxHops] # A[MaxHops]
      BY <1>8, <2>2, <2>3, <3>2, TreeObjects DEF IsStrictPrefix, IsA
    <3> QED BY <3>1, <3>2
  <2> QED BY <2>4, <2>5
<1> QED BY <1>9, FinalPath, LeadsPath DEF B

----------------------------------------------------------------------------
(* Below the root.                                                         *)

LEMMA RootPath == Root \in Paths
BY SftpAssumption DEF Root, Paths

LEMMA AboveRoot ==
  ASSUME NEW q \in Above(Root)
  PROVE  q \in Paths /\ IsStrictPrefix(q, Root) /\ ~Inside(q)
<1>1. q \in Paths /\ IsStrictPrefix(q, Root)
  BY RootPath, AbovePrefix
<1>2. Len(q) \in Nat /\ Len(Root) \in Nat /\ Len(q) < Len(Root)
  BY <1>1, RootPath, PrefixNames DEF Paths
<1> QED BY <1>1, <1>2, RootPath, PrefixNames DEF Inside

\* A closed root keeps its paths, whatever links they lead through.
LEMMA FollowInside ==
  ASSUME NEW t, IsTree(t), Closed(t), NEW p \in Paths, Inside(p)
  PROVE  Inside(Follow(t, p))
<1>1. CASE LinksOn(t, p) = {}
  BY <1>1 DEF Follow
<1>2. CASE LinksOn(t, p) # {}
  <2>1. PICK k \in 1..Len(p) :
          /\ IsA(t, "link", SubSeq(p, 1, k))
          /\ SubSeq(p, 1, k) \in DOMAIN t /\ Aim(t, SubSeq(p, 1, k)) \in Paths
          /\ SubSeq(p, k + 1, Len(p)) \in Paths
          /\ Follow(t, p) = Aim(t, SubSeq(p, 1, k)) \o SubSeq(p, k + 1, Len(p))
    BY <1>2, FollowIs
  <2> DEFINE s == SubSeq(p, 1, k)
  <2>2. s \in Paths /\ IsPrefix(s, p)
    <3>1. k \in 0..Len(p) /\ k \in Nat /\ Len(p) \in Nat
      BY DEF Paths
    <3>2. s \in Paths /\ Len(s) = k /\ \A i \in 1..k : s[i] = p[i]
      BY <3>1, FirstNames
    <3> HIDE DEF s
    <3> QED BY <3>1, <3>2, PrefixNames
  <2>3. IsA(t, "link", s) /\ s \in DOMAIN t
    BY <2>1
  <2>4. Aim(t, s) \in Paths /\ \E r \in Paths : Follow(t, p) = Aim(t, s) \o r
    BY <2>1
  <2> HIDE DEF s
  <2>5. Inside(s)
    <3>1. IsPrefix(Root, s) \/ IsStrictPrefix(s, Root)
      BY <2>2, RootPath, PrefixesOrdered DEF Inside
    <3>2. IsStrictPrefix(s, Root) => IsA(t, "dir", s)
      BY <2>2, RootPath, AbovePrefix DEF Closed, OnWay
    <3> QED BY <2>3, <3>1, <3>2 DEF IsA, Inside
  <2>6. Inside(Aim(t, s))
    BY <2>3, <2>5 DEF Closed, LeadsOut
  <2> QED BY <2>4, <2>6, RootPath, PrefixesOrdered DEF Inside
<1> QED BY <1>1, <1>2

LEMMA FinalInside ==
  ASSUME NEW t, IsTree(t), Closed(t), NEW p \in Paths, Inside(p), Final(t, p) # None
  PROVE  Inside(Final(t, p))
<1> DEFINE S == {q \in Paths : Inside(q)}
<1>1. p \in S /\ \A q \in Paths : q \in S => Follow(t, q) \in S
  BY FollowInside, FollowPath
<1> HIDE DEF S
<1>2. Followed(t, p)[MaxHops] \in S
  BY <1>1, FollowedIn
<1> QED BY <1>2, FinalPath DEF S

LEMMA LeadsInside ==
  ASSUME NEW t, IsTree(t), Closed(t), NEW p \in Paths, Inside(p), Leads(t, p) # None
  PROVE  Inside(Leads(t, p))
<1>1. Leads(t, p) = Final(t, p)
  BY LeadsPath
<1> QED BY <1>1, FinalInside

LEMMA AboveRootLeads ==
  ASSUME NEW t, IsTree(t), Closed(t), NEW q \in Above(Root)
  PROVE  Leads(t, q) = q
<1>1. q \in Paths /\ IsA(t, "dir", q)
  BY AboveRoot DEF Closed, OnWay
<1>2. LinksOn(t, q) = {}
  <2> SUFFICES ASSUME NEW k \in LinksOn(t, q) PROVE FALSE
    OBVIOUS
  <2>1. k \in 1..Len(q) /\ IsA(t, "link", SubSeq(q, 1, k)) /\ Len(q) \in Nat
    BY <1>1 DEF LinksOn, Paths
  <2>2. CASE k = Len(q)
    <3>1. SubSeq(q, 1, k) = q
      BY <1>1, <2>2, FirstNamesAre
    <3> QED BY <1>1, <2>1, <3>1 DEF IsA
  <2>3. CASE k # Len(q)
    <3>1. SubSeq(q, 1, k) \in Above(q)
      BY <2>1, <2>3 DEF Above
    <3>2. IsA(t, "dir", SubSeq(q, 1, k))
      BY <1>1, <3>1 DEF IsTree, IsA
    <3> QED BY <2>1, <3>2 DEF IsA
  <2> QED BY <2>2, <2>3
<1> QED BY <1>1, <1>2, NoLinks DEF Leads, IsA

\* An entry is in a directory.
Fits(t, p) == p \in Paths /\ p # << >> /\ IsA(t, "dir", Front(p))

LEMMA PlaceFits ==
  ASSUME NEW t, IsTree(t), NEW p \in Paths, Place(t, p) # None
  PROVE  /\ Fits(t, Place(t, p))
         /\ p # << >> /\ Leads(t, Front(p)) \in Paths
         /\ Place(t, p) = Append(Leads(t, Front(p)), Last(p))
<1> DEFINE d == Leads(t, Front(p))
<1>1. p # << >> /\ IsA(t, "dir", d) /\ Place(t, p) = Append(d, Last(p))
  BY DEF Place
<1>2. Front(p) \in Paths /\ Last(p) \in Names
  BY <1>1, FrontAndLast
<1>3. d \in Paths
  BY <1>1 DEF IsA, IsTree
<1> HIDE DEF d
<1>4. Append(d, Last(p)) \in Paths /\ Append(d, Last(p)) # << >> /\ Front(Append(d, Last(p))) = d
  BY <1>2, <1>3, OneMore
<1>5. Fits(t, Place(t, p))
  BY <1>1, <1>4 DEF Fits
<1> QED BY <1>1, <1>3, <1>5 DEF d

LEMMA PlaceInside ==
  ASSUME NEW t, IsTree(t), Closed(t), NEW p \in Paths, Inside(p), Place(t, p) # None
  PROVE  Inside(Place(t, p))
<1> DEFINE d == Leads(t, Front(p))
<1>1. p # << >> /\ d \in Paths /\ Place(t, p) = Append(d, Last(p)) /\ d # None
  BY PlaceFits, FileTreeAssumption
<1>2. /\ Front(p) \in Paths /\ Last(p) \in Names /\ p = Append(Front(p), Last(p))
      /\ Front(p) \in Above(p)
  BY <1>1, FrontAndLast
<1>3. CASE p = Root
  <2>1. d = Front(p)
    BY <1>2, <1>3, AboveRootLeads
  <2> QED BY <1>1, <1>2, <2>1
<1>4. CASE p # Root
  <2>1. IsStrictPrefix(Root, p)
    BY <1>4 DEF Inside, IsStrictPrefix
  <2>2. Inside(Front(p))
    BY <1>2, <2>1, RootPath, OneMore DEF Inside
  <2>3. Inside(d)
    BY <1>1, <1>2, <2>2, LeadsInside
  <2> HIDE DEF d
  <2>4. IsStrictPrefix(Root, Append(d, Last(p)))
    BY <1>1, <1>2, <2>3, RootPath, OneMore DEF Inside
  <2> QED BY <1>1, <2>4 DEF Inside, IsStrictPrefix
<1> QED BY <1>3, <1>4

\* The directories above an entry: the one it is in and those above that.
LEMMA AboveFits ==
  ASSUME NEW t, IsTree(t), NEW p, Fits(t, p), NEW q \in Above(p)
  PROVE  q \in Paths /\ IsA(t, "dir", q)
<1>1. p \in Paths /\ Front(p) \in Paths /\ Last(p) \in Names /\ p = Append(Front(p), Last(p))
  BY FrontAndLast DEF Fits
<1>2. q \in Paths /\ IsStrictPrefix(q, p)
  BY <1>1, AbovePrefix
<1>3. IsPrefix(q, Front(p))
  BY <1>1, <1>2, OneMore
<1>4. CASE q = Front(p)
  BY <1>2, <1>4 DEF Fits
<1>5. CASE q # Front(p)
  BY <1>2, <1>3, <1>5, TreeObjects DEF Fits, IsA, IsStrictPrefix
<1> QED BY <1>2, <1>4, <1>5

----------------------------------------------------------------------------
(* What becomes of a tree.                                                 *)

ObjectOK(object) == object \in Objects /\ (object.type = "file" => object.ino \in Inodes)

LEMMA WithTree ==
  ASSUME NEW t, IsTree(t), NEW p, Fits(t, p), p \notin DOMAIN t, NEW object, ObjectOK(object)
  PROVE  /\ IsTree(With(t, p, object))
         /\ Closed(t) =>
              /\ OnWay(With(t, p, object))
              /\ \A q \in LeadsOut(With(t, p, object)) :
                   /\ q = p /\ With(t, p, object)[q] = object /\ object.type = "link"
                   /\ object.up = None => ~Inside(object.to)
         /\ Closed(t) /\ object.type # "link" => Closed(With(t, p, object))
<1> DEFINE m == With(t, p, object)
<1>1. /\ DOMAIN m = DOMAIN t \cup {p} /\ m[p] = object /\ p \in Paths /\ p # << >>
      /\ \A q \in DOMAIN t : m[q] = t[q]
      /\ m = [q \in DOMAIN m |-> m[q]]
  BY DEF With, Fits
<1> HIDE DEF m
<1>2. \A q : IsA(t, "dir", q) => IsA(m, "dir", q)
  BY <1>1 DEF IsA
<1>3. \A q \in Above(p) : IsA(m, "dir", q)
  BY <1>2, AboveFits
<1>4. IsTree(m)
  <2>1. m \in [DOMAIN m -> Objects] /\ DOMAIN m \subseteq Paths /\ << >> \in DOMAIN m
    BY <1>1 DEF IsTree, ObjectOK
  <2>2. ASSUME NEW q \in DOMAIN m
        PROVE  (\A a \in Above(q) : IsA(m, "dir", a)) /\ (m[q].type = "file" => m[q].ino \in Inodes)
    <3>1. CASE q = p
      BY <1>1, <1>3, <3>1 DEF ObjectOK
    <3>2. CASE q \in DOMAIN t
      BY <1>1, <1>2, <3>2 DEF IsTree
    <3> QED BY <1>1, <3>1, <3>2
  <2> QED BY <2>1, <2>2 DEF IsTree
<1>5. OnWay(t) => OnWay(m)
  BY <1>2 DEF OnWay
<1>6. ASSUME NEW q \in LeadsOut(m), LeadsOut(t) = {}
      PROVE  /\ q = p /\ m[q] = object /\ object.type = "link"
             /\ object.up = None => ~Inside(object.to)
  <2>1. q \in DOMAIN m /\ Inside(q) /\ m[q].type = "link" /\ ~Inside(Aim(m, q))
    BY DEF LeadsOut, IsA
  <2>2. q = p
    <3> SUFFICES ASSUME q \in DOMAIN t, q # p PROVE FALSE
      BY <1>1, <2>1
    <3>1. m[q] = t[q]
      BY <1>1
    <3>2. q \in LeadsOut(t)
      BY <2>1, <3>1 DEF LeadsOut, IsA, Aim
    <3> QED BY <1>6, <3>2
  <2> QED BY <1>1, <2>1, <2>2 DEF Aim
<1> QED BY <1>4, <1>5, <1>6 DEF Closed, m

LEMMA WithoutTree ==
  ASSUME NEW t, IsTree(t), NEW p \in DOMAIN t, p # << >>, Children(t, p) = {}
  PROVE  IsTree(Without(t, p)) /\ (Closed(t) /\ Inside(p) => Closed(Without(t, p)))
<1> DEFINE m == Without(t, p)
<1>1. /\ DOMAIN m = DOMAIN t \ {p} /\ (\A q \in DOMAIN m : m[q] = t[q])
      /\ m = [q \in DOMAIN m |-> m[q]]
  BY DEF Without
<1> HIDE DEF m
<1>2. DOMAIN t \subseteq Paths /\ t \in [DOMAIN t -> Objects] /\ << >> \in DOMAIN t
  BY DEF IsTree
<1>3. IsTree(m)
  <2>1. m \in [DOMAIN m -> Objects] /\ DOMAIN m \subseteq Paths /\ << >> \in DOMAIN m
    BY <1>1, <1>2
  <2>2. ASSUME NEW q \in DOMAIN m, NEW a \in Above(q) PROVE IsA(m, "dir", a)
    <3>1. q \in Paths /\ q \in DOMAIN t /\ p \in Paths
      BY <1>1, <1>2
    <3>2. IsA(t, "dir", a)
      BY <3>1 DEF IsTree
    <3>3. a # p
      BY <3>1, AbovePrefix DEF Children
    <3> QED BY <1>1, <3>2, <3>3 DEF IsA
  <2>3. ASSUME NEW q \in DOMAIN m PROVE m[q].type = "file" => m[q].ino \in Inodes
    BY <1>1 DEF IsTree
  <2> QED BY <2>1, <2>2, <2>3 DEF IsTree
<1>4. ASSUME Closed(t), Inside(p) PROVE Closed(m)
  <2>1. ASSUME NEW a \in Above(Root) PROVE IsA(m, "dir", a)
    BY <1>1, <1>4, AboveRoot DEF Closed, OnWay, IsA
  <2>2. ASSUME NEW q \in LeadsOut(m) PROVE q \in LeadsOut(t)
    BY <1>1 DEF LeadsOut, IsA, Aim
  <2> QED BY <1>4, <2>1, <2>2 DEF Closed, OnWay
<1> QED BY <1>3, <1>4 DEF m

\* Of a rename: what is moved, where to, and what is not moved.
Below(t, p) == {q \in DOMAIN t : IsPrefix(p, q)}
Rest(q, p) == SubSeq(q, Len(p) + 1, Len(q))
Renamed(q, p, r) == r \o Rest(q, p)
Kept(t, p, r) == DOMAIN t \ (Below(t, p) \cup {r})

LEMMA JoinedPrefix ==
  ASSUME NEW r \in Paths, NEW x \in Paths, NEW y \in Paths
  PROVE  /\ IsStrictPrefix(r \o x, r \o y) <=> IsStrictPrefix(x, y)
         /\ SubSeq(r \o x, Len(r) + 1, Len(r \o x)) = x
         /\ r \o x = r => x = << >>
<1> DEFINE a == r \o x
           b == r \o y
<1>1. Len(r) \in Nat /\ Len(x) \in Nat /\ Len(y) \in Nat
  BY DEF Paths
<1>2. a \in Paths /\ Len(a) = Len(r) + Len(x)
      /\ \A i \in 1..(Len(r) + Len(x)) : a[i] = IF i <= Len(r) THEN r[i] ELSE x[i - Len(r)]
  BY Joined
<1>3. b \in Paths /\ Len(b) = Len(r) + Len(y)
      /\ \A i \in 1..(Len(r) + Len(y)) : b[i] = IF i <= Len(r) THEN r[i] ELSE y[i - Len(r)]
  BY Joined
<1> HIDE DEF a, b
<1>4. ASSUME NEW i \in 1..Len(x) PROVE a[Len(r) + i] = x[i]
  <2>1. /\ Len(r) + i \in 1..(Len(r) + Len(x)) /\ ~(Len(r) + i <= Len(r))
        /\ Len(r) + i - Len(r) = i
    BY <1>1
  <2> QED BY <1>2, <2>1
<1>5. ASSUME NEW i \in 1..Len(y) PROVE b[Len(r) + i] = y[i]
  <2>1. /\ Len(r) + i \in 1..(Len(r) + Len(y)) /\ ~(Len(r) + i <= Len(r))
        /\ Len(r) + i - Len(r) = i
    BY <1>1
  <2> QED BY <1>3, <2>1
<1>6. ASSUME IsStrictPrefix(a, b) PROVE IsStrictPrefix(x, y)
  <2>1. Len(x) < Len(y) /\ \A i \in 1..Len(a) : a[i] = b[i]
    <3>1. IsPrefix(a, b) /\ Len(a) < Len(b)
      BY <1>2, <1>3, <1>6, PrefixNames
    <3>2. \A i \in 1..Len(a) : a[i] = b[i]
      BY <1>2, <1>3, <3>1, PrefixNames
    <3> QED BY <1>1, <1>2, <1>3, <3>1, <3>2
  <2>2. ASSUME NEW i \in 1..Len(x) PROVE x[i] = y[i]
    <3>1. Len(r) + i \in 1..Len(a) /\ i \in 1..Len(y)
      BY <1>1, <1>2, <2>1
    <3> QED BY <1>4, <1>5, <2>1, <3>1
  <2> QED BY <1>1, <2>1, <2>2, PrefixNames
<1>7. ASSUME IsStrictPrefix(x, y) PROVE IsStrictPrefix(a, b)
  <2>1. Len(x) < Len(y) /\ \A i \in 1..Len(x) : x[i] = y[i]
    BY <1>1, <1>7, PrefixNames
  <2>2. ASSUME NEW i \in 1..Len(a) PROVE a[i] = b[i]
    <3>1. i \in 1..(Len(r) + Len(x)) /\ i \in 1..(Len(r) + Len(y)) /\ i \in Nat
      BY <1>1, <1>2, <2>1
    <3>2. CASE i <= Len(r)
      BY <1>2, <1>3, <3>1, <3>2
    <3>3. CASE ~(i <= Len(r))
      <4>1. i - Len(r) \in 1..Len(x)
        BY <1>1, <3>1, <3>3
      <4> QED BY <1>2, <1>3, <2>1, <3>1, <3>3, <4>1
    <3> QED BY <3>2, <3>3
  <2> QED BY <1>1, <1>2, <1>3, <2>1, <2>2, PrefixNames
<1>8. SubSeq(a, Len(r) + 1, Len(a)) = x
  <2> DEFINE c == SubSeq(a, Len(r) + 1, Len(a))
  <2>1. Len(r) \in 0..Len(a)
    BY <1>1, <1>2
  <2>2. c \in Paths /\ Len(c) = Len(a) - Len(r) /\ \A i \in 1..(Len(a) - Len(r)) : c[i] = a[Len(r) + i]
    BY <1>2, <2>1, LastNames
  <2> HIDE DEF c
  <2>3. Len(c) = Len(x)
    BY <1>1, <1>2, <2>2
  <2>4. \A i \in 1..Len(x) : c[i] = x[i]
    BY <1>1, <1>2, <1>4, <2>2
  <2>5. c = x
    BY <2>2, <2>3, <2>4, SamePath
  <2> QED BY <2>5 DEF c
<1>9. a = r => x = << >>
  BY <1>1, <1>2 DEF Paths
<1> QED BY <1>6, <1>7, <1>8, <1>9 DEF a, b

LEMMA RenamedIs ==
  ASSUME NEW t, IsTree(t), NEW p \in Paths, NEW r \in Paths, NEW o \in Below(t, p)
  PROVE  /\ Rest(o, p) \in Paths /\ o \in DOMAIN t /\ o = p \o Rest(o, p)
         /\ Renamed(o, p, r) = r \o Rest(o, p)
<1>1. o \in DOMAIN t /\ o \in Paths /\ IsPrefix(p, o)
  BY DEF Below, IsTree
<1>2. Len(p) \in 0..Len(o) /\ o = p \o SubSeq(o, Len(p) + 1, Len(o))
  BY <1>1, PrefixRest
<1>3. SubSeq(o, Len(p) + 1, Len(o)) \in Paths
  BY <1>1, <1>2, LastNames
<1> QED BY <1>1, <1>2, <1>3 DEF Renamed, Rest

LEMMA MovedIs ==
  ASSUME NEW t, IsTree(t), NEW p, NEW r, MayMove(t, p, r), Fits(t, p), Fits(t, r)
  PROVE  LET m == Moved(t, p, r)
         IN /\ m = [q \in DOMAIN m |-> m[q]]
            /\ \A q \in Kept(t, p, r) : q \in DOMAIN m /\ m[q] = t[q]
            /\ \A o \in Below(t, p) : Renamed(o, p, r) \in DOMAIN m /\ m[Renamed(o, p, r)] = t[o]
            /\ \A q \in DOMAIN m :
                 q \in Kept(t, p, r) \/ \E o \in Below(t, p) : q = Renamed(o, p, r)
<1> DEFINE m == Moved(t, p, r)
           back(q) == p \o SubSeq(q, Len(r) + 1, Len(q))
           All == Kept(t, p, r) \cup {Renamed(o, p, r) : o \in Below(t, p)}
<1>1. m = [q \in All |-> IF q \in Kept(t, p, r) THEN t[q] ELSE t[back(q)]]
  BY DEF Moved, Kept, Below, Renamed, Rest
<1>2. p \in Paths /\ r \in Paths
  BY DEF Fits
<1>3. ASSUME NEW o \in Below(t, p)
      PROVE  Renamed(o, p, r) \notin Kept(t, p, r) /\ back(Renamed(o, p, r)) = o
  <2> DEFINE s == Rest(o, p)
  <2>1. s \in Paths /\ o \in DOMAIN t /\ o = p \o s /\ Renamed(o, p, r) = r \o s
    BY <1>2, RenamedIs
  <2> HIDE DEF s
  <2>2. back(Renamed(o, p, r)) = o
    BY <1>2, <2>1, JoinedPrefix
  <2>3. ASSUME r \o s \in Kept(t, p, r) PROVE FALSE
    <3>1. r \o s \in DOMAIN t /\ r \o s # r
      BY <2>3 DEF Kept
    <3>2. IsStrictPrefix(r, r \o s)
      BY <1>2, <2>1, <3>1, PrefixesOrdered DEF IsStrictPrefix
    <3> QED BY <1>2, <3>1, <3>2, TreeObjects DEF MayMove
  <2> QED BY <2>1, <2>2, <2>3
<1> HIDE DEF m, back
<1>4. /\ DOMAIN m = All /\ m = [q \in DOMAIN m |-> m[q]]
      /\ \A q \in Kept(t, p, r) : m[q] = t[q]
      /\ \A o \in Below(t, p) : m[Renamed(o, p, r)] = t[o]
  BY <1>1, <1>3
<1> QED BY <1>4 DEF m

LEMMA MovedTree ==
  ASSUME NEW t, IsTree(t), NEW p, NEW r, MayMove(t, p, r), Fits(t, p), Fits(t, r)
  PROVE  /\ IsTree(Moved(t, p, r))
         /\ Closed(t) /\ Inside(p) =>
              /\ OnWay(Moved(t, p, r))
              /\ \A q \in LeadsOut(Moved(t, p, r)) : Moved(t, p, r)[q].up # None /\ IsPrefix(r, q)
<1> DEFINE m == Moved(t, p, r)
           kept == Kept(t, p, r)
<1>1. /\ m = [q \in DOMAIN m |-> m[q]]
      /\ \A q \in kept : q \in DOMAIN m /\ m[q] = t[q]
      /\ \A o \in Below(t, p) : Renamed(o, p, r) \in DOMAIN m /\ m[Renamed(o, p, r)] = t[o]
      /\ \A q \in DOMAIN m : q \in kept \/ \E o \in Below(t, p) : q = Renamed(o, p, r)
  BY MovedIs
<1>2. p \in Paths /\ r \in Paths /\ p # << >> /\ r # << >> /\ p \in DOMAIN t /\ ~IsA(t, "dir", r)
      /\ ~IsStrictPrefix(p, r)
  BY DEF Fits, MayMove
<1>3. DOMAIN t \subseteq Paths /\ t \in [DOMAIN t -> Objects] /\ << >> \in DOMAIN t /\ << >> \in Paths
  BY DEF IsTree, Paths
<1> HIDE DEF m
\* Directories that are not moved are still there.
<1>4. ASSUME NEW a \in Paths, IsA(t, "dir", a), ~IsPrefix(p, a) PROVE IsA(m, "dir", a)
  <2>1. a \in kept
    BY <1>2, <1>4 DEF Kept, Below, IsA
  <2> QED BY <1>1, <1>4, <2>1 DEF IsA
<1>5. ASSUME NEW a \in Above(r) PROVE IsA(m, "dir", a)
  <2>1. a \in Paths /\ IsA(t, "dir", a) /\ IsStrictPrefix(a, r)
    BY <1>2, AboveFits, AbovePrefix
  <2>2. ~IsPrefix(p, a)
    <3> SUFFICES ASSUME IsPrefix(p, a) PROVE FALSE
      OBVIOUS
    <3>1. IsPrefix(p, r)
      BY <1>2, <2>1, PrefixesOrdered DEF IsStrictPrefix
    <3>2. Len(p) \in Nat /\ Len(a) \in Nat /\ Len(r) \in Nat
      BY <1>2, <2>1 DEF Paths
    <3>3. Len(p) < Len(r)
      BY <1>2, <2>1, <3>2, PrefixNames
    <3> QED BY <1>2, <3>1, <3>3, PrefixNames
  <2> QED BY <1>4, <2>1, <2>2
<1>6. ASSUME NEW q \in kept, NEW a \in Above(q) PROVE IsA(m, "dir", a)
  <2>1. q \in Paths /\ q \in DOMAIN t /\ ~IsPrefix(p, q)
    BY <1>3 DEF Kept, Below
  <2>2. a \in Paths /\ IsStrictPrefix(a, q) /\ IsA(t, "dir", a)
    BY <2>1, AbovePrefix, TreeObjects
  <2>3. ~IsPrefix(p, a)
    BY <1>2, <2>1, <2>2, PrefixesOrdered DEF IsStrictPrefix
  <2> QED BY <1>4, <2>2, <2>3
<1>7. ASSUME NEW o \in Below(t, p), NEW a \in Above(Renamed(o, p, r)) PROVE IsA(m, "dir", a)
  <2> DEFINE s == Rest(o, p)
  <2>1. p \in Paths /\ r \in Paths
    BY <1>2
  <2>2. s \in Paths /\ o \in DOMAIN t /\ o = p \o s /\ Renamed(o, p, r) = r \o s
    BY <2>1, RenamedIs
  <2> HIDE DEF s
  <2>3. r \o s \in Paths /\ IsPrefix(r, r \o s)
    BY <1>2, <2>2, Joined, PrefixesOrdered
  <2>4. a \in Paths /\ IsStrictPrefix(a, r \o s)
    BY <2>2, <2>3, AbovePrefix
  <2>5. CASE IsStrictPrefix(a, r)
    BY <1>2, <1>5, <2>4, <2>5, AbovePrefix
  <2>6. CASE IsPrefix(r, a)
    <3> DEFINE x == SubSeq(a, Len(r) + 1, Len(a))
    <3>1. a = r \o x /\ x \in Paths
      BY <1>2, <2>4, <2>6, PrefixRest, LastNames
    <3> HIDE DEF x
    <3>2. IsStrictPrefix(x, s)
      BY <1>2, <2>2, <2>4, <3>1, JoinedPrefix
    <3>3. IsStrictPrefix(p \o x, o) /\ p \o x \in Paths /\ IsPrefix(p, p \o x)
      BY <1>2, <2>2, <3>1, <3>2, JoinedPrefix, Joined, PrefixesOrdered
    <3>4. IsA(t, "dir", p \o x)
      BY <2>2, <3>3, TreeObjects
    <3>5. p \o x \in Below(t, p)
      BY <3>3, <3>4 DEF Below, IsA
    <3>6. Renamed(p \o x, p, r) = a
      BY <1>2, <3>1, JoinedPrefix DEF Renamed, Rest
    <3> QED BY <1>1, <3>4, <3>5, <3>6 DEF IsA
  <2> QED BY <1>2, <2>3, <2>4, <2>5, <2>6, PrefixesOrdered DEF IsStrictPrefix
<1>8. ASSUME NEW o \in Below(t, p) PROVE Renamed(o, p, r) \in Paths
  <2> DEFINE s == Rest(o, p)
  <2>1. p \in Paths /\ r \in Paths
    BY <1>2
  <2>2. s \in Paths /\ Renamed(o, p, r) = r \o s
    BY <2>1, RenamedIs
  <2> HIDE DEF s
  <2> QED BY <2>1, <2>2, Joined
<1>9. ASSUME NEW q \in DOMAIN m
      PROVE  /\ q \in Paths /\ m[q] \in Objects /\ (m[q].type = "file" => m[q].ino \in Inodes)
             /\ \A a \in Above(q) : IsA(m, "dir", a)
  <2>1. CASE q \in kept
    BY <1>1, <1>3, <1>6, <2>1, TreeObjects DEF Kept
  <2>2. ASSUME NEW o \in Below(t, p), q = Renamed(o, p, r)
        PROVE  /\ q \in Paths /\ m[q] \in Objects /\ (m[q].type = "file" => m[q].ino \in Inodes)
               /\ \A a \in Above(q) : IsA(m, "dir", a)
    <3>1. o \in DOMAIN t /\ q \in Paths
      BY <1>8, <2>2 DEF Below
    <3>2. m[q] = t[o]
      BY <1>1, <2>2
    <3> QED BY <1>7, <2>2, <3>1, <3>2, TreeObjects
  <2> QED BY <1>1, <2>1, <2>2
<1>10. << >> \in DOMAIN m
  <2>1. ~IsPrefix(p, << >>)
    <3>1. Len(p) # 0 /\ Len(p) \in Nat
      BY <1>2 DEF Paths
    <3> QED BY <1>2, <1>3, <3>1, PrefixNames
  <2> QED BY <1>1, <1>2, <1>3, <2>1 DEF Kept, Below
<1>11. IsTree(m)
  BY <1>1, <1>9, <1>10 DEF IsTree
<1>12. ASSUME Closed(t), Inside(p), NEW a \in Above(Root) PROVE IsA(m, "dir", a)
  <2>1. a \in Paths /\ ~Inside(a) /\ IsA(t, "dir", a)
    BY <1>12, AboveRoot DEF Closed, OnWay
  <2>2. ~IsPrefix(p, a)
    BY <1>2, <1>12, <2>1, RootPath, PrefixesOrdered DEF Inside
  <2> QED BY <1>4, <2>1, <2>2
<1>13. ASSUME Closed(t), Inside(p), NEW q \in LeadsOut(m) PROVE m[q].up # None /\ IsPrefix(r, q)
  <2>1. q \in DOMAIN m /\ Inside(q) /\ m[q].type = "link" /\ ~Inside(Aim(m, q))
    BY DEF LeadsOut, IsA
  <2>2. q \notin kept
    <3> SUFFICES ASSUME q \in kept PROVE FALSE
      OBVIOUS
    <3>1. m[q] = t[q] /\ q \in DOMAIN t
      BY <1>1 DEF Kept
    <3>2. q \in LeadsOut(t)
      BY <2>1, <3>1 DEF LeadsOut, IsA, Aim
    <3> QED BY <1>13, <3>2 DEF Closed
  <2>3. PICK o \in Below(t, p) : q = Renamed(o, p, r)
    BY <1>1, <2>1, <2>2
  <2>4. m[q] = t[o] /\ o \in DOMAIN t /\ IsPrefix(p, o) /\ o \in Paths
    BY <1>1, <1>3, <2>3 DEF Below
  <2>5. IsPrefix(r, q)
    <3> DEFINE x == Rest(o, p)
    <3>1. x \in Paths /\ q = r \o x
      BY <1>2, <2>3, RenamedIs
    <3> HIDE DEF x
    <3> QED BY <1>2, <3>1, PrefixesOrdered
  <2>6. m[q].up # None
    <3> SUFFICES ASSUME t[o].up = None PROVE FALSE
      BY <2>4
    <3>1. Inside(o)
      BY <1>2, <1>13, <2>4, RootPath, PrefixesOrdered DEF Inside
    <3>2. Aim(m, q) = Aim(t, o)
      BY <2>4 DEF Aim
    <3>3. o \in LeadsOut(t)
      BY <2>1, <2>4, <3>1, <3>2 DEF LeadsOut, IsA
    <3> QED BY <1>13, <3>3 DEF Closed
  <2> QED BY <2>5, <2>6
<1> QED BY <1>11, <1>12, <1>13 DEF OnWay, m

----------------------------------------------------------------------------
(* The attributes of a Setstat.                                            *)

LEMMA Elements ==
  ASSUME NEW S, NEW s \in Seq(S), NEW u \in Seq(S), NEW x, x \in Range(s) \/ x \in Range(u)
  PROVE  s \o u \in Seq(S) /\ x \in Range(s \o u)
<1>1. /\ s \o u \in Seq(S) /\ Len(s \o u) = Len(s) + Len(u) /\ DOMAIN (s \o u) = 1..Len(s \o u)
      /\ \A i \in 1..(Len(s) + Len(u)) : (s \o u)[i] = IF i <= Len(s) THEN s[i] ELSE u[i - Len(s)]
      /\ Len(s) \in Nat /\ Len(u) \in Nat /\ DOMAIN s = 1..Len(s) /\ DOMAIN u = 1..Len(u)
  BY ConcatProperties
<1>2. ASSUME NEW i \in 1..Len(s), x = s[i] PROVE x \in Range(s \o u)
  <2>1. i \in 1..(Len(s) + Len(u)) /\ i <= Len(s)
    BY <1>1
  <2> QED BY <1>1, <1>2, <2>1 DEF Range
<1>3. ASSUME NEW i \in 1..Len(u), x = u[i] PROVE x \in Range(s \o u)
  <2>1. /\ Len(s) + i \in 1..(Len(s) + Len(u)) /\ ~(Len(s) + i <= Len(s))
        /\ Len(s) + i - Len(s) = i
    BY <1>1
  <2>2. (s \o u)[Len(s) + i] = x
    BY <1>1, <1>3, <2>1
  <2> QED BY <1>1, <2>1, <2>2 DEF Range
<1> QED BY <1>1, <1>2, <1>3 DEF Range

LEMMA InOrderIs ==
  ASSUME NEW parts \in SUBSET Attributes
  PROVE  InOrder(parts) \in Seq(Attributes) /\ \A a \in parts : a \in Range(InOrder(parts))
<1> DEFINE Part(a) == IF a \in parts THEN << a >> ELSE << >>
           p == Part("permissions")
           o == Part("owner")
           s == Part("size")
           u == Part("times")
<1>1. InOrder(parts) = p \o o \o s \o u
  BY DEF InOrder
<1>2. /\ p \in Seq(Attributes) /\ o \in Seq(Attributes) /\ s \in Seq(Attributes)
      /\ u \in Seq(Attributes)
  OBVIOUS
<1>3. /\ "permissions" \in parts => "permissions" \in Range(p)
      /\ "owner" \in parts => "owner" \in Range(o)
      /\ "size" \in parts => "size" \in Range(s)
      /\ "times" \in parts => "times" \in Range(u)
  BY DEF Range
<1> HIDE DEF p, o, s, u
<1>4. p \o o \in Seq(Attributes) /\ p \o o \o s \in Seq(Attributes)
      /\ p \o o \o s \o u \in Seq(Attributes)
  BY <1>2
<1>5. ASSUME NEW a \in parts PROVE a \in Range(p \o o \o s \o u)
  <2>1. \/ a = "permissions" /\ a \in Range(p)
        \/ a = "owner" /\ a \in Range(o)
        \/ a = "size" /\ a \in Range(s)
        \/ a = "times" /\ a \in Range(u)
    BY <1>3 DEF Attributes
  <2>2. a \in Range(p) \/ a \in Range(o) => a \in Range(p \o o)
    BY <1>2, Elements
  <2>3. a \in Range(p \o o) \/ a \in Range(s) => a \in Range(p \o o \o s)
    BY <1>2, <1>4, Elements
  <2>4. a \in Range(p \o o \o s) \/ a \in Range(u) => a \in Range(p \o o \o s \o u)
    BY <1>2, <1>4, Elements
  <2> QED BY <2>1, <2>2, <2>3, <2>4
<1> QED BY <1>1, <1>4, <1>5

\* A first part of a sequence is all of it, or is followed by one more element.
LEMMA Onward ==
  ASSUME NEW S, NEW s \in Seq(S), NEW d \in Seq(S), IsPrefix(d, s)
  PROVE  LET rest == SubSeq(s, Len(d) + 1, Len(s))
         IN /\ rest = << >> => d = s
            /\ rest # << >> => Head(rest) \in S /\ IsPrefix(Append(d, Head(rest)), s)
<1> DEFINE rest == SubSeq(s, Len(d) + 1, Len(s))
<1>1. Len(d) \in Nat /\ Len(s) \in Nat /\ Len(d) <= Len(s) /\ d = SubSeq(s, 1, Len(d))
  BY DEF IsPrefix
<1>2. rest \in Seq(S) /\ Len(rest) = Len(s) - Len(d)
  BY <1>1, SubSeqProperties
<1>3. \A i \in 1..(Len(s) - Len(d)) : rest[i] = s[Len(d) + i]
  BY <1>1, SubSeqProperties
<1>4. Len(d) \in Nat /\ Len(s) \in Nat /\ Len(d) <= Len(s)
  BY <1>1
<1> HIDE DEF rest
<1>5. CASE rest = << >>
  <2>1. Len(d) = Len(s)
    BY <1>4, <1>2, <1>5
  <2>2. SubSeq(s, 1, Len(s)) = s
    OBVIOUS
  <2> QED BY <1>1, <1>5, <2>1, <2>2
<1>6. CASE rest # << >>
  <2>1. Head(rest) = rest[1] /\ Head(rest) \in S /\ Len(rest) # 0
    BY <1>2, <1>6
  <2>2. Len(d) + 1 <= Len(s) /\ rest[1] = s[Len(d) + 1]
    <3>1. Len(s) - Len(d) \in Nat /\ Len(s) - Len(d) # 0
      BY <1>4, <1>2, <2>1
    <3>2. 1 \in 1..(Len(s) - Len(d))
      BY <3>1
    <3>3. rest[1] = s[Len(d) + 1]
      BY <1>3, <3>2
    <3> QED BY <1>4, <3>1, <3>3
  <2> DEFINE e == Append(d, Head(rest))
             c == SubSeq(s, 1, Len(d) + 1)
  <2>3. e \in Seq(S) /\ Len(e) = Len(d) + 1 /\ e[Len(d) + 1] = Head(rest)
        /\ \A i \in 1..Len(d) : e[i] = d[i]
    BY <2>1
  <2>4. \A i \in 1..Len(d) : d[i] = s[i]
    BY <1>1
  <2>5. c \in Seq(S) /\ Len(c) = Len(d) + 1 /\ \A i \in 1..(Len(d) + 1) : c[i] = s[i]
    BY <1>1, <2>2, SubSeqProperties
  <2> HIDE DEF e, c
  <2>6. \A i \in 1..(Len(d) + 1) : e[i] = c[i]
    BY <1>1, <2>1, <2>2, <2>3, <2>4, <2>5
  <2>7. e = c
    BY <2>3, <2>5, <2>6, SeqEqual
  <2>8. Len(e) <= Len(s) /\ SubSeq(e, 1, Len(e)) = SubSeq(s, 1, Len(e))
    <3>1. SubSeq(e, 1, Len(e)) = e
      BY <2>3
    <3> QED BY <1>1, <2>2, <2>3, <2>7, <3>1 DEF c
  <2>9. IsPrefix(Append(d, Head(rest)), s)
    BY <2>8 DEF IsPrefix, e
  <2> QED BY <1>6, <2>1, <2>9 DEF rest
<1> QED BY <1>5, <1>6 DEF rest
----------------------------------------------------------------------------
(* The invariant.                                                          *)

Requests == [op : Ops \cup {"none"}, path : Paths, target : Paths,
             parts : SUBSET Attributes, known : BOOLEAN]

Types ==
  /\ IsTree(tree)
  /\ attrs \in [Inodes -> [Attributes -> Sessions \cup {None}]]
  /\ pc \in [Sessions -> {"idle", "parents"} \cup Ops]
  /\ req \in [Sessions -> Requests]
  /\ applied \in [Sessions -> Seq(Attributes)]
  /\ result \in [Sessions -> {"none", "ok", "error"}]

\* The next call of a request is one that its operation makes, on paths below the root.
Serving ==
  \A w \in Sessions :
    pc[w] # "idle" =>
      /\ pc[w] = req[w].op \/ (pc[w] = "parents" /\ req[w].op = "write")
      /\ Inside(Path(w)) /\ Inside(Target(w))
      /\ result[w] = "none"

\* A path that led inside when it was checked does so until another session changes something.
KnownInside ==
  \A w \in Sessions :
    pc[w] # "idle" /\ req[w].known /\ w \notin raced =>
      Leads(tree, Path(w)) # None /\ Inside(Leads(tree, Path(w)))

\* So far a Setstat has set a first part of what it was asked for, on the file at its path.
Setting ==
  \A w \in Sessions :
    LET asked == InOrder(req[w].parts)
        real == Leads(tree, Path(w))
    IN pc[w] = "Setstat" \/ result[w] # "none" =>
         /\ IsPrefix(applied[w], asked)
         /\ result[w] = "ok" => applied[w] = asked
         /\ w \notin raced /\ result[w] # "error" /\ IsA(tree, "file", real) =>
              \A i \in DOMAIN applied[w] : attrs[tree[real].ino][applied[w][i]] = w

IInv == Types /\ Serving /\ CheckedIsInside /\ KnownInside /\ Setting

LEMMA Initially ==
  ASSUME Init PROVE IInv
<1>1. IsTree(tree) /\ tree \in Trees
  BY SftpAssumption DEF Init
<1>2. << >> \in Paths /\ << >> \in Seq(Attributes)
  BY DEF Paths
<1>3. NoRequest \in Requests
  BY <1>2 DEF NoRequest, Requests
<1>4. Types
  BY <1>1, <1>2, <1>3 DEF Init, Types
<1>5. Serving /\ KnownInside /\ Setting
  BY DEF Init, Serving, KnownInside, Setting
<1>6. CheckedIsInside
  BY DEF Init, CheckedIsInside, Untouched
<1> QED BY <1>4, <1>5, <1>6 DEF IInv

----------------------------------------------------------------------------
(* The steps.                                                              *)

LEMMA PathsOf ==
  ASSUME IInv, NEW w \in Sessions
  PROVE  Path(w) \in Paths /\ Target(w) \in Paths /\ req[w].parts \in SUBSET Attributes
BY DEF IInv, Types, Requests, Path, Target

\* A step that leaves the tree closed makes no way out of it.
LEMMA StillClosed ==
  ASSUME Closed(tree) => Closed(tree') /\ \A p \in touched'.places : Inside(p)
  PROVE  StaysInside
BY DEF StaysInside, Closed

LEMMA NothingTouched ==
  ASSUME UNCHANGED tree, touched' = Untouched PROVE StaysInside
BY StillClosed DEF Untouched

\* The last call of a request keeps the invariant if it leaves a tree and, along a path that
\* was known, touches places inside the root.
LEMMA LastCall ==
  ASSUME IInv, NEW w \in Sessions, pc[w] # "idle", Finish(w),
         IsTree(tree'),
         touched'.known => \A p \in touched'.places : Inside(p),
         Interfere(w) \/ UNCHANGED <<tree, attrs, raced>>,
         attrs' \in [Inodes -> [Attributes -> Sessions \cup {None}]],
         UNCHANGED <<applied, result>>
  PROVE  IInv'
<1>1. NoRequest \in Requests
  BY DEF NoRequest, Requests, Paths
<1>2. /\ pc' \in [Sessions -> {"idle", "parents"} \cup Ops] /\ pc'[w] = "idle"
      /\ \A v \in Sessions \ {w} : pc'[v] = pc[v]
  BY DEF IInv, Types, Finish
<1>3. req' \in [Sessions -> Requests] /\ \A v \in Sessions \ {w} : req'[v] = req[v]
  BY <1>1 DEF IInv, Types, Finish
<1>4. Types'
  BY <1>2, <1>3 DEF IInv, Types
<1>5. CheckedIsInside'
  BY DEF CheckedIsInside
<1>6. Serving'
  BY <1>2, <1>3 DEF IInv, Serving, Path, Target
<1>7. ASSUME NEW v \in Sessions \ {w}, v \notin raced', pc[v] # "idle" \/ result[v] = "ok"
      PROVE  UNCHANGED <<tree, attrs, raced>>
  BY <1>7 DEF Interfere
<1>8. KnownInside'
  <2> SUFFICES ASSUME NEW v \in Sessions, pc'[v] # "idle", req'[v].known, v \notin raced'
               PROVE  Leads(tree, Path(v))' # None /\ Inside(Leads(tree, Path(v)))'
    BY DEF KnownInside
  <2>1. v \in Sessions \ {w} /\ pc'[v] = pc[v] /\ req'[v] = req[v]
    BY <1>2, <1>3
  <2>2. UNCHANGED <<tree, attrs, raced>>
    BY <1>7, <2>1
  <2> QED BY <2>1, <2>2 DEF IInv, KnownInside, Path
<1>9. Setting'
  <2> SUFFICES ASSUME NEW v \in Sessions, pc'[v] = "Setstat" \/ result'[v] # "none"
               PROVE  LET asked == InOrder(req'[v].parts)
                          real == Leads(tree', Path(v)')
                      IN /\ IsPrefix(applied'[v], asked)
                         /\ result'[v] = "ok" => applied'[v] = asked
                         /\ v \notin raced' /\ result'[v] # "error" /\ IsA(tree', "file", real) =>
                              \A i \in DOMAIN applied'[v] : attrs'[tree'[real].ino][applied'[v][i]] = v
    BY DEF Setting
  <2>1. v \in Sessions \ {w} /\ pc'[v] = pc[v] /\ req'[v] = req[v]
    BY <1>2, <1>3 DEF IInv, Serving
  <2>2. pc[v] = "Setstat" \/ result[v] # "none"
    BY <2>1
  <2>3. IsPrefix(applied[v], InOrder(req[v].parts))
        /\ (result[v] = "ok" => applied[v] = InOrder(req[v].parts))
    BY <2>1, <2>2 DEF IInv, Setting
  <2>4. ASSUME v \notin raced', result'[v] # "error", IsA(tree', "file", Leads(tree', Path(v)'))
        PROVE  \A i \in DOMAIN applied'[v] :
                 attrs'[tree'[Leads(tree', Path(v)')].ino][applied'[v][i]] = v
    <3>1. result[v] \in {"none", "ok"}
      BY <2>1, <2>4 DEF IInv, Types
    <3>2. UNCHANGED <<tree, attrs, raced>>
      BY <1>7, <2>1, <2>2, <2>4, <3>1
    <3>3. Path(v)' = Path(v)
      BY <2>1 DEF Path
    <3> QED BY <2>1, <2>2, <2>4, <3>2, <3>3 DEF IInv, Setting
  <2> QED BY <2>1, <2>3, <2>4
<1> QED BY <1>4, <1>5, <1>6, <1>8, <1>9 DEF IInv

LEMMA Checks ==
  ASSUME IInv, NEW w \in Sessions, NEW op \in Methods, NEW p \in Requested, NEW t \in Paths,
         Check(w, op, p, t)
  PROVE  IInv' /\ StaysInside
<1> DEFINE path == Root \o p
           target == Root \o t
<1>1. path \in Paths /\ target \in Paths /\ Inside(path) /\ Inside(target)
  <2>1. p \in Paths
    BY SftpAssumption
  <2> QED BY <2>1, RootPath, Joined, PrefixesOrdered DEF Inside
<1>2. PICK parts \in SUBSET Attributes :
        req' = [req EXCEPT ![w] = [op |-> op, path |-> path, target |-> target,
                                   parts |-> parts, known |-> Leads(tree, path) # None]]
  BY SftpAssumption DEF Check
<1>3. Leads(tree, path) # None => Inside(Leads(tree, path))
  <2>1. CASE Root = << >>
    <3>1. \A q \in Paths : IsPrefix(<< >>, q)
      BY DEF IsPrefix, Paths
    <3> QED BY <1>1, <2>1, <3>1, LeadsPath DEF Inside, IInv, Types
  <2>2. CASE Root # << >>
    BY <2>2 DEF Check, Resolves
  <2> QED BY <2>1, <2>2
<1> HIDE DEF path, target
<1>4. op \in Ops /\ op # "idle" /\ op # "none" /\ op # "parents"
  BY SftpAssumption DEF Ops, WriteOps
<1>5. /\ req' \in [Sessions -> Requests] /\ req'[w].op = op /\ req'[w].path = path
      /\ req'[w].target = target /\ req'[w].known = (Leads(tree, path) # None)
      /\ \A v \in Sessions \ {w} : req'[v] = req[v]
  <2> DEFINE new == [op |-> op, path |-> path, target |-> target, parts |-> parts,
                     known |-> Leads(tree, path) # None]
  <2>1. new \in Requests
    BY <1>1, <1>4 DEF Requests
  <2> QED BY <1>2, <2>1 DEF IInv, Types
<1>6. /\ pc' \in [Sessions -> {"idle", "parents"} \cup Ops] /\ pc'[w] \in {op, "parents"}
      /\ (pc'[w] = "parents" => op = "write")
      /\ \A v \in Sessions \ {w} : pc'[v] = pc[v]
  BY <1>4 DEF IInv, Types, Check
<1>7. /\ applied' \in [Sessions -> Seq(Attributes)] /\ applied'[w] = << >>
      /\ \A v \in Sessions \ {w} : applied'[v] = applied[v]
  BY DEF IInv, Types, Check
<1>8. /\ result' \in [Sessions -> {"none", "ok", "error"}] /\ result'[w] = "none"
      /\ \A v \in Sessions \ {w} : result'[v] = result[v]
  BY DEF IInv, Types, Check
<1>9. UNCHANGED <<tree, attrs>> /\ \A v \in Sessions \ {w} : v \in raced' <=> v \in raced
  BY DEF Check
<1>10. Types'
  BY <1>5, <1>6, <1>7, <1>8, <1>9 DEF IInv, Types
<1>11. CheckedIsInside'
  BY DEF IInv, CheckedIsInside, Check, Untouched
<1>12. Serving'
  BY <1>1, <1>4, <1>5, <1>6, <1>8 DEF IInv, Serving, Path, Target
<1>13. KnownInside'
  BY <1>3, <1>5, <1>6, <1>9 DEF IInv, KnownInside, Path
<1>14. Setting'
  <2>1. InOrder(req'[w].parts) \in Seq(Attributes)
    BY <1>5, InOrderIs DEF Requests
  <2>2. IsPrefix(<< >>, InOrder(req'[w].parts))
    BY <2>1 DEF IsPrefix
  <2>3. ASSUME NEW v \in Sessions, pc'[v] = "Setstat" \/ result'[v] # "none"
        PROVE  LET asked == InOrder(req'[v].parts)
                   real == Leads(tree', Path(v)')
               IN /\ IsPrefix(applied'[v], asked)
                  /\ result'[v] = "ok" => applied'[v] = asked
                  /\ v \notin raced' /\ result'[v] # "error" /\ IsA(tree', "file", real) =>
                       \A i \in DOMAIN applied'[v] : attrs'[tree'[real].ino][applied'[v][i]] = v
    <3>1. CASE v = w
      <4>1. DOMAIN applied'[w] = {}
        BY <1>7
      <4> QED BY <1>7, <1>8, <2>2, <3>1, <4>1
    <3>2. CASE v # w
      <4>1. /\ req'[v] = req[v] /\ pc'[v] = pc[v] /\ applied'[v] = applied[v]
            /\ result'[v] = result[v] /\ (v \in raced' <=> v \in raced) /\ Path(v)' = Path(v)
            /\ UNCHANGED <<tree, attrs>>
        BY <1>5, <1>6, <1>7, <1>8, <1>9, <3>2 DEF Path
      <4> QED BY <2>3, <4>1 DEF IInv, Setting
    <3> QED BY <3>1, <3>2
  <2> QED BY <2>3 DEF Setting
<1>15. StaysInside
  BY NothingTouched DEF Check
<1> QED BY <1>10, <1>11, <1>12, <1>13, <1>14, <1>15 DEF IInv

\* A path that is known leads inside.
LEMMA KnownLeads ==
  ASSUME IInv, NEW w \in Sessions, pc[w] # "idle", req[w].known, w \notin raced
  PROVE  Leads(tree, Path(w)) # None /\ Inside(Leads(tree, Path(w)))
BY DEF IInv, KnownInside

LEMMA Looks ==
  ASSUME IInv, NEW w \in Sessions, Look(w) PROVE IInv' /\ StaysInside
<1>1. /\ IsTree(tree) /\ pc[w] # "idle" /\ pc[w] # "parents"
      /\ Path(w) \in Paths /\ Inside(Path(w)) /\ pc[w] = req[w].op
  BY PathsOf DEF IInv, Types, Serving, Look
<1> DEFINE real == Leads(tree, Path(w))
           place == Place(tree, Path(w))
           p == IF pc[w] = "Readlink" THEN place ELSE real
<1>2. Closed(tree) => (real # None => Inside(real)) /\ (place # None => Inside(place))
  BY <1>1, LeadsInside, PlaceInside
<1>3. touched'.known => p # None /\ Inside(p)
  BY <1>1, KnownLeads DEF Look, Touch
<1> HIDE DEF real, place
<1>4. touched'.known => \A q \in touched'.places : Inside(q)
  BY <1>2, <1>3 DEF Look, Touch, real, place
<1>5. StaysInside
  <2>1. Closed(tree) => \A q \in touched'.places : Inside(q)
    BY <1>2 DEF Look, Touch, real, place
  <2> QED BY <2>1, StillClosed DEF Look
<1> QED BY <1>1, <1>4, <1>5, LastCall DEF Look, IInv, Types

\* A directory that is missing above a known path: there is none.
LEMMA KnownParents ==
  ASSUME IInv, NEW w \in Sessions, pc[w] # "idle", req[w].known, w \notin raced
  PROVE  MissingParents(w) = {}
<1> SUFFICES ASSUME NEW q \in MissingParents(w) PROVE FALSE
  OBVIOUS
<1>1. Path(w) \in Paths /\ IsTree(tree) /\ Leads(tree, Path(w)) # None
  BY PathsOf, KnownLeads DEF IInv, Types
<1>2. q \in Paths /\ IsPrefix(q, Path(w)) /\ Leads(tree, q) = None
  BY <1>1, AbovePrefix DEF MissingParents, IsStrictPrefix
<1> QED BY <1>1, <1>2, PrefixLeads

LEMMA MakesParent ==
  ASSUME IInv, NEW w \in Sessions, MakeParent(w) PROVE IInv' /\ StaysInside
<1>1. PICK q \in MissingParents(w) :
        /\ Place(tree, q) # None /\ Place(tree, q) \notin DOMAIN tree
        /\ tree' = With(tree, Place(tree, q), Dir)
        /\ Touch(w, {Place(tree, q)})
  BY DEF MakeParent
<1>2. /\ IsTree(tree) /\ Path(w) \in Paths /\ Inside(Path(w)) /\ pc[w] = "parents" /\ pc[w] # "idle"
  BY PathsOf DEF IInv, Types, Serving, MakeParent
<1>3. q \in Paths /\ IsStrictPrefix(q, Path(w)) /\ Leads(tree, q) = None
  BY <1>2, AbovePrefix DEF MissingParents
<1>4. Fits(tree, Place(tree, q))
  BY <1>1, <1>2, <1>3, PlaceFits
<1>5. ObjectOK(Dir) /\ Dir.type # "link"
  BY DEF ObjectOK, Dir, Objects, Paths
<1>6. Closed(tree) => Inside(Place(tree, q))
  <2> SUFFICES ASSUME Closed(tree) PROVE Inside(Place(tree, q))
    OBVIOUS
  <2>1. Inside(q)
    <3>1. IsPrefix(q, Path(w)) /\ IsPrefix(Root, Path(w))
      BY <1>2, <1>3 DEF Inside, IsStrictPrefix
    <3>2. IsPrefix(Root, q) \/ IsStrictPrefix(q, Root)
      BY <1>2, <1>3, <3>1, RootPath, PrefixesOrdered
    <3>3. CASE IsStrictPrefix(q, Root)
      <4>1. Leads(tree, q) = q
        BY <1>2, <1>3, <3>3, RootPath, AbovePrefix, AboveRootLeads
      <4> QED BY <1>3, <4>1, FileTreeAssumption
    <3> QED BY <3>2, <3>3 DEF Inside
  <2> QED BY <1>1, <1>2, <1>3, <2>1, PlaceInside
<1>7. IsTree(tree') /\ (Closed(tree) => Closed(tree'))
  BY <1>1, <1>2, <1>4, <1>5, <1>6, WithTree DEF IInv
<1>8. ~(req[w].known /\ w \notin raced)
  BY <1>1, <1>2, KnownParents
<1>9. UNCHANGED <<attrs, pc, req, applied, result>> /\ Interfere(w)
  BY DEF MakeParent, requestVars
<1>10. Types' /\ Serving'
  BY <1>7, <1>9 DEF IInv, Types, Serving, Path, Target
<1>11. CheckedIsInside'
  BY <1>1, <1>6, <1>8, <1>9 DEF Touch, CheckedIsInside
<1>12. ASSUME NEW v \in Sessions, v \notin raced', pc[v] # "idle" \/ result[v] = "ok"
       PROVE  v = w /\ w \notin raced
  BY <1>9, <1>12 DEF Interfere
<1>13. KnownInside'
  BY <1>8, <1>9, <1>12 DEF KnownInside
<1>14. StaysInside
  <2>1. Closed(tree) => \A p \in touched'.places : Inside(p)
    BY <1>1, <1>6 DEF Touch
  <2> QED BY <1>7, <2>1, StillClosed
<1>15. Setting'
  <2>1. ASSUME NEW v \in Sessions, pc'[v] = "Setstat" \/ result'[v] # "none"
        PROVE  LET asked == InOrder(req'[v].parts)
                   real == Leads(tree', Path(v)')
               IN /\ IsPrefix(applied'[v], asked)
                  /\ result'[v] = "ok" => applied'[v] = asked
                  /\ v \notin raced' /\ result'[v] # "error" /\ IsA(tree', "file", real) =>
                       \A i \in DOMAIN applied'[v] : attrs'[tree'[real].ino][applied'[v][i]] = v
    <3>1. IsPrefix(applied[v], InOrder(req[v].parts))
          /\ (result[v] = "ok" => applied[v] = InOrder(req[v].parts))
      BY <1>9, <2>1 DEF IInv, Setting
    <3>2. v # w
      BY <1>2, <1>9, <2>1 DEF IInv, Serving
    <3>3. result[v] \in {"none", "ok", "error"}
      BY DEF IInv, Types
    <3>4. result'[v] # "error" => v \in raced'
      BY <1>9, <1>12, <2>1, <3>2, <3>3
    <3> QED BY <1>9, <3>1, <3>4
  <2> QED BY <2>1 DEF Setting
<1> QED BY <1>10, <1>11, <1>13, <1>14, <1>15 DEF IInv

LEMMA HasParents ==
  ASSUME IInv, NEW w \in Sessions, HaveParents(w) PROVE IInv' /\ StaysInside
<1>1. /\ UNCHANGED <<tree, attrs, req, applied, result, raced>>
      /\ touched' = Untouched /\ pc[w] = "parents"
      /\ pc' \in [Sessions -> {"idle", "parents"} \cup Ops] /\ pc'[w] = "write"
      /\ \A v \in Sessions \ {w} : pc'[v] = pc[v]
  BY DEF IInv, Types, HaveParents, requestVars, Ops, WriteOps
<1>2. Types' /\ CheckedIsInside'
  BY <1>1 DEF IInv, Types, CheckedIsInside, Untouched
<1>3. Serving'
  <2>1. req[w].op # "parents"
    BY DEF IInv, Types, Requests, Ops, WriteOps
  <2> QED BY <1>1, <2>1 DEF IInv, Serving, Path, Target
<1>4. KnownInside'
  BY <1>1 DEF IInv, KnownInside, Path
<1>5. Setting'
  <2>1. \A v \in Sessions : pc'[v] = "Setstat" => pc[v] = "Setstat"
    BY <1>1
  <2> QED BY <1>1, <2>1 DEF IInv, Setting, Path
<1> QED BY <1>1, <1>2, <1>3, <1>4, <1>5, NothingTouched DEF IInv

LEMMA Opens ==
  ASSUME IInv, NEW w \in Sessions, OpenFile(w) PROVE IInv' /\ StaysInside
<1>1. /\ IsTree(tree) /\ pc[w] # "idle"
      /\ Path(w) \in Paths /\ Inside(Path(w)) /\ Leads(tree, Path(w)) # None
  BY PathsOf DEF IInv, Types, Serving, OpenFile
<1>2. Closed(tree) => Inside(Leads(tree, Path(w)))
  BY <1>1, LeadsInside
<1>3. touched'.known => Inside(Leads(tree, Path(w)))
  BY <1>1, KnownLeads DEF OpenFile, Change, Touch
<1>4. touched'.known => \A q \in touched'.places : Inside(q)
  BY <1>2, <1>3 DEF OpenFile, Change, Touch
<1>5. StaysInside
  <2>1. Closed(tree) => \A q \in touched'.places : Inside(q)
    BY <1>2 DEF OpenFile, Change, Touch
  <2> QED BY <2>1, StillClosed DEF OpenFile, Change
<1> QED BY <1>1, <1>4, <1>5, LastCall DEF OpenFile, Change, IInv, Types

LEMMA Creates ==
  ASSUME IInv, NEW w \in Sessions, CreateFile(w) PROVE IInv' /\ StaysInside
<1> DEFINE place == Final(tree, Path(w))
<1>1. /\ IsTree(tree) /\ pc[w] # "idle"
      /\ Path(w) \in Paths /\ Inside(Path(w)) /\ Leads(tree, Path(w)) = None
  BY PathsOf DEF IInv, Types, Serving, CreateFile
<1>2. PICK i \in Inodes :
        /\ tree' = With(tree, place, File(i))
        /\ attrs' = [attrs EXCEPT ![i] = [a \in Attributes |-> None]]
  BY DEF CreateFile
<1>3. place # None /\ IsA(tree, "dir", Front(place)) /\ Touch(w, {place})
  BY DEF CreateFile
<1>4. place \in Paths /\ place \notin DOMAIN tree
  BY <1>1, <1>3, FinalPath, LeadsPath
<1>5. Closed(tree) => Inside(place)
  BY <1>1, <1>3, FinalInside
<1>6. ~(req[w].known /\ w \notin raced)
  BY <1>1, KnownLeads
<1> HIDE DEF place
<1>7. Fits(tree, place)
  BY <1>1, <1>3, <1>4 DEF Fits, IsTree
<1>8. ObjectOK(File(i)) /\ File(i).type # "link"
  BY DEF ObjectOK, File, Objects, Paths
<1>9. IsTree(tree') /\ (Closed(tree) => Closed(tree'))
  BY <1>1, <1>2, <1>4, <1>7, <1>8, WithTree
<1>10. touched'.known => \A q \in touched'.places : Inside(q)
  BY <1>3, <1>5, <1>6 DEF Touch
<1>11. attrs' \in [Inodes -> [Attributes -> Sessions \cup {None}]]
  BY <1>2 DEF IInv, Types
<1>12. StaysInside
  <2>1. Closed(tree) => \A q \in touched'.places : Inside(q)
    BY <1>3, <1>5 DEF Touch
  <2> QED BY <1>9, <2>1, StillClosed
<1> QED BY <1>1, <1>9, <1>10, <1>11, <1>12, LastCall DEF CreateFile

LEMMA Renames ==
  ASSUME IInv, NEW w \in Sessions, Rename(w) PROVE IInv' /\ StaysInside
<1> DEFINE from == Place(tree, Path(w))
           to == Place(tree, Target(w))
<1>1. /\ IsTree(tree) /\ pc[w] = "Rename" /\ req[w].op = "Rename"
      /\ Path(w) \in Paths /\ Inside(Path(w)) /\ Target(w) \in Paths /\ Inside(Target(w))
  BY PathsOf DEF IInv, Types, Serving, Rename
<1>2. MayMove(tree, from, to) /\ Change(w, Moved(tree, from, to), {from, to})
  BY DEF Rename
<1>3. from # None /\ to # None
  BY <1>1, <1>2, LeadsPath DEF MayMove
<1>4. Fits(tree, from) /\ Fits(tree, to)
  BY <1>1, <1>3, PlaceFits
<1>5. Closed(tree) => Inside(from) /\ Inside(to)
  BY <1>1, <1>3, PlaceInside
<1>6. to = Place(tree, Target(w))
  OBVIOUS
<1> HIDE DEF from, to
<1>7. tree' = Moved(tree, from, to)
  BY <1>2 DEF Change
<1>8. IsTree(tree')
  BY <1>1, <1>2, <1>4, <1>7, MovedTree
<1>9. touched'.known => \A q \in touched'.places : Inside(q)
  BY <1>1, <1>2 DEF Change, Touch
<1>10. StaysInside
  <2> SUFFICES ASSUME Closed(tree)
               PROVE  /\ \A q \in touched'.places : Inside(q)
                      /\ OnWay(tree')
                      /\ \A q \in LeadsOut(tree') :
                           /\ tree'[q].up # None
                           /\ \E v \in Sessions :
                                /\ pc[v] \in {"Rename", "Link"} /\ pc'[v] = "idle"
                                /\ IsPrefix(Place(tree, Target(v)), q)
    BY DEF StaysInside
  <2>1. \A q \in touched'.places : Inside(q)
    BY <1>2, <1>5 DEF Change, Touch
  <2>2. OnWay(tree') /\ \A q \in LeadsOut(tree') : tree'[q].up # None /\ IsPrefix(to, q)
    BY <1>1, <1>2, <1>4, <1>5, <1>7, MovedTree
  <2>3. pc'[w] = "idle"
    BY <1>2 DEF Change, Finish, IInv, Types
  <2> QED BY <1>1, <1>6, <2>1, <2>2, <2>3
<1> QED BY <1>1, <1>2, <1>8, <1>9, <1>10, LastCall DEF Change, IInv, Types

LEMMA Removes ==
  ASSUME IInv, NEW w \in Sessions, RemoveEntry(w) PROVE IInv' /\ StaysInside
<1> DEFINE place == Place(tree, Path(w))
<1>1. /\ IsTree(tree) /\ pc[w] # "idle"
      /\ req[w].op \notin {"read", "Stat", "List", "write", "Setstat"}
      /\ Path(w) \in Paths /\ Inside(Path(w))
  BY PathsOf DEF IInv, Types, Serving, RemoveEntry
<1>2. place \in DOMAIN tree /\ Children(tree, place) = {} /\ Change(w, Without(tree, place), {place})
  BY DEF RemoveEntry
<1>3. place # None
  BY <1>1, <1>2, LeadsPath
<1>4. Fits(tree, place) /\ (Closed(tree) => Inside(place))
  BY <1>1, <1>3, PlaceFits, PlaceInside
<1> HIDE DEF place
<1>5. place # << >>
  BY <1>4 DEF Fits
<1>6. IsTree(tree') /\ (Closed(tree) => Closed(tree'))
  <2>1. tree' = Without(tree, place)
    BY <1>2 DEF Change
  <2> QED BY <1>1, <1>2, <1>4, <1>5, <2>1, WithoutTree
<1>7. touched'.known => \A q \in touched'.places : Inside(q)
  BY <1>1, <1>2, <1>4 DEF Change, Touch
<1>8. StaysInside
  <2>1. Closed(tree) => \A q \in touched'.places : Inside(q)
    BY <1>2, <1>4 DEF Change, Touch
  <2> QED BY <1>6, <2>1, StillClosed
<1> QED BY <1>1, <1>2, <1>6, <1>7, <1>8, LastCall DEF Change, IInv, Types

\* A new entry where path p names one.  Only Link makes a relative link, at its target.
LEMMA News ==
  ASSUME IInv, NEW w \in Sessions, pc[w] # "idle",
         req[w].op \notin {"read", "Stat", "List", "write", "Setstat"},
         NEW STATE p, p \in Paths, Inside(p), NEW STATE object, ObjectOK(object),
         Closed(tree) /\ object.type = "link" /\ object.up = None => Inside(object.to),
         object.type = "link" /\ object.up # None => pc[w] = "Link" /\ p = Target(w),
         New(w, Place(tree, p), object)
  PROVE  IInv' /\ StaysInside
<1> DEFINE place == Place(tree, p)
<1>1. IsTree(tree)
  BY DEF IInv, Types
<1>2. place # None /\ place \notin DOMAIN tree /\ Change(w, With(tree, place, object), {place})
  BY DEF New
<1>3. Fits(tree, place) /\ (Closed(tree) => Inside(place))
  BY <1>1, <1>2, PlaceFits, PlaceInside
<1>4. p = Target(w) => place = Place(tree, Target(w))
  OBVIOUS
<1> HIDE DEF place
<1>5. tree' = With(tree, place, object)
  BY <1>2 DEF Change
<1>6. IsTree(tree')
  BY <1>1, <1>2, <1>3, <1>5, WithTree
<1>7. touched'.known => \A q \in touched'.places : Inside(q)
  BY <1>2 DEF Change, Touch
<1>8. StaysInside
  <2> SUFFICES ASSUME Closed(tree)
               PROVE  /\ \A q \in touched'.places : Inside(q)
                      /\ OnWay(tree')
                      /\ \A q \in LeadsOut(tree') :
                           /\ tree'[q].up # None
                           /\ \E v \in Sessions :
                                /\ pc[v] \in {"Rename", "Link"} /\ pc'[v] = "idle"
                                /\ IsPrefix(Place(tree, Target(v)), q)
    BY DEF StaysInside
  <2>1. \A q \in touched'.places : Inside(q)
    BY <1>2, <1>3 DEF Change, Touch
  <2>2. OnWay(tree') /\ \A q \in LeadsOut(tree') :
                          /\ q = place /\ tree'[q] = object /\ object.type = "link"
                          /\ object.up = None => ~Inside(object.to)
    BY <1>1, <1>2, <1>3, <1>5, WithTree
  <2>3. pc'[w] = "idle"
    BY <1>2 DEF Change, Finish, IInv, Types
  <2>4. IsPrefix(place, place)
    BY <1>3, PrefixNames DEF Fits
  <2> QED BY <1>4, <2>1, <2>2, <2>3, <2>4
<1> QED BY <1>2, <1>6, <1>7, <1>8, LastCall DEF Change, IInv, Types

LEMMA MakesDirectory ==
  ASSUME IInv, NEW w \in Sessions, Mkdir(w) PROVE IInv' /\ StaysInside
<1>1. /\ pc[w] = "Mkdir" /\ req[w].op = "Mkdir" /\ Path(w) \in Paths /\ Inside(Path(w))
      /\ New(w, Place(tree, Path(w)), Dir)
  BY PathsOf DEF IInv, Serving, Mkdir
<1>2. ObjectOK(Dir) /\ Dir.type # "link"
  BY DEF ObjectOK, Dir, Objects, Paths
<1> QED BY <1>1, <1>2, News

LEMMA MakesSymlink ==
  ASSUME IInv, NEW w \in Sessions, Symlink(w) PROVE IInv' /\ StaysInside
<1>1. /\ pc[w] = "Symlink" /\ req[w].op = "Symlink" /\ Path(w) \in Paths /\ Inside(Path(w))
      /\ Target(w) \in Paths /\ Inside(Target(w)) /\ New(w, Place(tree, Target(w)), LinkTo(Path(w)))
  BY PathsOf DEF IInv, Serving, Symlink
<1>2. ObjectOK(LinkTo(Path(w))) /\ LinkTo(Path(w)).to = Path(w) /\ LinkTo(Path(w)).up = None
  BY <1>1 DEF ObjectOK, LinkTo, Objects
<1> QED BY <1>1, <1>2, News

LEMMA MakesLink ==
  ASSUME IInv, NEW w \in Sessions, Link(w) PROVE IInv' /\ StaysInside
<1> DEFINE place == Place(tree, Path(w))
<1>1. /\ IsTree(tree) /\ pc[w] = "Link" /\ req[w].op = "Link"
      /\ Path(w) \in Paths /\ Inside(Path(w)) /\ Target(w) \in Paths /\ Inside(Target(w))
  BY PathsOf DEF IInv, Types, Serving, Link
<1>2. place \in DOMAIN tree /\ New(w, Place(tree, Target(w)), tree[place])
  BY DEF Link
<1>3. place # None
  BY <1>1, <1>2, LeadsPath
<1>4. ObjectOK(tree[place])
  BY <1>1, <1>2, TreeObjects DEF ObjectOK
<1>5. Closed(tree) /\ tree[place].type = "link" /\ tree[place].up = None => Inside(tree[place].to)
  <2> SUFFICES ASSUME Closed(tree), tree[place].type = "link", tree[place].up = None
               PROVE  Inside(tree[place].to)
    OBVIOUS
  <2>1. Inside(place)
    BY <1>1, <1>3, PlaceInside
  <2> HIDE DEF place
  <2>2. place \notin LeadsOut(tree)
    BY DEF Closed
  <2> QED BY <1>2, <2>1, <2>2 DEF LeadsOut, IsA, Aim
<1> HIDE DEF place
<1> QED BY <1>1, <1>2, <1>4, <1>5, News

LEMMA Fails ==
  ASSUME IInv, NEW w \in Sessions, CallFails(w) PROVE IInv' /\ StaysInside
<1>1. touched'.known => \A q \in touched'.places : Inside(q)
  BY DEF CallFails, Untouched
<1> QED BY <1>1, LastCall, NothingTouched DEF CallFails, IInv, Types

LEMMA SetsAttribute ==
  ASSUME IInv, NEW w \in Sessions, SetAttribute(w) PROVE IInv' /\ StaysInside
<1> DEFINE asked == InOrder(req[w].parts)
           a == Head(ToSetYet(w))
           real == Leads(tree, Path(w))
<1>1. /\ IsTree(tree) /\ pc[w] = "Setstat" /\ result[w] = "none"
      /\ req[w].op = "Setstat" /\ Path(w) \in Paths /\ Inside(Path(w)) /\ ToSetYet(w) # << >>
  BY PathsOf DEF IInv, Types, Serving, SetAttribute
<1>2. /\ real # None /\ Touch(w, {real}) /\ Interfere(w)
      /\ attrs' = IF IsA(tree, "file", real) THEN [attrs EXCEPT ![tree[real].ino][a] = w] ELSE attrs
      /\ applied' = [applied EXCEPT ![w] = Append(applied[w], a)]
      /\ UNCHANGED <<tree, pc, req, result>>
  BY DEF SetAttribute
<1>3. asked \in Seq(Attributes) /\ applied[w] \in Seq(Attributes) /\ IsPrefix(applied[w], asked)
  BY <1>1, InOrderIs, PathsOf DEF IInv, Types, Setting
<1>4. a \in Attributes /\ IsPrefix(Append(applied[w], a), asked)
  BY <1>1, <1>3, Onward DEF ToSetYet
<1>5. (Closed(tree) => Inside(real)) /\ (touched'.known => Inside(real))
  BY <1>1, <1>2, LeadsInside, KnownLeads DEF Touch
<1>6. IsA(tree, "file", real) => tree[real].ino \in Inodes
  BY <1>1, TreeObjects DEF IsA
<1> HIDE DEF asked, a, real
<1>7. /\ attrs' \in [Inodes -> [Attributes -> Sessions \cup {None}]]
      /\ IsA(tree, "file", real) =>
           \A b \in Attributes : attrs'[tree[real].ino][b] = IF b = a THEN w ELSE attrs[tree[real].ino][b]
  BY <1>2, <1>4, <1>6 DEF IInv, Types
<1>8. /\ Append(applied[w], a) \in Seq(Attributes)
      /\ \A i \in DOMAIN Append(applied[w], a) :
           Append(applied[w], a)[i] = a \/ (i \in DOMAIN applied[w] /\ Append(applied[w], a)[i] = applied[w][i])
  BY <1>3, <1>4
<1>9. /\ applied' \in [Sessions -> Seq(Attributes)] /\ applied'[w] = Append(applied[w], a)
      /\ \A v \in Sessions \ {w} : applied'[v] = applied[v]
  BY <1>2, <1>8 DEF IInv, Types
<1>10. Types' /\ Serving'
  BY <1>2, <1>7, <1>9 DEF IInv, Types, Serving, Path, Target
<1>11. CheckedIsInside'
  BY <1>2, <1>5 DEF Touch, CheckedIsInside
<1>12. ASSUME NEW v \in Sessions, v \notin raced', pc[v] # "idle" \/ result[v] = "ok"
       PROVE  v = w /\ w \notin raced
  BY <1>2, <1>12 DEF Interfere
<1>13. KnownInside'
  BY <1>2, <1>12 DEF IInv, KnownInside, Path
<1>14. Setting'
  <2>1. ASSUME NEW v \in Sessions, pc'[v] = "Setstat" \/ result'[v] # "none"
        PROVE  LET all == InOrder(req'[v].parts)
                   there == Leads(tree', Path(v)')
               IN /\ IsPrefix(applied'[v], all)
                  /\ result'[v] = "ok" => applied'[v] = all
                  /\ v \notin raced' /\ result'[v] # "error" /\ IsA(tree', "file", there) =>
                       \A i \in DOMAIN applied'[v] : attrs'[tree'[there].ino][applied'[v][i]] = v
    <3>1. CASE v # w
      <4>1. IsPrefix(applied[v], InOrder(req[v].parts))
            /\ (result[v] = "ok" => applied[v] = InOrder(req[v].parts))
        BY <1>2, <2>1 DEF IInv, Setting
      <4>2. result[v] \in {"none", "ok", "error"}
        BY DEF IInv, Types
      <4>3. result'[v] # "error" => v \in raced'
        BY <1>2, <1>12, <2>1, <3>1, <4>2
      <4> QED BY <1>2, <1>9, <3>1, <4>1, <4>3
    <3>2. CASE v = w
      <4>1. IsPrefix(applied'[w], InOrder(req'[w].parts)) /\ result'[w] = "none"
        BY <1>1, <1>2, <1>4, <1>9 DEF asked
      <4>2. ASSUME w \notin raced', IsA(tree, "file", real), NEW i \in DOMAIN applied'[w]
            PROVE  attrs'[tree[real].ino][applied'[w][i]] = w
        <5>1. applied'[w][i] \in Attributes
          BY <1>8, <1>9
        <5>2. CASE applied'[w][i] = a
          BY <1>7, <4>2, <5>1, <5>2
        <5>3. CASE i \in DOMAIN applied[w] /\ applied'[w][i] = applied[w][i]
          <6>1. w \notin raced
            BY <1>1, <1>12, <4>2
          <6>2. attrs[tree[real].ino][applied[w][i]] = w
            BY <1>1, <4>2, <5>3, <6>1 DEF IInv, Setting, real
          <6> QED BY <1>7, <4>2, <5>1, <5>3, <6>2
        <5> QED BY <1>8, <1>9, <4>2, <5>2, <5>3
      <4>3. Leads(tree', Path(w)') = real /\ tree' = tree
        BY <1>2 DEF Path, real
      <4> QED BY <3>2, <4>1, <4>2, <4>3
    <3> QED BY <3>1, <3>2
  <2> QED BY <2>1 DEF Setting
<1>15. StaysInside
  <2>1. Closed(tree) => \A p \in touched'.places : Inside(p)
    BY <1>2, <1>5 DEF Touch
  <2> QED BY <1>2, <2>1, StillClosed
<1> QED BY <1>10, <1>11, <1>13, <1>14, <1>15 DEF IInv

\* The end of a Setstat, with success after everything that was asked.
LEMMA SetstatDone ==
  ASSUME IInv, NEW w \in Sessions, pc[w] = "Setstat", NEW CONSTANT answer \in {"ok", "error"},
         answer = "ok" => ToSetYet(w) = << >>,
         result' = [result EXCEPT ![w] = answer], pc' = [pc EXCEPT ![w] = "idle"],
         touched' = Untouched, UNCHANGED <<tree, attrs, req, applied, raced>>
  PROVE  IInv' /\ StaysInside
<1>1. /\ pc' \in [Sessions -> {"idle", "parents"} \cup Ops] /\ pc'[w] = "idle"
      /\ \A v \in Sessions \ {w} : pc'[v] = pc[v]
  BY DEF IInv, Types
<1>2. /\ result' \in [Sessions -> {"none", "ok", "error"}] /\ result'[w] = answer
      /\ \A v \in Sessions \ {w} : result'[v] = result[v]
  BY DEF IInv, Types
<1>3. Types' /\ CheckedIsInside'
  BY <1>1, <1>2 DEF IInv, Types, CheckedIsInside, Untouched
<1>4. Serving' /\ KnownInside'
  BY <1>1, <1>2 DEF IInv, Serving, KnownInside, Path, Target
<1>5. result[w] = "none" /\ IsPrefix(applied[w], InOrder(req[w].parts))
  BY DEF IInv, Serving, Setting
<1>6. answer = "ok" => applied[w] = InOrder(req[w].parts)
  <2>1. InOrder(req[w].parts) \in Seq(Attributes) /\ applied[w] \in Seq(Attributes)
    BY InOrderIs, PathsOf DEF IInv, Types
  <2> QED BY <1>5, <2>1, Onward DEF ToSetYet
<1>7. Setting'
  <2>1. ASSUME NEW v \in Sessions, pc'[v] = "Setstat" \/ result'[v] # "none"
        PROVE  LET asked == InOrder(req'[v].parts)
                   real == Leads(tree', Path(v)')
               IN /\ IsPrefix(applied'[v], asked)
                  /\ result'[v] = "ok" => applied'[v] = asked
                  /\ v \notin raced' /\ result'[v] # "error" /\ IsA(tree', "file", real) =>
                       \A i \in DOMAIN applied'[v] : attrs'[tree'[real].ino][applied'[v][i]] = v
    <3>1. pc[v] = "Setstat" \/ result[v] # "none"
      BY <1>1, <1>2, <2>1
    <3>2. result'[v] # "error" => result[v] # "error"
      BY <1>2, <1>5
    <3>3. Path(v)' = Path(v)
      BY DEF Path
    <3>4. IsPrefix(applied[v], InOrder(req[v].parts))
      BY <3>1 DEF IInv, Setting
    <3>5. result'[v] = "ok" => applied[v] = InOrder(req[v].parts)
      BY <1>2, <1>6, <3>1 DEF IInv, Setting
    <3>6. v \notin raced /\ result'[v] # "error" /\ IsA(tree, "file", Leads(tree, Path(v))) =>
            \A i \in DOMAIN applied[v] : attrs[tree[Leads(tree, Path(v))].ino][applied[v][i]] = v
      BY <3>1, <3>2 DEF IInv, Setting
    <3> QED BY <3>3, <3>4, <3>5, <3>6
  <2> QED BY <2>1 DEF Setting
<1> QED BY <1>3, <1>4, <1>7, NothingTouched DEF IInv

LEMMA Steps ==
  ASSUME IInv, [Next]_vars PROVE IInv' /\ [StaysInside]_vars
<1>1. CASE UNCHANGED vars
  BY <1>1 DEF vars, IInv, Types, Serving, CheckedIsInside, KnownInside, Setting, Path, Target
<1>2. ASSUME NEW w \in Sessions, NEW op \in Methods, NEW p \in Requested,
             NEW t \in IF op \in TwoPaths THEN Requested ELSE {<< >>}, Check(w, op, p, t)
      PROVE  IInv' /\ StaysInside
  <2>1. Requested \subseteq Paths /\ << >> \in Paths
    BY SftpAssumption DEF Paths
  <2> QED BY <1>2, <2>1, Checks
<1>3. ASSUME NEW w \in Sessions,
             \/ Look(w) \/ MakeParent(w) \/ HaveParents(w) \/ OpenFile(w) \/ CreateFile(w)
             \/ Rename(w) \/ RemoveEntry(w) \/ Mkdir(w) \/ Symlink(w) \/ Link(w)
             \/ SetAttribute(w) \/ CallFails(w)
      PROVE  IInv' /\ StaysInside
  BY <1>3, Looks, MakesParent, HasParents, Opens, Creates, Renames, Removes, MakesDirectory,
     MakesSymlink, MakesLink, SetsAttribute, Fails
<1>4. ASSUME NEW w \in Sessions, SetstatEnds(w) PROVE IInv' /\ StaysInside
  BY <1>4, SetstatDone DEF SetstatEnds
<1>5. ASSUME NEW w \in Sessions, SetstatFails(w) PROVE IInv' /\ StaysInside
  BY <1>5, SetstatDone DEF SetstatFails
<1> QED BY <1>1, <1>2, <1>3, <1>4, <1>5 DEF Next

THEOREM Invariance == Spec => []IInv
<1>1. Init => IInv
  BY Initially
<1>2. IInv /\ [Next]_vars => IInv'
  BY Steps
<1> QED BY <1>1, <1>2, PTL DEF Spec

\* While no link below the root leads out of it and none stands on the way to it, whatever
\* any number of sessions do between each other's checks and calls, secureSFTPHandlers reads
\* and changes nothing outside the root, and makes no way out of it but by giving a relative
\* link another place: for trees of any size with any links, absolute and relative.
THEOREM StaysConfined == Spec => Confined
<1>1. IInv /\ [Next]_vars => [StaysInside]_vars
  BY Steps
<1> QED BY <1>1, Invariance, PTL DEF Spec, Confined

\* Whatever links there are, a path that resolvePath let through and that led somewhere
\* leads inside the root when the calls of its request follow it, unless another session
\* has changed something since.
THEOREM ChecksHold == Spec => []CheckedIsInside
<1>1. IInv => CheckedIsInside
  BY DEF IInv, CheckedIsInside
<1> QED BY <1>1, Invariance, PTL

\* handleSetstat answers with success after it has set everything that it was asked to, on
\* the file at its path unless another session has interfered, and with an error after a
\* first part of it.
THEOREM SetstatIsTrue == Spec => []SetstatTruth
<1>1. ASSUME IInv, NEW w \in Sessions
      PROVE  LET asked == InOrder(req[w].parts)
                 real == Leads(tree, Path(w))
             IN /\ result[w] = "ok" => applied[w] = asked
                /\ result[w] = "ok" /\ w \notin raced /\ real # None /\ IsA(tree, "file", real) =>
                     \A a \in req[w].parts : attrs[tree[real].ino][a] = w
                /\ result[w] = "error" => IsPrefix(applied[w], asked)
  <2>1. result[w] # "none" =>
          /\ IsPrefix(applied[w], InOrder(req[w].parts))
          /\ result[w] = "ok" => applied[w] = InOrder(req[w].parts)
    BY <1>1 DEF IInv, Setting
  <2>2. ASSUME result[w] = "ok", w \notin raced, IsA(tree, "file", Leads(tree, Path(w))),
               NEW a \in req[w].parts
        PROVE  attrs[tree[Leads(tree, Path(w))].ino][a] = w
    <3>1. a \in Range(applied[w])
      BY <1>1, <2>1, <2>2, InOrderIs, PathsOf
    <3>2. PICK i \in DOMAIN applied[w] : a = applied[w][i]
      BY <3>1 DEF Range
    <3> QED BY <1>1, <2>2, <3>2 DEF IInv, Setting
  <2> QED BY <2>1, <2>2
<1>2. IInv => SetstatTruth
  BY <1>1 DEF SetstatTruth
<1> QED BY <1>2, Invariance, PTL
=============================================================================
