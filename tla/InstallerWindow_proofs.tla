----------------------- MODULE InstallerWindow_proofs -----------------------
(***************************************************************************)
(* The installer from the choice of the disk on.  First its storage pages  *)
(* and the storage step of the executor (InstallerPlanning): an NTFS       *)
(* volume is never larger than its partition, for any machine, any edits   *)
(* and any trouble.  Then the account page, the summary, the progress page *)
(* and the executor's client (InstallerFinish): what the person confirmed  *)
(* and what is shown of it.  The two models share no variable; each        *)
(* theorem is about the specification it names.                            *)
(***************************************************************************)
EXTENDS InstallerFinish, InstallerPlanning, FiniteSetTheorems, TLAPS

-----------------------------------------------------------------------------
(* Natural numbers, finite sets of them and sequences of sequences *)

\* A set of natural numbers has a least one: induction, without a predicate.
LEMMA LeastElement ==
  ASSUME NEW T, T \subseteq Nat, T # {}
  PROVE  \E n \in T : \A m \in T : n <= m
<1>. DEFINE R == {s \in Nat \X Nat : s[1] < s[2]}
<1>1. IsWellFoundedOn(R, Nat)
  BY NatLessThanWellFounded, Zenon DEF OpToRel
<1>. HIDE DEF R
<1>2. \E x \in T : \A y \in T : ~(<<y, x>> \in R)
  BY <1>1, WFMin
<1>3. \A x, y \in T : ~(<<y, x>> \in R) => x <= y
  BY DEF R
<1>. QED  BY <1>2, <1>3

\* A set of numbers that contains 0 and with each number the next contains them all.
LEMMA AllNumbers ==
  ASSUME NEW T, 0 \in T, \A n \in Nat : n \in T => n + 1 \in T
  PROVE  Nat \subseteq T
<1>1. SUFFICES ASSUME Nat \ T # {} PROVE FALSE
  OBVIOUS
<1>2. PICK n \in Nat \ T : \A m \in Nat \ T : n <= m
  BY <1>1, LeastElement
<1>3. n - 1 \in Nat /\ n - 1 \in T
  BY <1>2
<1>4. (n - 1) + 1 = n
  BY <1>2
<1>. QED  BY <1>2, <1>3, <1>4

\* The least element of a set of numbers.
LEMMA MinIs ==
  ASSUME NEW S, S \subseteq Nat, S # {}
  PROVE  Min(S) \in S /\ \A s \in S : Min(S) <= s
<1>1. \E x \in S : \A y \in S : x <= y
  BY LeastElement
<1>. QED  BY <1>1 DEF Min

\* Where the elements of a concatenation come from.
LEMMA JoinIs ==
  ASSUME NEW S, NEW s \in Seq(S), NEW t \in Seq(S)
  PROVE  /\ s \o t \in Seq(S) /\ Len(s \o t) = Len(s) + Len(t)
         /\ DOMAIN s = 1..Len(s) /\ DOMAIN t = 1..Len(t) /\ DOMAIN (s \o t) = 1..(Len(s) + Len(t))
         /\ \A i \in 1..Len(s) : (s \o t)[i] = s[i]
         /\ \A i \in 1..Len(t) : (s \o t)[Len(s) + i] = t[i]
OBVIOUS

\* The function that FlattenSeq defines by recursion.
IsFlat(f, ss, n) == f = [i \in 1..n |-> IF i = 1 THEN ss[i] ELSE f[i - 1] \o ss[i]]
Flat(ss) == CHOOSE f : IsFlat(f, ss, Len(ss))

LEMMA FlatIs ==
  ASSUME NEW S, NEW ss \in Seq(S), Len(ss) # 0
  PROVE  IsFlat(Flat(ss), ss, Len(ss)) /\ FlattenSeq(ss) = Flat(ss)[Len(ss)]
<1>. DEFINE T == {n \in Nat : \E f : IsFlat(f, ss, n)}
<1>1. 0 \in T
  <2>. DEFINE g == [i \in 1..0 |-> i]
  <2>1. IsFlat(g, ss, 0)
    BY DEF IsFlat
  <2>. QED  BY <2>1
<1>2. \A n \in Nat : n \in T => n + 1 \in T
  <2>. SUFFICES ASSUME NEW n \in Nat, NEW f, IsFlat(f, ss, n)
                PROVE  \E g : IsFlat(g, ss, n + 1)
    OBVIOUS
  <2>. DEFINE g == [i \in 1..(n + 1) |-> IF i <= n THEN f[i] ELSE IF n = 0 THEN ss[1] ELSE f[n] \o ss[n + 1]]
  <2>0. \A i \in 1..n : f[i] = IF i = 1 THEN ss[i] ELSE f[i - 1] \o ss[i]
    BY DEF IsFlat
  <2>1. \A i \in 1..(n + 1) : g[i] = IF i = 1 THEN ss[i] ELSE g[i - 1] \o ss[i]
    <3>. TAKE i \in 1..(n + 1)
    <3>1. CASE i <= n
      <4>1. i # 1 => g[i - 1] = f[i - 1]
        BY <3>1
      <4>. QED  BY <2>0, <3>1, <4>1
    <3>2. CASE i = n + 1
      BY <3>2
    <3>. QED  BY <3>1, <3>2
  <2>2. IsFlat(g, ss, n + 1)
    BY <2>1 DEF IsFlat
  <2>. QED  BY <2>2
<1>3. \E f : IsFlat(f, ss, Len(ss))
  <2>. HIDE DEF T
  <2>1. Len(ss) \in T
    BY <1>1, <1>2, AllNumbers
  <2>. QED  BY <2>1 DEF T
<1>4. IsFlat(Flat(ss), ss, Len(ss))
  BY <1>3 DEF Flat
<1>5. FlattenSeq(ss) = Flat(ss)[Len(ss)]
  BY DEF FlattenSeq, Flat, IsFlat
<1>. QED  BY <1>4, <1>5

\* FlattenSeq stays in a set of sequences that is closed under concatenation.
LEMMA FlattenIn ==
  ASSUME NEW S, <<>> \in S, \A s, t \in S : s \o t \in S, NEW ss \in Seq(S)
  PROVE  FlattenSeq(ss) \in S
<1>1. CASE Len(ss) = 0
  <2>1. ss = <<>>
    BY <1>1
  <2>. QED  BY <1>1, <2>1 DEF FlattenSeq
<1>2. CASE Len(ss) # 0
  <2>. DEFINE f == Flat(ss)
              T == {n \in Nat : n \in 1..Len(ss) => f[n] \in S}
  <2>1. IsFlat(f, ss, Len(ss)) /\ FlattenSeq(ss) = f[Len(ss)]
    BY <1>2, FlatIs
  <2>. HIDE DEF f
  <2>2. \A i \in 1..Len(ss) : f[i] = IF i = 1 THEN ss[i] ELSE f[i - 1] \o ss[i]
    BY <2>1 DEF IsFlat
  <2>3. 0 \in T
    OBVIOUS
  <2>4. \A n \in Nat : n \in T => n + 1 \in T
    <3>. SUFFICES ASSUME NEW n \in Nat, n \in T
                  PROVE  n + 1 \in 1..Len(ss) => f[n + 1] \in S
      OBVIOUS
    <3>. HAVE n + 1 \in 1..Len(ss)
    <3>1. ss[n + 1] \in S
      OBVIOUS
    <3>2. CASE n = 0
      BY <2>2, <3>1, <3>2
    <3>3. CASE n # 0
      <4>1. f[n] \in S
        BY <3>3
      <4>2. f[n + 1] = f[n] \o ss[n + 1]
        <5>1. (n + 1) - 1 = n /\ n + 1 # 1
          BY <3>3
        <5>. QED  BY <2>2, <5>1
      <4>. QED  BY <3>1, <4>1, <4>2
    <3>. QED  BY <3>2, <3>3
  <2>5. Len(ss) \in T
    <3>. HIDE DEF T
    <3>. QED  BY <2>3, <2>4, AllNumbers
  <2>. QED  BY <1>2, <2>1, <2>5
<1>. QED  BY <1>1, <1>2

-----------------------------------------------------------------------------
(* Lists: sequences of whatever elements they have *)

Listing(s) == s \in Seq({s[i] : i \in DOMAIN s})

LEMMA ListingOf ==
  ASSUME NEW S, NEW s \in Seq(S)
  PROVE  Listing(s)
<1>1. Len(s) \in Nat /\ DOMAIN s = 1..Len(s) /\ s = [i \in 1..Len(s) |-> s[i]]
  OBVIOUS
<1>2. [i \in 1..Len(s) |-> s[i]] \in Seq({s[i] : i \in 1..Len(s)})
  BY <1>1
<1>. QED  BY <1>1, <1>2 DEF Listing

\* A function on 1..n is a list.
LEMMA ListingMade ==
  ASSUME NEW n \in Nat, NEW s, s = [i \in 1..n |-> s[i]]
  PROVE  Listing(s) /\ Len(s) = n /\ DOMAIN s = 1..n
<1>. DEFINE S == {s[i] : i \in 1..n}
<1>1. [i \in 1..n |-> s[i]] \in Seq(S) /\ Len([i \in 1..n |-> s[i]]) = n
  OBVIOUS
<1>2. s \in Seq(S) /\ Len(s) = n /\ DOMAIN s = 1..n
  BY <1>1
<1>. QED  BY <1>2, ListingOf

LEMMA ListingIs ==
  ASSUME NEW s, Listing(s)
  PROVE  Len(s) \in Nat /\ DOMAIN s = 1..Len(s) /\ s = [i \in 1..Len(s) |-> s[i]]
BY DEF Listing

LEMMA ListingIn ==
  ASSUME NEW s, Listing(s), NEW S, \A i \in DOMAIN s : s[i] \in S
  PROVE  s \in Seq(S)
<1>1. Len(s) \in Nat /\ DOMAIN s = 1..Len(s) /\ s = [i \in 1..Len(s) |-> s[i]]
  BY ListingIs
<1>2. [i \in 1..Len(s) |-> s[i]] \in Seq(S)
  BY <1>1
<1>. QED  BY <1>1, <1>2

LEMMA JoinListing ==
  ASSUME NEW s, NEW t, Listing(s), Listing(t)
  PROVE  /\ Listing(s \o t) /\ Len(s \o t) = Len(s) + Len(t)
         /\ Len(s) \in Nat /\ Len(t) \in Nat
         /\ DOMAIN s = 1..Len(s) /\ DOMAIN t = 1..Len(t) /\ DOMAIN (s \o t) = 1..(Len(s) + Len(t))
         /\ \A i \in 1..Len(s) : (s \o t)[i] = s[i]
         /\ \A i \in 1..Len(t) : (s \o t)[Len(s) + i] = t[i]
<1>. DEFINE S == {s[i] : i \in DOMAIN s} \cup {t[i] : i \in DOMAIN t}
<1>1. s \in Seq(S) /\ t \in Seq(S)
  BY ListingIn
<1>. HIDE DEF S
<1>2. Len(s) \in Nat /\ Len(t) \in Nat
  BY <1>1
<1>3. s \o t \in Seq(S)
  BY <1>1
<1>4. Listing(s \o t)
  BY <1>3, ListingOf
<1>5. /\ Len(s \o t) = Len(s) + Len(t)
      /\ DOMAIN s = 1..Len(s) /\ DOMAIN t = 1..Len(t) /\ DOMAIN (s \o t) = 1..(Len(s) + Len(t))
      /\ \A i \in 1..Len(s) : (s \o t)[i] = s[i]
      /\ \A i \in 1..Len(t) : (s \o t)[Len(s) + i] = t[i]
  BY <1>1
<1>. QED  BY <1>2, <1>4, <1>5

LEMMA OneListing ==
  ASSUME NEW e
  PROVE  Listing(<<e>>) /\ Len(<<e>>) = 1 /\ DOMAIN <<e>> = {1} /\ <<e>>[1] = e
<1>1. <<e>> \in Seq({e})
  OBVIOUS
<1>2. Listing(<<e>>)
  BY <1>1, ListingOf
<1>3. Len(<<e>>) = 1 /\ <<e>>[1] = e
  OBVIOUS
<1>4. DOMAIN <<e>> = 1..1 /\ 1..1 = {1}
  BY <1>1, <1>3
<1>. QED  BY <1>2, <1>3, <1>4

LEMMA NoneListing == Listing(<<>>) /\ Len(<<>>) = 0 /\ DOMAIN <<>> = {}
<1>1. <<>> \in Seq({})
  OBVIOUS
<1>2. Listing(<<>>)
  BY <1>1, ListingOf
<1>3. Len(<<>>) = 0
  OBVIOUS
<1>4. DOMAIN <<>> = 1..0 /\ 1..0 = {}
  BY <1>1, <1>3
<1>. QED  BY <1>2, <1>3, <1>4

LEMMA TailListing ==
  ASSUME NEW s, Listing(s), Len(s) # 0
  PROVE  /\ Listing(Tail(s)) /\ Len(Tail(s)) = Len(s) - 1
         /\ Len(s) \in Nat /\ DOMAIN s = 1..Len(s) /\ DOMAIN Tail(s) = 1..(Len(s) - 1)
         /\ \A i \in 1..(Len(s) - 1) : Tail(s)[i] = s[i + 1]
<1>. DEFINE S == {s[i] : i \in DOMAIN s}
<1>1. s \in Seq(S)
  BY DEF Listing
<1>. HIDE DEF S
<1>2. s # <<>> /\ Tail(s) \in Seq(S)
  BY <1>1
<1>3. Listing(Tail(s))
  BY <1>2, ListingOf
<1>4. /\ Len(Tail(s)) = Len(s) - 1
      /\ Len(s) \in Nat /\ DOMAIN s = 1..Len(s) /\ DOMAIN Tail(s) = 1..(Len(s) - 1)
      /\ \A i \in 1..(Len(s) - 1) : Tail(s)[i] = s[i + 1]
  BY <1>1, <1>2
<1>. QED  BY <1>3, <1>4

\* What all the parts of a flattened list have, the list has, when it passes to a concatenation.
LEMMA FlattenListing ==
  ASSUME NEW ss, Listing(ss), \A i \in DOMAIN ss : Listing(ss[i])
  PROVE  Listing(FlattenSeq(ss))
<1>. DEFINE C == UNION {{ss[i][j] : j \in DOMAIN ss[i]} : i \in DOMAIN ss}
<1>1. \A i \in DOMAIN ss : ss[i] \in Seq(C)
  <2>. TAKE i \in DOMAIN ss
  <2>1. \A j \in DOMAIN ss[i] : ss[i][j] \in C
    OBVIOUS
  <2>. HIDE DEF C
  <2>. QED  BY <2>1, ListingIn
<1>. HIDE DEF C
<1>2. ss \in Seq(Seq(C))
  BY <1>1, ListingIn
<1>3. <<>> \in Seq(C) /\ \A s, t \in Seq(C) : s \o t \in Seq(C)
  OBVIOUS
<1>. DEFINE S == Seq(C)
<1>4. FlattenSeq(ss) \in S
  <2>1. <<>> \in S /\ (\A s, t \in S : s \o t \in S) /\ ss \in Seq(S)
    BY <1>2, <1>3
  <2>. HIDE DEF S
  <2>. QED  BY <2>1, FlattenIn
<1>. QED  BY <1>4, ListingOf
-----------------------------------------------------------------------------
(* Disks and the commands that reach them *)

\* A partition, before and while commands run: only where a new one lies is not said.
PartOK(p) ==
  /\ DOMAIN p = {"num", "uuid", "start", "size", "type", "fs", "fsid", "mnt"}
  /\ p.fs = "ntfs" => p.start \in Int /\ p.size \in Int
PartsOK(P) ==
  /\ IsFiniteSet(P)
  /\ \A p \in P : PartOK(p)
  /\ \A p, q \in P : p.num = q.num => p = q
  /\ \A p, q \in P : p.fs = "ntfs" /\ q.fs = "ntfs" /\ p.uuid = q.uuid /\ p.uuid \in DOMAIN Volumes => p = q
DiskOK(disk) ==
  /\ DOMAIN disk = {"id", "path", "size", "table", "tableId", "parts", "nested"}
  /\ PartsOK(disk.parts)
DisksOK(ds) ==
  /\ {Target, Live} \subseteq DOMAIN ds
  /\ \A d \in DOMAIN ds : DiskOK(ds[d])
  /\ \A d, e \in DOMAIN ds : ds[d].path = ds[e].path => d = e

\* Every NTFS volume is inside its partition.
Whole(disk, v) == \A p \in disk.parts : p.fs = "ntfs" /\ p.uuid \in DOMAIN v => v[p.uuid] <= p.size

\* No command makes an NTFS filesystem, and a partition is shrunk where it lies.
CommandOK(c, disk) ==
  /\ c.op = "mkfs" => c.fs # "ntfs"
  /\ c.op \in {"ntfsresize", "resizepart"} => c.path = disk.path /\ c.target \in Nat
  /\ c.op = "resizepart" =>
       /\ c.start \in Int /\ c.end = c.start + c.target
       /\ \A p \in disk.parts : p.fs = "ntfs" /\ p.num = c.num => p.start = c.start

\* The volume is shrunk before its partition, to the same size.
Follows(b, c) == b.op = "ntfsresize" /\ b.num = c.num /\ b.target = c.target
GoodSeq(s, disk) ==
  /\ Listing(s)
  /\ \A i \in DOMAIN s : CommandOK(s[i], disk)
  /\ \A i \in DOMAIN s : s[i].op = "resizepart" => i - 1 \in DOMAIN s /\ Follows(s[i - 1], s[i])

\* What is left to do: the volume of the partition to shrink next is small enough.
Ready(c, disk, v) ==
  \A p \in disk.parts : p.fs = "ntfs" /\ p.num = c.num /\ p.uuid \in DOMAIN v => v[p.uuid] <= c.target
TodoOK(s, disk, v) ==
  /\ Listing(s) /\ Len(s) # 0 /\ s[Len(s)].op = "verify"
  /\ \A i \in DOMAIN s : CommandOK(s[i], disk)
  /\ \A i \in DOMAIN s : s[i].op = "resizepart" => IF i = 1 THEN Ready(s[1], disk, v) ELSE Follows(s[i - 1], s[i])

LEMMA NoneGood == ASSUME NEW disk PROVE GoodSeq(<<>>, disk)
BY NoneListing DEF GoodSeq

LEMMA OneGood ==
  ASSUME NEW disk, NEW c, c.op # "resizepart", CommandOK(c, disk)
  PROVE  GoodSeq(<<c>>, disk)
BY OneListing DEF GoodSeq

LEMMA JoinGood ==
  ASSUME NEW disk, NEW s, NEW t, GoodSeq(s, disk), GoodSeq(t, disk)
  PROVE  GoodSeq(s \o t, disk)
<1>. DEFINE u == s \o t
<1>1. Listing(s) /\ Listing(t)
  BY DEF GoodSeq
<1>2. /\ Listing(u) /\ Len(u) = Len(s) + Len(t)
      /\ Len(s) \in Nat /\ Len(t) \in Nat
      /\ DOMAIN s = 1..Len(s) /\ DOMAIN t = 1..Len(t) /\ DOMAIN u = 1..(Len(s) + Len(t))
      /\ \A i \in 1..Len(s) : u[i] = s[i]
      /\ \A i \in 1..Len(t) : u[Len(s) + i] = t[i]
  BY <1>1, JoinListing
<1>. HIDE DEF u
<1>3. ASSUME NEW i \in DOMAIN u
      PROVE  CommandOK(u[i], disk) /\ (u[i].op = "resizepart" => i - 1 \in DOMAIN u /\ Follows(u[i - 1], u[i]))
  <2>1. CASE i \in 1..Len(s)
    <3>1. i \in DOMAIN s /\ u[i] = s[i]
      BY <1>2, <2>1
    <3>2. CommandOK(s[i], disk) /\ (s[i].op = "resizepart" => i - 1 \in DOMAIN s /\ Follows(s[i - 1], s[i]))
      BY <3>1 DEF GoodSeq
    <3>3. i - 1 \in DOMAIN s => i - 1 \in DOMAIN u /\ u[i - 1] = s[i - 1]
      BY <1>2
    <3>. QED  BY <3>1, <3>2, <3>3
  <2>2. CASE i \notin 1..Len(s)
    <3>. DEFINE j == i - Len(s)
    <3>1. j \in 1..Len(t) /\ i = Len(s) + j
      BY <1>2, <2>2
    <3>2. j \in DOMAIN t /\ u[i] = t[j]
      BY <1>2, <3>1
    <3>3. CommandOK(t[j], disk) /\ (t[j].op = "resizepart" => j - 1 \in DOMAIN t /\ Follows(t[j - 1], t[j]))
      BY <3>2 DEF GoodSeq
    <3>4. j - 1 \in DOMAIN t => i - 1 \in DOMAIN u /\ u[i - 1] = t[j - 1]
      <4>1. j - 1 \in 1..Len(t) => u[Len(s) + (j - 1)] = t[j - 1]
        BY <1>2
      <4>2. Len(s) + (j - 1) = i - 1
        BY <1>2, <3>1
      <4>. QED  BY <1>2, <4>1, <4>2
    <3>. HIDE DEF j
    <3>. QED  BY <3>2, <3>3, <3>4
  <2>. QED  BY <2>1, <2>2
<1>. QED  BY <1>2, <1>3 DEF GoodSeq, u

LEMMA FlattenGood ==
  ASSUME NEW disk, NEW ss, Listing(ss), \A i \in DOMAIN ss : GoodSeq(ss[i], disk)
  PROVE  GoodSeq(FlattenSeq(ss), disk)
<1>. DEFINE C == UNION {{ss[i][j] : j \in DOMAIN ss[i]} : i \in DOMAIN ss}
            S == {s \in Seq(C) : GoodSeq(s, disk)}
<1>1. \A i \in DOMAIN ss : ss[i] \in S
  <2>. TAKE i \in DOMAIN ss
  <2>0. Listing(ss[i]) /\ GoodSeq(ss[i], disk)
    BY DEF GoodSeq
  <2>1. \A j \in DOMAIN ss[i] : ss[i][j] \in C
    OBVIOUS
  <2>. HIDE DEF C
  <2>. QED  BY <2>0, <2>1, ListingIn
<1>2. ss \in Seq(S)
  <2>. HIDE DEF S
  <2>. QED  BY <1>1, ListingIn
<1>3. <<>> \in S /\ \A s, t \in S : s \o t \in S
  <2>. HIDE DEF C
  <2>1. <<>> \in S
    BY NoneGood
  <2>2. \A s, t \in S : s \o t \in S
    <3>. TAKE s, t \in S
    <3>1. s \in Seq(C) /\ t \in Seq(C) /\ GoodSeq(s, disk) /\ GoodSeq(t, disk)
      OBVIOUS
    <3>2. s \o t \in Seq(C)
      BY <3>1
    <3>3. GoodSeq(s \o t, disk)
      BY <3>1, JoinGood
    <3>. QED  BY <3>2, <3>3
  <2>. QED  BY <2>1, <2>2
<1>4. FlattenSeq(ss) \in S
  <2>. HIDE DEF S
  <2>. QED  BY <1>2, <1>3, FlattenIn
<1>. QED  BY <1>4

\* The two commands of a shrink.
ResizeOK(r, disk) ==
  /\ r.path = disk.path /\ r.target \in Nat /\ r.start \in Int
  /\ \A p \in disk.parts : p.fs = "ntfs" /\ p.num = r.num => p.start = r.start

LEMMA ShrinkGood ==
  ASSUME NEW disk, NEW r, ResizeOK(r, disk)
  PROVE  GoodSeq(ResizeSteps(r), disk)
<1>. DEFINE b == ShrinkVolume(r)
            c == ShrinkPartition(r)
<1>1. CommandOK(b, disk) /\ CommandOK(c, disk) /\ Follows(b, c) /\ b.op # "resizepart"
  BY DEF CommandOK, Follows, ResizeOK, ShrinkVolume, ShrinkPartition
<1>2. ResizeSteps(r) = <<b, c>>
  BY DEF ResizeSteps
<1>. HIDE DEF b, c
<1>3. <<b, c>> \in Seq({b, c}) /\ Len(<<b, c>>) = 2 /\ <<b, c>>[1] = b /\ <<b, c>>[2] = c
  OBVIOUS
<1>4. Listing(<<b, c>>) /\ DOMAIN <<b, c>> = 1..2
  <2>1. Listing(<<b, c>>)
    BY <1>3, ListingOf
  <2>2. DOMAIN <<b, c>> = 1..2
    BY <1>3
  <2>. QED  BY <2>1, <2>2
<1>5. \A i \in 1..2 : i = 1 \/ i = 2
  OBVIOUS
<1>. QED  BY <1>1, <1>2, <1>3, <1>4, <1>5 DEF GoodSeq

\* The frozen commands of a plan.
CommandsOK(commands, disk) ==
  /\ GoodSeq(commands.partition, disk) /\ GoodSeq(commands.format, disk)
  /\ Listing(commands.resizes)
  /\ \A i \in DOMAIN commands.resizes : ResizeOK(commands.resizes[i], disk)

LEMMA StepsGood ==
  ASSUME NEW commands, NEW disk, NEW v, CommandsOK(commands, disk)
  PROVE  TodoOK(StorageSteps(commands), disk, v)
<1>. DEFINE rs == [i \in DOMAIN commands.resizes |-> ResizeSteps(commands.resizes[i])]
            n == Len(commands.resizes)
<1>1. Listing(commands.resizes) /\ n \in Nat /\ DOMAIN commands.resizes = 1..n
  BY ListingIs DEF CommandsOK
<1>2. Listing(rs) /\ \A i \in DOMAIN rs : GoodSeq(rs[i], disk)
  <2>1. rs = [i \in 1..n |-> rs[i]] /\ DOMAIN rs = 1..n
    BY <1>1
  <2>2. \A i \in 1..n : GoodSeq(rs[i], disk)
    BY <1>1, ShrinkGood DEF CommandsOK
  <2>. HIDE DEF rs, n
  <2>. QED  BY <1>1, <2>1, <2>2, ListingMade
<1>. HIDE DEF rs
<1>3. GoodSeq(FlattenSeq(rs), disk)
  BY <1>2, FlattenGood
<1>. DEFINE a == <<[op |-> "swapoff"]>>
            d == <<[op |-> "devices"]>>
            z == <<[op |-> "verify"]>>
<1>4. GoodSeq(a, disk) /\ GoodSeq(d, disk) /\ GoodSeq(z, disk)
  <2>1. \A op \in {"swapoff", "devices", "verify"} : [op |-> op].op = op
    OBVIOUS
  <2>2. /\ CommandOK([op |-> "swapoff"], disk) /\ CommandOK([op |-> "devices"], disk)
        /\ CommandOK([op |-> "verify"], disk)
    BY DEF CommandOK
  <2>. QED  BY <2>2, OneGood
<1>5. Listing(z) /\ Len(z) = 1 /\ z[1] = [op |-> "verify"]
  BY OneListing
<1>. HIDE DEF a, d, z
<1>. DEFINE front == a \o FlattenSeq(rs) \o commands.partition \o d \o commands.format
<1>6. GoodSeq(front, disk)
  <2>1. GoodSeq(a \o FlattenSeq(rs), disk)
    BY <1>3, <1>4, JoinGood
  <2>2. GoodSeq(a \o FlattenSeq(rs) \o commands.partition, disk)
    BY <2>1, JoinGood DEF CommandsOK
  <2>3. GoodSeq(a \o FlattenSeq(rs) \o commands.partition \o d, disk)
    BY <1>4, <2>2, JoinGood
  <2>. QED  BY <2>3, JoinGood DEF CommandsOK
<1>7. StorageSteps(commands) = front \o z
  BY DEF StorageSteps, a, d, z, rs
<1>. HIDE DEF front
<1>8. GoodSeq(front \o z, disk)
  BY <1>4, <1>6, JoinGood
<1>9. /\ Len(front \o z) = Len(front) + 1 /\ Len(front) \in Nat
      /\ (front \o z)[Len(front) + 1] = [op |-> "verify"]
  <2>1. Listing(front)
    BY <1>6 DEF GoodSeq
  <2>0. Listing(z)
    BY <1>5
  <2>2. /\ Listing(front \o z) /\ Len(front \o z) = Len(front) + Len(z)
        /\ Len(front) \in Nat /\ Len(z) \in Nat
        /\ DOMAIN front = 1..Len(front) /\ DOMAIN z = 1..Len(z) /\ DOMAIN (front \o z) = 1..(Len(front) + Len(z))
        /\ \A i \in 1..Len(front) : (front \o z)[i] = front[i]
        /\ \A i \in 1..Len(z) : (front \o z)[Len(front) + i] = z[i]
    BY <2>0, <2>1, JoinListing
  <2>. QED  BY <1>5, <2>2
<1>. DEFINE s == front \o z
<1>10. \A i \in DOMAIN s : s[i].op = "resizepart" => i # 1 /\ Follows(s[i - 1], s[i])
  <2>1. 0 \notin DOMAIN s
    BY <1>8, ListingIs DEF GoodSeq
  <2>2. \A i \in DOMAIN s : s[i].op = "resizepart" => i - 1 \in DOMAIN s /\ Follows(s[i - 1], s[i])
    BY <1>8 DEF GoodSeq
  <2>. HIDE DEF s
  <2>. QED  BY <2>1, <2>2
<1>11. Listing(s) /\ Len(s) # 0 /\ s[Len(s)].op = "verify" /\ \A i \in DOMAIN s : CommandOK(s[i], disk)
  BY <1>8, <1>9 DEF GoodSeq
<1>. HIDE DEF s
<1>12. TodoOK(s, disk, v)
  BY <1>10, <1>11 DEF TodoOK
<1>. QED  BY <1>7, <1>12 DEF s
\* The image of a finite set under a function.
LEMMA ImageFinite ==
  ASSUME NEW P, IsFiniteSet(P), NEW g
  PROVE  IsFiniteSet({g[p] : p \in P}) /\ Cardinality({g[p] : p \in P}) <= Cardinality(P)
<1>. DEFINE Q == {g[p] : p \in P}
            h == [p \in P |-> g[p]]
<1>1. h \in [P -> Q] /\ \A q \in Q : \E p \in P : h[p] = q
  OBVIOUS
<1>. HIDE DEF Q, h
<1>2. h \in Surjection(P, Q)
  BY <1>1 DEF Surjection
<1>. QED  BY <1>2, FS_Surjection DEF Q

\* The partition numbers of a finite set leave one that is free.
LEMMA MadeNumber ==
  ASSUME NEW disk, IsFiniteSet(disk.parts), NEW command
  PROVE  \A p \in disk.parts : p.num # MadePartition(disk, command).num
<1>. DEFINE P == disk.parts
            c == Cardinality(P)
            U == {p.num : p \in P}
            F == (1..(c + 1)) \ U
            g == [p \in P |-> p.num]
<1>1. c \in Nat
  BY FS_CardinalityType
<1>2. IsFiniteSet(U) /\ Cardinality(U) <= c
  <2>1. U = {g[p] : p \in P}
    OBVIOUS
  <2>. HIDE DEF g, U, P
  <2>. QED  BY <2>1, ImageFinite DEF P
<1>3. F # {}
  <2>1. SUFFICES ASSUME F = {} PROVE FALSE
    OBVIOUS
  <2>2. 1..(c + 1) \in SUBSET U
    BY <2>1
  <2>. HIDE DEF U, F, P
  <2>3. Cardinality(1..(c + 1)) <= Cardinality(U)
    BY <1>2, <2>2, FS_Subset
  <2>. HIDE DEF c
  <2>4. Cardinality(1..(c + 1)) = c + 1
    BY <1>1, FS_Interval
  <2>5. Cardinality(U) \in Nat
    BY <1>2, FS_CardinalityType
  <2>. QED  BY <1>1, <1>2, <2>3, <2>4, <2>5
<1>4. F \subseteq Nat
  BY <1>1
<1>5. Min(F) \in F
  <2>. HIDE DEF F
  <2>. QED  BY <1>3, <1>4, MinIs
<1>6. MadePartition(disk, command).num = Min(F)
  BY DEF MadePartition
<1>. QED  BY <1>5, <1>6

-----------------------------------------------------------------------------
(* What a command does to the NTFS partitions of a disk *)

\* Every NTFS partition of Q was one of P, where it is; Kept: and as large.
From(P, Q) ==
  \A q \in Q : q.fs = "ntfs" =>
    \E p \in P : p.fs = "ntfs" /\ p.num = q.num /\ p.uuid = q.uuid /\ p.start = q.start
Kept(P, Q) ==
  \A q \in Q : q.fs = "ntfs" =>
    \E p \in P : p.fs = "ntfs" /\ p.num = q.num /\ p.uuid = q.uuid /\ p.start = q.start /\ p.size = q.size

\* g edits each partition in its slot and makes none NTFS.
Edits(g, P) ==
  \A p \in P : /\ PartOK(g[p]) /\ g[p].num = p.num
               /\ g[p].fs = "ntfs" => p.fs = "ntfs" /\ g[p].uuid = p.uuid /\ g[p].start = p.start

LEMMA PartsEdited ==
  ASSUME NEW P, PartsOK(P), NEW g, Edits(g, P)
  PROVE  /\ PartsOK({g[p] : p \in P}) /\ From(P, {g[p] : p \in P})
         /\ (\A p \in P : g[p].size = p.size) => Kept(P, {g[p] : p \in P})
<1>. DEFINE Q == {g[p] : p \in P}
<1>1. IsFiniteSet(Q)
  BY ImageFinite DEF PartsOK
<1>2. \A q \in Q : PartOK(q)
  BY DEF Edits
<1>3. \A q, r \in Q : q.num = r.num => q = r
  BY DEF Edits, PartsOK
<1>4. \A q, r \in Q : q.fs = "ntfs" /\ r.fs = "ntfs" /\ q.uuid = r.uuid /\ q.uuid \in DOMAIN Volumes => q = r
  BY DEF Edits, PartsOK
<1>5. PartsOK(Q)
  BY <1>1, <1>2, <1>3, <1>4 DEF PartsOK
<1>6. From(P, Q) /\ ((\A p \in P : g[p].size = p.size) => Kept(P, Q))
  BY DEF Edits, From, Kept
<1>. QED  BY <1>5, <1>6

LEMMA PartsFewer ==
  ASSUME NEW P, PartsOK(P), NEW Q, Q \subseteq P
  PROVE  PartsOK(Q) /\ Kept(P, Q)
<1>1. IsFiniteSet(Q)
  BY FS_Subset DEF PartsOK
<1>. QED  BY <1>1 DEF PartsOK, Kept

LEMMA PartsMore ==
  ASSUME NEW P, PartsOK(P), NEW n, PartOK(n), n.fs # "ntfs", \A p \in P : p.num # n.num
  PROVE  PartsOK(P \cup {n}) /\ Kept(P, P \cup {n})
<1>1. IsFiniteSet(P \cup {n})
  BY FS_AddElement DEF PartsOK
<1>. QED  BY <1>1 DEF PartsOK, Kept

LEMMA KeptFrom == ASSUME NEW P, NEW Q, Kept(P, Q) PROVE From(P, Q)
BY DEF Kept, From

\* A command that makes no NTFS partition leaves a disk a disk.
LEMMA AppliedOK ==
  ASSUME NEW disk, DiskOK(disk), NEW c,
         c.op \in {"mklabel", "mkpart", "flag", "rm", "resizepart", "mkfs"},
         c.op = "mkfs" => c.fs # "ntfs",
         c.op = "resizepart" => c.end \in Int
  PROVE  /\ DiskOK(Applied(disk, c)) /\ Applied(disk, c).path = disk.path
         /\ From(disk.parts, Applied(disk, c).parts)
         /\ c.op # "resizepart" => Kept(disk.parts, Applied(disk, c).parts)
<1>. DEFINE P == disk.parts
            Q == Applied(disk, c).parts
<1>. SUFFICES /\ DOMAIN Applied(disk, c) = DOMAIN disk /\ Applied(disk, c).path = disk.path
              /\ PartsOK(Q) /\ From(P, Q) /\ (c.op # "resizepart" => Kept(P, Q))
  BY DEF DiskOK
<1>0. PartsOK(P) /\ DOMAIN disk = {"id", "path", "size", "table", "tableId", "parts", "nested"}
  BY DEF DiskOK
<1>1. CASE c.op = "mklabel"
  <2>1. Applied(disk, c) = [disk EXCEPT !.table = "gpt", !.tableId = "new", !.parts = {}]
    BY <1>1 DEF Applied
  <2>2. DOMAIN Applied(disk, c) = DOMAIN disk /\ Applied(disk, c).path = disk.path /\ Q = {}
    BY <1>0, <2>1
  <2>3. Q \subseteq P
    BY <2>2
  <2>. HIDE DEF P, Q
  <2>. QED  BY <1>0, <2>2, <2>3, PartsFewer, KeptFrom
<1>2. CASE c.op = "mkpart"
  <2>. DEFINE n == MadePartition(disk, c)
  <2>1. Applied(disk, c) = [disk EXCEPT !.parts = @ \cup {n}]
    BY <1>2 DEF Applied
  <2>2. PartOK(n) /\ n.fs # "ntfs"
    BY Zenon DEF MadePartition, PartOK
  <2>3. \A p \in P : p.num # n.num
    BY <1>0, MadeNumber DEF PartsOK
  <2>. HIDE DEF n
  <2>4. DOMAIN Applied(disk, c) = DOMAIN disk /\ Applied(disk, c).path = disk.path /\ Q = P \cup {n}
    BY <1>0, <2>1
  <2>. HIDE DEF P, Q
  <2>. QED  BY <1>0, <2>2, <2>3, <2>4, PartsMore, KeptFrom
<1>3. CASE c.op = "flag"
  <2>. DEFINE g == [p \in P |-> IF p.num = c.num THEN [p EXCEPT !.type = c.type] ELSE p]
  <2>. DEFINE E == {IF p.num = c.num THEN [p EXCEPT !.type = c.type] ELSE p : p \in P}
  <2>1. Applied(disk, c) = [disk EXCEPT !.parts = E]
    BY <1>3 DEF Applied
  <2>5. E = {g[p] : p \in P}
    OBVIOUS
  <2>. HIDE DEF E
  <2>2. DOMAIN Applied(disk, c) = DOMAIN disk /\ Applied(disk, c).path = disk.path /\ Q = E
    BY <1>0, <2>1
  <2>3. \A p \in P : PartOK(p)
    BY <1>0 DEF PartsOK
  <2>4. Edits(g, P) /\ \A p \in P : g[p].size = p.size
    BY <2>3 DEF Edits, PartOK
  <2>. HIDE DEF g, P, Q
  <2>6. /\ PartsOK({g[p] : p \in P}) /\ From(P, {g[p] : p \in P})
        /\ (\A p \in P : g[p].size = p.size) => Kept(P, {g[p] : p \in P})
    BY <1>0, <2>4, PartsEdited
  <2>. QED  BY <2>2, <2>4, <2>5, <2>6
<1>4. CASE c.op = "rm"
  <2>1. Applied(disk, c) = [disk EXCEPT !.parts = @ \ AtNumber(disk, c.num)]
    BY <1>4 DEF Applied
  <2>2. DOMAIN Applied(disk, c) = DOMAIN disk /\ Applied(disk, c).path = disk.path /\ Q \subseteq P
    BY <1>0, <2>1
  <2>. HIDE DEF P, Q
  <2>. QED  BY <1>0, <2>2, PartsFewer, KeptFrom
<1>5. CASE c.op = "resizepart"
  <2>. DEFINE g == [p \in P |-> IF p.num = c.num THEN [p EXCEPT !.size = c.end - p.start] ELSE p]
  <2>. DEFINE E == {IF p.num = c.num THEN [p EXCEPT !.size = c.end - p.start] ELSE p : p \in P}
  <2>1. Applied(disk, c) = [disk EXCEPT !.parts = E]
    BY <1>5 DEF Applied
  <2>5. E = {g[p] : p \in P}
    OBVIOUS
  <2>. HIDE DEF E
  <2>2. DOMAIN Applied(disk, c) = DOMAIN disk /\ Applied(disk, c).path = disk.path /\ Q = E
    BY <1>0, <2>1
  <2>3. \A p \in P : PartOK(p)
    BY <1>0 DEF PartsOK
  <2>4. Edits(g, P)
    BY <1>5, <2>3 DEF Edits, PartOK
  <2>. HIDE DEF g, P, Q
  <2>. QED  BY <1>0, <1>5, <2>2, <2>4, <2>5, PartsEdited
<1>6. CASE c.op = "mkfs"
  <2>. DEFINE n == c.dev[2]
              g == [p \in P |-> IF p.num = n THEN [p EXCEPT !.fs = c.fs, !.fsid = FreshContent[p.num]] ELSE p]
  <2>. DEFINE E == {IF p.num = n THEN [p EXCEPT !.fs = c.fs, !.fsid = FreshContent[p.num]] ELSE p : p \in P}
  <2>1. Applied(disk, c) = [disk EXCEPT !.parts = E]
    BY <1>6 DEF Applied
  <2>5. E = {g[p] : p \in P}
    OBVIOUS
  <2>. HIDE DEF E
  <2>. HIDE DEF n
  <2>2. DOMAIN Applied(disk, c) = DOMAIN disk /\ Applied(disk, c).path = disk.path /\ Q = E
    BY <1>0, <2>1
  <2>3. \A p \in P : PartOK(p)
    BY <1>0 DEF PartsOK
  <2>4. Edits(g, P) /\ \A p \in P : g[p].size = p.size
    BY <1>6, <2>3 DEF Edits, PartOK
  <2>. HIDE DEF g, P, Q
  <2>6. /\ PartsOK({g[p] : p \in P}) /\ From(P, {g[p] : p \in P})
        /\ (\A p \in P : g[p].size = p.size) => Kept(P, {g[p] : p \in P})
    BY <1>0, <2>4, PartsEdited
  <2>. QED  BY <2>2, <2>4, <2>5, <2>6
<1>. QED  BY <1>1, <1>2, <1>3, <1>4, <1>5, <1>6
-----------------------------------------------------------------------------
(* What is left to do, from one command to the next *)

LEMMA CarriedTodo ==
  ASSUME NEW s, NEW disk, NEW disk2, NEW v, TodoOK(s, disk, v),
         disk2.path = disk.path, From(disk.parts, disk2.parts)
  PROVE  TodoOK(s, disk2, v)
<1>1. \A i \in DOMAIN s : CommandOK(s[i], disk2)
  <2>. TAKE i \in DOMAIN s
  <2>1. CommandOK(s[i], disk)
    BY DEF TodoOK
  <2>. QED  BY <2>1 DEF CommandOK, From
<1>2. Ready(s[1], disk, v) => Ready(s[1], disk2, v)
  BY DEF Ready, From
<1>. QED  BY <1>1, <1>2 DEF TodoOK

LEMMA TailTodo ==
  ASSUME NEW s, NEW disk, NEW v, NEW v2, TodoOK(s, disk, v), s[1].op # "verify",
         s[1].op = "ntfsresize" => Ready(s[1], disk, v2)
  PROVE  TodoOK(Tail(s), disk, v2)
<1>. DEFINE t == Tail(s)
            n == Len(s)
<1>1. Listing(s) /\ n # 0 /\ s[n].op = "verify"
  BY DEF TodoOK
<1>2. /\ Listing(t) /\ Len(t) = n - 1 /\ n \in Nat /\ DOMAIN s = 1..n /\ DOMAIN t = 1..(n - 1)
      /\ \A i \in 1..(n - 1) : t[i] = s[i + 1]
  BY <1>1, TailListing
<1>. HIDE DEF t, n
<1>3. n # 1 /\ n - 1 \in 1..(n - 1) /\ (n - 1) + 1 = n
  BY <1>1, <1>2
<1>4. Len(t) # 0 /\ t[Len(t)].op = "verify"
  BY <1>1, <1>2, <1>3
<1>5. ASSUME NEW i \in DOMAIN t
      PROVE  /\ CommandOK(t[i], disk)
             /\ t[i].op = "resizepart" => IF i = 1 THEN Ready(t[1], disk, v2) ELSE Follows(t[i - 1], t[i])
  <2>1. i + 1 \in DOMAIN s /\ t[i] = s[i + 1] /\ i + 1 # 1 /\ (i + 1) - 1 = i
    BY <1>2
  <2>2. CommandOK(t[i], disk) /\ (t[i].op = "resizepart" => Follows(s[i], t[i]))
    BY <2>1 DEF TodoOK
  <2>3. CASE i = 1
    <3>1. t[1].op = "resizepart" => Follows(s[1], t[1])
      BY <2>2, <2>3
    <3>2. t[1].op = "resizepart" => Ready(t[1], disk, v2)
      BY <3>1 DEF Follows, Ready
    <3>. QED  BY <2>2, <2>3, <3>2
  <2>4. CASE i # 1
    <3>1. t[i - 1] = s[i]
      BY <1>2, <2>4
    <3>. QED  BY <2>2, <2>4, <3>1
  <2>. QED  BY <2>3, <2>4
<1>. QED  BY <1>2, <1>4, <1>5 DEF TodoOK, t

LEMMA RetryTodo ==
  ASSUME NEW s, NEW disk, NEW v, TodoOK(s, disk, v), s[1].op # "resizepart"
  PROVE  TodoOK(<<[op |-> "swapoff"]>> \o s, disk, v)
<1>. DEFINE c == [op |-> "swapoff"]
            a == <<c>>
            t == a \o s
            n == Len(s)
<1>0. CommandOK(c, disk) /\ c.op = "swapoff"
  BY DEF CommandOK
<1>. HIDE DEF c
<1>1. Listing(s) /\ n # 0 /\ s[n].op = "verify" /\ Listing(a) /\ Len(a) = 1 /\ a[1] = c
  BY OneListing DEF TodoOK
<1>. HIDE DEF a
<1>6. Listing(a) /\ Listing(s)
  BY <1>1
<1>2. /\ Listing(t) /\ Len(t) = Len(a) + n
      /\ Len(a) \in Nat /\ n \in Nat
      /\ DOMAIN a = 1..Len(a) /\ DOMAIN s = 1..n /\ DOMAIN t = 1..(Len(a) + n)
      /\ \A i \in 1..Len(a) : t[i] = a[i]
      /\ \A i \in 1..n : t[Len(a) + i] = s[i]
  BY <1>6, JoinListing
<1>. HIDE DEF t, n
<1>3. /\ Len(t) = 1 + n /\ DOMAIN t = 1..(1 + n) /\ t[1] = c
      /\ \A i \in 1..n : t[1 + i] = s[i]
  BY <1>1, <1>2
<1>4. Len(t) # 0 /\ t[Len(t)].op = "verify"
  BY <1>1, <1>2, <1>3
<1>5. ASSUME NEW i \in DOMAIN t
      PROVE  /\ CommandOK(t[i], disk)
             /\ t[i].op = "resizepart" => IF i = 1 THEN Ready(t[1], disk, v) ELSE Follows(t[i - 1], t[i])
  <2>1. CASE i = 1
    BY <1>0, <1>3, <2>1
  <2>2. CASE i # 1
    <3>. DEFINE j == i - 1
    <3>1. j \in 1..n /\ i = 1 + j
      BY <1>2, <1>3, <2>2
    <3>2. j \in DOMAIN s /\ t[i] = s[j]
      BY <1>2, <1>3, <3>1
    <3>3. CommandOK(s[j], disk)
      BY <3>2 DEF TodoOK
    <3>4. s[j].op = "resizepart" => j # 1 /\ Follows(s[j - 1], s[j])
      BY <3>2 DEF TodoOK
    <3>5. j # 1 => t[i - 1] = s[j - 1]
      <4>1. j # 1 => j - 1 \in 1..n /\ 1 + (j - 1) = i - 1
        BY <1>2, <3>1
      <4>. QED  BY <1>3, <4>1
    <3>. HIDE DEF j
    <3>. QED  BY <2>2, <3>2, <3>3, <3>4, <3>5
  <2>. QED  BY <2>1, <2>2
<1>. QED  BY <1>2, <1>4, <1>5 DEF TodoOK, t, a, c

LEMMA WholeKept ==
  ASSUME NEW disk, NEW disk2, NEW v, Whole(disk, v), Kept(disk.parts, disk2.parts)
  PROVE  Whole(disk2, v)
BY DEF Whole, Kept

-----------------------------------------------------------------------------
(* From a confirmed plan to its commands *)

PlanOK(plan) ==
  /\ {"mode", "fs", "graph"} \subseteq DOMAIN plan
  /\ plan.mode \in {"erase", "guided", "manual"}
  /\ plan.mode = "manual" =>
       /\ plan.fs # "ntfs" /\ Listing(plan.graph.new)
       /\ \A r \in plan.graph.resized : r.target \in Int

LEMMA FormatGood ==
  ASSUME NEW path, NEW news, Listing(news), NEW fs, fs # "ntfs", NEW disk
  PROVE  GoodSeq(FormatCommands(path, news, fs), disk)
<1>. DEFINE ss == [i \in DOMAIN news |-> IF news[i].name = "bios-boot" THEN <<>> ELSE <<Mkfs(path, news[i], fs)>>]
<1>1. \A i \in DOMAIN news : Mkfs(path, news[i], fs).op = "mkfs" /\ Mkfs(path, news[i], fs).fs # "ntfs"
  BY DEF Mkfs, FilesystemOf
<1>2. \A i \in DOMAIN news : CommandOK(Mkfs(path, news[i], fs), disk)
  BY <1>1 DEF CommandOK
<1>3. \A i \in DOMAIN news : GoodSeq(<<Mkfs(path, news[i], fs)>>, disk)
  BY <1>1, <1>2, OneGood
<1>4. \A i \in DOMAIN ss : GoodSeq(ss[i], disk)
  BY <1>3, NoneGood
<1>5. Len(news) \in Nat /\ DOMAIN news = 1..Len(news)
  BY ListingIs
<1>6. ss = [i \in 1..Len(news) |-> ss[i]]
  BY <1>5
<1>7. FormatCommands(path, news, fs) = FlattenSeq(ss)
  BY DEF FormatCommands
<1>. HIDE DEF ss
<1>8. Listing(ss)
  BY <1>5, <1>6, ListingMade
<1>. QED  BY <1>4, <1>7, <1>8, FlattenGood

LEMMA CreateGood ==
  ASSUME NEW path, NEW news, Listing(news), NEW disk
  PROVE  GoodSeq(CreateCommands(path, news), disk)
<1>. DEFINE ss == [i \in DOMAIN news |-> <<Mkpart(path, news[i])>> \o Flag(path, news[i])]
<1>1. \A i \in DOMAIN news : GoodSeq(<<Mkpart(path, news[i])>>, disk)
  <2>1. \A i \in DOMAIN news : Mkpart(path, news[i]).op = "mkpart"
    BY DEF Mkpart
  <2>2. \A i \in DOMAIN news : CommandOK(Mkpart(path, news[i]), disk)
    BY <2>1 DEF CommandOK
  <2>. QED  BY <2>1, <2>2, OneGood
<1>2. \A i \in DOMAIN news : GoodSeq(Flag(path, news[i]), disk)
  <2>. TAKE i \in DOMAIN news
  <2>. DEFINE c == [op |-> "flag", path |-> path, num |-> news[i].number,
                    type |-> IF news[i].name = "efi-system" THEN "esp" ELSE "bios"]
  <2>1. c.op = "flag" /\ CommandOK(c, disk)
    BY DEF CommandOK
  <2>2. Flag(path, news[i]) \in {<<>>, <<c>>}
    BY DEF Flag
  <2>. HIDE DEF c
  <2>3. GoodSeq(<<c>>, disk)
    BY <2>1, OneGood
  <2>. QED  BY <2>2, <2>3, NoneGood
<1>4. \A i \in DOMAIN ss : GoodSeq(ss[i], disk)
  BY <1>1, <1>2, JoinGood
<1>5. Len(news) \in Nat /\ DOMAIN news = 1..Len(news)
  BY ListingIs
<1>6. ss = [i \in 1..Len(news) |-> ss[i]]
  BY <1>5
<1>7. CreateCommands(path, news) = FlattenSeq(ss)
  BY DEF CreateCommands
<1>. HIDE DEF ss
<1>8. Listing(ss)
  BY <1>5, <1>6, ListingMade
<1>. QED  BY <1>4, <1>7, <1>8, FlattenGood
\* The layouts of the two automatic modes are lists.
LEMMA IfListing ==
  ASSUME NEW c \in BOOLEAN, NEW e
  PROVE  Listing(IF c THEN <<e>> ELSE <<>>)
BY OneListing, NoneListing

LEMMA SameDomain ==
  ASSUME NEW s, Listing(s), NEW t, DOMAIN t = DOMAIN s, t = [i \in DOMAIN t |-> t[i]]
  PROVE  Listing(t)
<1>1. Len(s) \in Nat /\ DOMAIN s = 1..Len(s)
  BY ListingIs
<1>2. t = [i \in 1..Len(s) |-> t[i]]
  BY <1>1
<1>. QED  BY <1>1, <1>2, ListingMade

LEMMA EraseListing ==
  ASSUME NEW arch, NEW swap
  PROVE  Listing(EraseLayout(arch, swap))
<1>. DEFINE bios == IF arch = "amd64" THEN 1 + BiosMib ELSE 1
            esp  == bios + EspMib
            a == IF arch = "amd64" THEN <<[name |-> "bios-boot", start |-> 1, end |-> bios]>> ELSE <<>>
            b == <<[name |-> "efi-system", start |-> bios, end |-> esp]>>
            c == IF swap > 0 THEN <<[name |-> "swap", start |-> esp, end |-> esp + swap]>> ELSE <<>>
            d == <<[name |-> "root", start |-> esp + swap, end |-> NoEnd]>>
            named == a \o b \o c \o d
<1>1. Listing(a) /\ Listing(b) /\ Listing(c) /\ Listing(d)
  <2>. HIDE DEF bios, esp
  <2>. QED  BY OneListing, NoneListing
<1>2. EraseLayout(arch, swap) = [i \in DOMAIN named |-> named[i] @@ [number |-> i]]
  BY DEF EraseLayout
<1>. HIDE DEF a, b, c, d
<1>3. Listing(named)
  BY <1>1, JoinListing
<1>. HIDE DEF named
<1>4. DOMAIN EraseLayout(arch, swap) = DOMAIN named
      /\ EraseLayout(arch, swap) = [i \in DOMAIN EraseLayout(arch, swap) |-> EraseLayout(arch, swap)[i]]
  BY <1>2
<1>. QED  BY <1>3, <1>4, SameDomain

LEMMA GuidedListing ==
  ASSUME NEW plan, NEW inv, NEW extent, NEW reused
  PROVE  Listing(GuidedNew(plan, inv, extent, reused))
<1>. DEFINE first == CeilDiv(extent.start, MIB)
            last  == (extent.start + extent.size) \div MIB
            esp   == IF reused = "" THEN EspMib ELSE 0
            a == IF reused = "" THEN <<[name |-> "efi-system", start |-> first, end |-> first + esp]>> ELSE <<>>
            c == IF plan.swap > 0
                 THEN <<[name |-> "swap", start |-> first + esp, end |-> first + esp + plan.swap]>> ELSE <<>>
            d == <<[name |-> "root", start |-> first + esp + plan.swap, end |-> last]>>
            named == a \o c \o d
            numbers == NextPartitionNumbers({p.num : p \in inv.parts}, Len(named))
            news == GuidedNew(plan, inv, extent, reused)
<1>1. Listing(a) /\ Listing(c) /\ Listing(d)
  <2>. HIDE DEF first, last, esp
  <2>. QED  BY OneListing, NoneListing
<1>2. news = [i \in DOMAIN named |-> named[i] @@ [number |-> numbers[i]]]
  BY DEF GuidedNew
<1>. HIDE DEF a, c, d
<1>3. Listing(named)
  BY <1>1, JoinListing
<1>. HIDE DEF named, numbers
<1>4. DOMAIN news = DOMAIN named /\ news = [i \in DOMAIN news |-> news[i]]
  BY <1>2
<1>. HIDE DEF news
<1>5. Listing(news)
  BY <1>3, <1>4, SameDomain
<1>. QED  BY <1>5 DEF news

\* The operations of a manual graph are a list.
LEMMA OrderListing ==
  ASSUME NEW S, IsFiniteSet(S), NEW action
  PROVE  Listing(Each(action, BlocksOf(InDiskOrder(S))))
<1>. DEFINE n == Cardinality(S)
            t == Each(action, BlocksOf(InDiskOrder(S)))
<1>1. n \in Nat
  BY FS_CardinalityType
<1>2. DOMAIN t = 1..n /\ t = [i \in 1..n |-> t[i]]
  <2>. DEFINE o == InDiskOrder(S)
              b == BlocksOf(o)
  <2>1. DOMAIN o = 1..n
    BY DEF InDiskOrder
  <2>. HIDE DEF o
  <2>2. DOMAIN b = 1..n
    BY <2>1 DEF BlocksOf
  <2>3. t = Each(action, b)
    BY DEF o
  <2>. HIDE DEF b, t
  <2>. QED  BY <2>2, <2>3 DEF Each
<1>. HIDE DEF n, t
<1>3. Listing(t)
  BY <1>1, <1>2, ListingMade
<1>. QED  BY <1>3 DEF t

LEMMA CreateListing ==
  ASSUME NEW news, Listing(news), NEW formatted, Listing(formatted), NEW root, NEW fs
  PROVE  Listing(CreateAndFormat(news, formatted, root, fs))
<1>. DEFINE a == Each("create", [i \in DOMAIN news |-> New(news[i].number)])
            b == Each("format", [i \in DOMAIN formatted |-> New(formatted[i].number)])
            c == IF fs = "btrfs" THEN << <<"subvolumes", root>> >> ELSE <<>>
            d == << <<"mounts", root>> >>
<1>1. DOMAIN a = DOMAIN news /\ a = [i \in DOMAIN a |-> a[i]]
  BY DEF Each
<1>2. DOMAIN b = DOMAIN formatted /\ b = [i \in DOMAIN b |-> b[i]]
  BY DEF Each
<1>3. Listing(c) /\ Listing(d)
  BY OneListing, NoneListing
<1>4. CreateAndFormat(news, formatted, root, fs) = a \o b \o c \o d
  BY DEF CreateAndFormat
<1>. HIDE DEF a, b, c, d
<1>5. Listing(a) /\ Listing(b)
  BY <1>1, <1>2, SameDomain
<1>. QED  BY <1>3, <1>4, <1>5, JoinListing

LEMMA ManualOps ==
  ASSUME NEW plan, NEW inv, IsFiniteSet(inv.parts), NEW sel, Listing(sel.new)
  PROVE  Listing(ManualGraph(plan, inv, sel).ops)
<1>. DEFINE news == ManualNew(inv, sel)
            esp  == EspBlock(news, sel.esp)
            kept == IF sel.reinit THEN {} ELSE inv.parts
            of(uuids) == BlocksOf(InDiskOrder({p \in kept : p.uuid \in uuids}))
            resized == {r.uuid : r \in sel.resized}
            a == Each("preserve", of({p.uuid : p \in kept} \ (sel.deleted \cup resized)))
            b == Each("delete", of(sel.deleted))
            c == Each("resize", of(resized))
            d == << <<"modify-table", TheDisk>> >>
            e == << <<"replace-table", TheDisk>> >>
            f == CreateAndFormat(news, news, RootBlock(news), plan.fs)
            g == << <<"boot-files", esp>>, <<"nvram", esp>> >>
<1>1. ManualGraph(plan, inv, sel).ops = (IF sel.reinit THEN e ELSE a \o b \o c \o d) \o f \o g
  BY DEF ManualGraph
<1>2. Listing(news)
  <2>1. DOMAIN news = DOMAIN sel.new /\ news = [i \in DOMAIN news |-> news[i]]
    BY DEF ManualNew
  <2>. HIDE DEF news
  <2>. QED  BY <2>1, SameDomain
<1>3. Listing(f)
  <2>. HIDE DEF news
  <2>. QED  BY <1>2, CreateListing
<1>4. Listing(g)
  <2>. HIDE DEF esp
  <2>1. g \in Seq({<<"boot-files", esp>>, <<"nvram", esp>>})
    OBVIOUS
  <2>. QED  BY <2>1, ListingOf
<1>5. Listing(d) /\ Listing(e)
  BY OneListing
<1>6. \A uuids : IsFiniteSet({p \in kept : p.uuid \in uuids})
  <2>. TAKE uuids
  <2>1. {p \in kept : p.uuid \in uuids} \in SUBSET inv.parts
    OBVIOUS
  <2>. QED  BY <2>1, FS_Subset
<1>7. Listing(a) /\ Listing(b) /\ Listing(c)
  <2>. HIDE DEF kept, resized
  <2>. QED  BY <1>6, OrderListing
<1>. HIDE DEF a, b, c, d, e, f, g
<1>8. Listing(a \o b \o c \o d)
  BY <1>5, <1>7, JoinListing
<1>9. Listing((IF sel.reinit THEN e ELSE a \o b \o c \o d) \o f)
  BY <1>3, <1>5, <1>8, JoinListing
<1>. QED  BY <1>1, <1>4, <1>9, JoinListing
\* Shrinks go to volumes of the graph, and the graph is of the disk as it is.
LEMMA ManualGood ==
  ASSUME NEW disk, DiskOK(disk), NEW inv, inv.parts = disk.parts, inv.path = disk.path,
         NEW plan, PlanOK(plan), plan.mode = "manual", PlanValid(plan), ManualCurrent(plan, inv)
  PROVE  CommandsOK(ManualCommands(plan, inv), disk)
<1>. DEFINE graph == plan.graph
            sel == SelectionFromGraph(plan, inv)
<1>1. plan.fs # "ntfs" /\ Listing(graph.new) /\ \A r \in graph.resized : r.target \in Int
  BY DEF PlanOK
<1>2. ManualStructure(plan, graph)
  BY Zenon DEF PlanValid, GraphValid
<1>3. graph = ManualGraph(plan, inv, sel) /\ ResizesValid(inv, sel)
  BY DEF ManualCurrent, ManualPossible, ManualValid
<1>4. Listing(graph.ops)
  <2>1. DOMAIN sel.new = DOMAIN graph.new /\ sel.new = [i \in DOMAIN sel.new |-> sel.new[i]]
    BY DEF SelectionFromGraph
  <2>2. IsFiniteSet(inv.parts)
    BY DEF DiskOK, PartsOK
  <2>. HIDE DEF sel, graph
  <2>3. Listing(sel.new)
    BY <1>1, <2>1, SameDomain
  <2>. QED  BY <1>3, <2>2, <2>3, ManualOps
<1>5. \A r \in graph.resized : r.target \in Nat
  <2>1. MinimumNtfsMib \in Nat /\ MIB \in Nat
    BY SizesAssumption, GeometryAssumption
  <2>2. MinimumNtfsMib * MIB \in Nat
    BY <2>1
  <2>3. \A r \in graph.resized : r.target >= MinimumNtfsMib * MIB
    BY <1>2 DEF ManualStructure
  <2>. HIDE DEF graph
  <2>. QED  BY <1>1, <2>2, <2>3
<1>6. \A r \in graph.resized : PartOf(inv, r.uuid) \in inv.parts /\ PartOf(inv, r.uuid).fs = "ntfs"
  <2>. TAKE r \in graph.resized
  <2>1. \E s \in sel.resized : r.uuid = s.uuid
    <3>1. ManualGraph(plan, inv, sel).resized
            = {[uuid |-> s.uuid, original |-> s.original, target |-> s.target * MIB] : s \in sel.resized}
      BY DEF ManualGraph
    <3>. HIDE DEF sel, graph
    <3>2. r \in {[uuid |-> s.uuid, original |-> s.original, target |-> s.target * MIB] : s \in sel.resized}
      BY <1>3, <3>1
    <3>. QED  BY <3>2
  <2>. HIDE DEF sel, graph
  <2>2. PICK s \in sel.resized : r.uuid = s.uuid
    BY <2>1
  <2>3. s.uuid \in {p.uuid : p \in inv.parts} /\ PartOf(inv, s.uuid).fs = "ntfs"
    BY <1>3 DEF ResizesValid
  <2>4. PartOf(inv, s.uuid) \in inv.parts
    BY <2>3 DEF PartOf
  <2>. QED  BY <2>2, <2>3, <2>4
<1>. DEFINE replace == Targets(graph, "replace-table") # {}
            remove(block) == [op |-> "rm", path |-> inv.path, num |-> PartOf(inv, block[2]).num]
            Chosen(block) == CHOOSE s \in graph.resized : Existing(s.uuid) = block
            shrink(block) ==
              [uuid |-> PartOf(inv, block[2]).uuid, path |-> inv.path, num |-> PartOf(inv, block[2]).num,
               start |-> PartOf(inv, block[2]).start,
               original |-> Chosen(block).original, target |-> Chosen(block).target]
            gone == [i \in DOMAIN graph.ops |-> IF graph.ops[i][1] = "delete" THEN <<remove(graph.ops[i][2])>> ELSE <<>>]
            less == [i \in DOMAIN graph.ops |-> IF graph.ops[i][1] = "resize" THEN <<shrink(graph.ops[i][2])>> ELSE <<>>]
            commands == ManualCommands(plan, inv)
<1>7. /\ commands.partition = (IF replace THEN <<[op |-> "mklabel", path |-> inv.path]>> ELSE FlattenSeq(gone))
                                \o CreateCommands(inv.path, graph.new)
      /\ commands.format = FormatCommands(inv.path, graph.new, plan.fs)
      /\ commands.resizes = FlattenSeq(less)
  BY DEF ManualCommands
<1>8. Len(graph.ops) \in Nat /\ DOMAIN graph.ops = 1..Len(graph.ops)
  BY <1>4, ListingIs
<1>9. GoodSeq(FlattenSeq(gone), disk)
  <2>1. \A i \in DOMAIN graph.ops : GoodSeq(<<remove(graph.ops[i][2])>>, disk)
    <3>. TAKE i \in DOMAIN graph.ops
    <3>1. remove(graph.ops[i][2]).op = "rm" /\ CommandOK(remove(graph.ops[i][2]), disk)
      BY DEF CommandOK
    <3>. HIDE DEF remove, graph
    <3>. QED  BY <3>1, OneGood
  <2>. HIDE DEF remove, graph
  <2>2. \A i \in DOMAIN gone : GoodSeq(gone[i], disk)
    BY <2>1, NoneGood
  <2>3. DOMAIN gone = DOMAIN graph.ops /\ gone = [i \in DOMAIN gone |-> gone[i]]
    OBVIOUS
  <2>. HIDE DEF gone
  <2>4. Listing(gone)
    BY <1>4, <2>3, SameDomain
  <2>. QED  BY <2>2, <2>4, FlattenGood
<1>10. GoodSeq(commands.partition, disk) /\ GoodSeq(commands.format, disk)
  <2>1. GoodSeq(<<[op |-> "mklabel", path |-> inv.path]>>, disk)
    <3>. DEFINE c == [op |-> "mklabel", path |-> inv.path]
    <3>1. c.op = "mklabel" /\ CommandOK(c, disk)
      BY DEF CommandOK
    <3>. HIDE DEF c
    <3>2. GoodSeq(<<c>>, disk)
      BY <3>1, OneGood
    <3>. QED  BY <3>2 DEF c
  <2>. HIDE DEF gone, replace, graph, commands
  <2>2. GoodSeq(IF replace THEN <<[op |-> "mklabel", path |-> inv.path]>> ELSE FlattenSeq(gone), disk)
    BY <1>9, <2>1
  <2>3. GoodSeq(CreateCommands(inv.path, graph.new), disk)
    BY <1>1, CreateGood
  <2>4. GoodSeq(FormatCommands(inv.path, graph.new, plan.fs), disk)
    BY <1>1, FormatGood
  <2>. QED  BY <1>7, <2>2, <2>3, <2>4, JoinGood
<1>. DEFINE C == {shrink(graph.ops[i][2]) : i \in {j \in DOMAIN graph.ops : graph.ops[j][1] = "resize"}}
<1>11. \A c \in C : ResizeOK(c, disk)
  <2>. SUFFICES ASSUME NEW i \in DOMAIN graph.ops, graph.ops[i][1] = "resize"
                PROVE  ResizeOK(shrink(graph.ops[i][2]), disk)
    OBVIOUS
  <2>. DEFINE block == graph.ops[i][2]
              r == Chosen(block)
              p == PartOf(inv, block[2])
  <2>1. block \in Targets(graph, "resize")
    BY DEF Targets
  <2>2. {Existing(s.uuid) : s \in graph.resized} = Targets(graph, "resize")
    BY <1>2 DEF ManualStructure
  <2>. HIDE DEF graph, block
  <2>3. \E s \in graph.resized : Existing(s.uuid) = block
    BY <2>1, <2>2
  <2>4. r \in graph.resized /\ Existing(r.uuid) = block
    BY <2>3
  <2>5. block[2] = r.uuid
    BY <2>4 DEF Existing
  <2>6. p \in disk.parts /\ p.fs = "ntfs" /\ r.target \in Nat
    BY <1>5, <1>6, <2>4, <2>5
  <2>7. shrink(block).path = disk.path /\ shrink(block).target = r.target
        /\ shrink(block).start = p.start /\ shrink(block).num = p.num
    OBVIOUS
  <2>. HIDE DEF r, p, shrink
  <2>8. p.start \in Int /\ \A q \in disk.parts : q.num = p.num => q = p
    BY <2>6 DEF DiskOK, PartsOK, PartOK
  <2>. QED  BY <2>6, <2>7, <2>8 DEF ResizeOK, block
<1>12. Listing(commands.resizes) /\ \A i \in DOMAIN commands.resizes : ResizeOK(commands.resizes[i], disk)
  <2>1. \A i \in DOMAIN less : less[i] = <<>> \/ \E c \in C : less[i] = <<c>>
    <3>. HIDE DEF shrink, graph
    <3>. QED  OBVIOUS
  <2>. HIDE DEF C
  <2>2. \A i \in DOMAIN less : less[i] \in Seq(C)
    <3>. HIDE DEF less
    <3>1. <<>> \in Seq(C) /\ \A c \in C : <<c>> \in Seq(C)
      OBVIOUS
    <3>. QED  BY <2>1, <3>1
  <2>3. DOMAIN less = DOMAIN graph.ops /\ less = [i \in DOMAIN less |-> less[i]]
    <3>. HIDE DEF shrink, graph
    <3>. QED  OBVIOUS
  <2>. HIDE DEF less, graph, commands
  <2>4. Listing(less)
    BY <1>4, <2>3, SameDomain
  <2>. DEFINE S == Seq(C)
  <2>5. <<>> \in S /\ \A s, t \in S : s \o t \in S
    OBVIOUS
  <2>6. \A i \in DOMAIN less : less[i] \in S
    BY <2>2
  <2>. HIDE DEF S
  <2>7. less \in Seq(S)
    BY <2>4, <2>6, ListingIn
  <2>8. FlattenSeq(less) \in S
    BY <2>5, <2>7, FlattenIn
  <2>9. commands.resizes \in Seq(C)
    BY <1>7, <2>8 DEF S
  <2>10. Listing(commands.resizes)
    BY <2>9, ListingOf
  <2>11. \A i \in DOMAIN commands.resizes : commands.resizes[i] \in C
    BY <2>9
  <2>. QED  BY <1>11, <2>10, <2>11
<1>. QED  BY <1>10, <1>12 DEF CommandsOK

LEMMA CompileGood ==
  ASSUME NEW disk, DiskOK(disk), NEW inv, inv.parts = disk.parts, inv.path = disk.path,
         NEW plan, PlanOK(plan), NEW e, Compile(plan, inv, e, Volumes).ok
  PROVE  CommandsOK(Compile(plan, inv, e, Volumes).commands, disk)
<1>. DEFINE commands == Compile(plan, inv, e, Volumes).commands
<1>0. Listing(<<>>) /\ DOMAIN <<>> = {}
  BY NoneListing
<1>1. CASE plan.mode = "erase"
  <2>1. PlanValid(plan) /\ commands = EraseCommands(plan)
    BY <1>1, Zenon DEF Compile
  <2>2. plan.fs \in {"btrfs", "ext4"}
    BY <1>1, <2>1, Zenon DEF PlanValid
  <2>. DEFINE news == EraseLayout(plan.arch, plan.swap)
              label == <<[op |-> "mklabel", path |-> plan.path]>>
  <2>3. Listing(news)
    BY EraseListing
  <2>4. /\ commands.partition = label \o CreateCommands(plan.path, news)
        /\ commands.format = FormatCommands(plan.path, news, plan.fs) /\ commands.resizes = <<>>
    BY <2>1 DEF EraseCommands
  <2>5. GoodSeq(label, disk)
    <3>. DEFINE c == [op |-> "mklabel", path |-> plan.path]
    <3>1. c.op = "mklabel" /\ CommandOK(c, disk)
      BY DEF CommandOK
    <3>. HIDE DEF c
    <3>2. GoodSeq(<<c>>, disk)
      BY <3>1, OneGood
    <3>. QED  BY <3>2 DEF c
  <2>. HIDE DEF commands, news, label
  <2>6. GoodSeq(CreateCommands(plan.path, news), disk)
    BY <2>3, CreateGood
  <2>7. GoodSeq(FormatCommands(plan.path, news, plan.fs), disk)
    BY <2>2, <2>3, FormatGood
  <2>8. GoodSeq(commands.partition, disk)
    BY <2>4, <2>5, <2>6, JoinGood
  <2>9. CommandsOK(commands, disk)
    BY <1>0, <2>4, <2>7, <2>8 DEF CommandsOK
  <2>. QED  BY <2>9 DEF commands
<1>2. CASE plan.mode = "guided"
  <2>1. PlanValid(plan) /\ GuidedCurrent(plan, inv) /\ commands = GuidedCommands(plan, inv)
    BY <1>2, Zenon DEF Compile
  <2>2. plan.fs \in {"btrfs", "ext4"}
    BY <1>2, <2>1, Zenon DEF PlanValid
  <2>. DEFINE news == plan.graph.new
  <2>3. Listing(news)
    <3>1. plan.graph = GuidedGraph(plan, inv, plan.graph.extent, GuidedReused(plan.graph))
      BY <2>1, Zenon DEF GuidedCurrent
    <3>2. GuidedGraph(plan, inv, plan.graph.extent, GuidedReused(plan.graph)).new
            = GuidedNew(plan, inv, plan.graph.extent, GuidedReused(plan.graph))
      BY DEF GuidedGraph
    <3>. QED  BY <3>1, <3>2, GuidedListing
  <2>4. /\ commands.partition = CreateCommands(inv.path, news)
        /\ commands.format = FormatCommands(inv.path, news, plan.fs) /\ commands.resizes = <<>>
    BY <2>1 DEF GuidedCommands
  <2>. HIDE DEF commands, news
  <2>6. GoodSeq(CreateCommands(inv.path, news), disk)
    BY <2>3, CreateGood
  <2>7. GoodSeq(FormatCommands(inv.path, news, plan.fs), disk)
    BY <2>2, <2>3, FormatGood
  <2>9. CommandsOK(commands, disk)
    BY <1>0, <2>4, <2>6, <2>7 DEF CommandsOK
  <2>. QED  BY <2>9 DEF commands
<1>3. CASE plan.mode = "manual"
  <2>1. PlanValid(plan) /\ ManualCurrent(plan, inv) /\ commands = ManualCommands(plan, inv)
    BY <1>3, Zenon DEF Compile
  <2>. QED  BY <1>3, <2>1, ManualGood
<1>. QED  BY <1>1, <1>2, <1>3 DEF PlanOK
-----------------------------------------------------------------------------
(* The inductive invariant.  The window never selects NTFS for a new          *)
(* partition, and its sizes are numbers; the executor's commands are those    *)
(* of a plan the window made, compiled for the disk as it is.                 *)

\* A selection of the manual editor.
Real(x) ==
  /\ {"fs", "new", "resized"} \subseteq DOMAIN x
  /\ x.fs # "ntfs" /\ Listing(x.new)
  /\ \A r \in x.resized : r.target \in Int

UiFields ==
  {"page", "via", "pressed", "list", "selected", "next", "strategy", "mode", "fs", "swap", "bound",
   "parts", "erasable", "draft", "preview", "dialog", "refused"}
ChoicesOK(u) ==
  /\ DOMAIN u = UiFields
  /\ u.fs # "ntfs"
  /\ u.draft = NoSelection \/ Real(u.draft)
  /\ u.preview = NoSelection \/ Real(u.preview)
  /\ u.dialog = NoPlan \/ PlanOK(u.dialog)

EdFields ==
  {"flow", "disk", "draft", "shown", "fs", "open", "next", "refresh", "burst", "probe", "dialog"}
\* Before the first probe is delivered there is nothing to edit.
NothingOpen(e) ==
  /\ e.disk = NoInventory /\ e.refresh = FALSE
  /\ e.probe = NoSelection /\ e.dialog = NoSelection
Editor(e) ==
  /\ DOMAIN e = EdFields
  /\ e.fs # "ntfs"
  /\ Real(e.draft) \/ NothingOpen(e)
  /\ e.dialog = NoSelection \/ (e.dialog.range.minimum \in Int /\ e.dialog.range.maximum \in Int)

ExecFields == {"phase", "plan", "todo", "devices", "swapoff", "snapshot", "retry"}
ExecOK(x, disk, v) ==
  /\ DOMAIN x = ExecFields
  /\ x.phase = "confirmed" => PlanOK(x.plan)
  /\ x.phase = "running" => TodoOK(x.todo, disk, v)

PlanningInv ==
  /\ DisksOK(disks) /\ DOMAIN volume = DOMAIN Volumes
  /\ Whole(disks[Target], volume)
  /\ ChoicesOK(ui) /\ Editor(ed) /\ ExecOK(exec, disks[Target], volume)

-----------------------------------------------------------------------------
(* The choices that the pages share *)

LEMMA ChoicesKept ==
  ASSUME NEW u, ChoicesOK(u), NEW t, DOMAIN t = DOMAIN u,
         t.fs = u.fs, t.draft = u.draft, t.preview = u.preview, t.dialog = u.dialog
  PROVE  ChoicesOK(t)
BY DEF ChoicesOK

LEMMA FreshOK == ChoicesOK(FreshChoices) /\ DOMAIN FreshChoices = UiFields
BY DEF ChoicesOK, UiFields, FreshChoices

LEMMA ClearedOK ==
  ASSUME NEW u, ChoicesOK(u)
  PROVE  ChoicesOK(ClearManual(u)) /\ ChoicesOK(ClearStrategy(u)) /\ ChoicesOK(ClearTarget(u))
<1>1. ChoicesOK(ClearManual(u))
  BY DEF ChoicesOK, UiFields, ClearManual
<1>2. ChoicesOK(ClearStrategy(u))
  <2>. DEFINE c == ClearManual(u)
  <2>1. ClearStrategy(u) = [c EXCEPT !.strategy = "", !.mode = "erase", !.fs = "btrfs"]
    BY DEF ClearStrategy
  <2>. HIDE DEF c
  <2>. QED  BY <1>1, <2>1 DEF ChoicesOK, UiFields, c
<1>3. ChoicesOK(ClearTarget(u))
  <2>. DEFINE c == ClearStrategy(u)
  <2>1. ClearTarget(u) = [c EXCEPT !.bound = NoBinding, !.parts = FALSE, !.erasable = FALSE]
    BY DEF ClearTarget
  <2>. HIDE DEF c
  <2>. QED  BY <1>2, <2>1 DEF ChoicesOK, UiFields, c
<1>. QED  BY <1>1, <1>2, <1>3

LEMMA BoundOK ==
  ASSUME NEW u, ChoicesOK(u), NEW inv
  PROVE  ChoicesOK(BindTarget(u, inv))
<1>. DEFINE c == IF TargetChanged(u, inv) THEN ClearStrategy(u) ELSE u
            a == Binding(inv)
            b == inv.parts # {}
            d == inv.size >= MinimumDisk
<1>1. ChoicesOK(c)
  BY ClearedOK
<1>2. BindTarget(u, inv) = [c EXCEPT !.bound = a, !.parts = b, !.erasable = d]
  BY DEF BindTarget
<1>. HIDE DEF a, b, c, d
<1>. QED  BY <1>1, <1>2 DEF ChoicesOK, UiFields

LEMMA StrategyOK ==
  ASSUME NEW u, ChoicesOK(u), NEW strategy
  PROVE  ChoicesOK(ApplyStrategy(u, strategy))
<1>. DEFINE changed == u.strategy # strategy
            c == IF changed THEN [ClearManual(u) EXCEPT !.swap = NoSwapChoice] ELSE u
            fs == CASE strategy = "erase-btrfs" -> "btrfs"
                    [] strategy = "erase-ext4" -> "ext4"
                    [] OTHER -> IF changed THEN "btrfs" ELSE c.fs
            mode == IF strategy = "advanced" THEN "manual" ELSE "erase"
<1>1. ChoicesOK(c)
  <2>. DEFINE m == ClearManual(u)
              n == NoSwapChoice
  <2>1. ChoicesOK(m)
    BY ClearedOK
  <2>. HIDE DEF m, n
  <2>2. ChoicesOK([m EXCEPT !.swap = n])
    BY <2>1 DEF ChoicesOK, UiFields
  <2>. QED  BY <2>2 DEF m, n
<1>2. ApplyStrategy(u, strategy) = [c EXCEPT !.strategy = strategy, !.mode = mode, !.fs = fs]
  <2>1. c.fs = [[c EXCEPT !.strategy = strategy] EXCEPT !.mode = mode].fs
    <3>. HIDE DEF c, mode
    <3>. QED  BY <1>1 DEF ChoicesOK, UiFields
  <2>. QED  BY <2>1 DEF ApplyStrategy
<1>3. fs # "ntfs"
  <2>. HIDE DEF c
  <2>. QED  BY <1>1 DEF ChoicesOK
<1>. HIDE DEF c, fs, mode
<1>. QED  BY <1>1, <1>2, <1>3 DEF ChoicesOK, UiFields
LEMMA ValidatedOK ==
  ASSUME NEW u, ChoicesOK(u)
  PROVE  ChoicesOK(ValidatedSwap(u))
<1>. DEFINE t == ValidatedSwap(u)
<1>1. DOMAIN t = DOMAIN u /\ t.fs = u.fs /\ t.draft = u.draft /\ t.preview = u.preview /\ t.dialog = u.dialog
  <2>. DEFINE n == IF u.swap # NoSwapChoice /\ SwapAllowed(u.swap, SwapSizing(Memory, u.bound.size, EspMib))
                   THEN u.swap ELSE SwapSizing(Memory, u.bound.size, EspMib).size
  <2>1. t = [u EXCEPT !.swap = n]
    BY DEF ValidatedSwap
  <2>. HIDE DEF n, t
  <2>. QED  BY <2>1 DEF ChoicesOK, UiFields
<1>. HIDE DEF t
<1>2. ChoicesOK(t)
  BY <1>1, ChoicesKept
<1>. QED  BY <1>2 DEF t

LEMMA DiskPageOK ==
  ASSUME NEW u, ChoicesOK(u)
  PROVE  ChoicesOK(DiskPage(u))
BY DEF ChoicesOK, UiFields, DiskPage

LEMMA DiskListedOK ==
  ASSUME NEW u, ChoicesOK(u), NEW inv
  PROVE  ChoicesOK(DiskListed(u, inv))
<1>. DEFINE same == u.bound.id = inv.id /\ u.bound.size = inv.size
            c == IF same THEN BindTarget(u, inv) ELSE ClearTarget(u)
            d == IF same THEN Target ELSE ""
<1>1. ChoicesOK(c)
  BY BoundOK, ClearedOK
<1>2. DiskListed(u, inv) = [c EXCEPT !.list = inv, !.selected = d, !.next = same]
  BY DEF DiskListed
<1>. HIDE DEF c, d, same
<1>. QED  BY <1>1, <1>2 DEF ChoicesOK, UiFields

LEMMA StrategyPageOK ==
  ASSUME NEW u, ChoicesOK(u)
  PROVE  ChoicesOK(StrategyPage(u))
<1>. DEFINE void == u.strategy \in Strategies \ {"advanced"} /\ ~u.erasable
            kept == IF void THEN [u EXCEPT !.strategy = ""] ELSE u
            pressed == IF kept.strategy # "" THEN kept.strategy
                       ELSE IF kept.erasable /\ ~kept.parts THEN "erase-btrfs" ELSE ""
            shown == [kept EXCEPT !.page = "strategy", !.pressed = pressed]
<1>1. ChoicesOK(kept)
  <2>. HIDE DEF void
  <2>. QED  BY DEF ChoicesOK, UiFields
<1>2. StrategyPage(u) = IF pressed = "" THEN shown ELSE ApplyStrategy(shown, pressed)
  BY DEF StrategyPage
<1>. HIDE DEF kept, pressed
<1>3. ChoicesOK(shown)
  BY <1>1 DEF ChoicesOK, UiFields
<1>. HIDE DEF shown
<1>. QED  BY <1>2, <1>3, StrategyOK

-----------------------------------------------------------------------------
(* Plans *)

LEMMA PlanOfIs ==
  ASSUME NEW inv, NEW e, NEW fs, NEW swap
  PROVE  /\ PlanOf(inv, e, fs, swap).mode = "erase" /\ PlanOf(inv, e, fs, swap).fs = fs
         /\ {"mode", "fs", "graph", "fallback"} \subseteq DOMAIN PlanOf(inv, e, fs, swap)
<1>. DEFINE bare == [disk |-> inv.id, size |-> inv.size, path |-> inv.path, mode |-> "erase",
                     fs |-> fs, swap |-> swap, arch |-> e.arch, firmware |-> e.firmware,
                     fallback |-> e.firmware = "bios", graph |-> NoInventory]
            g == EraseGraph(bare, Binding(inv))
<1>1. PlanOf(inv, e, fs, swap) = [bare EXCEPT !.graph = g]
  BY DEF PlanOf
<1>2. bare.mode = "erase" /\ bare.fs = fs /\ {"mode", "fs", "graph", "fallback"} \subseteq DOMAIN bare
  OBVIOUS
<1>. HIDE DEF bare, g
<1>. QED  BY <1>1, <1>2

LEMMA ManualPlanOK ==
  ASSUME NEW inv, NEW e, NEW sel, Real(sel)
  PROVE  PlanOK(ManualPlan(inv, e, sel))
<1>. DEFINE base == PlanOf(inv, e, sel.fs, SwapOf(sel))
            bare == [base EXCEPT !.mode = "manual", !.fallback = FALSE]
            g == ManualGraph(bare, inv, sel)
            plan == ManualPlan(inv, e, sel)
<1>1. base.fs = sel.fs /\ {"mode", "fs", "graph", "fallback"} \subseteq DOMAIN base
  BY PlanOfIs
<1>2. plan = [bare EXCEPT !.graph = g]
  BY DEF ManualPlan
<1>3. g.new = ManualNew(inv, sel)
      /\ g.resized = {[uuid |-> r.uuid, original |-> r.original, target |-> r.target * MIB] : r \in sel.resized}
  BY DEF ManualGraph
<1>. HIDE DEF base, g, plan
<1>4. plan.mode = "manual" /\ plan.fs = sel.fs /\ plan.graph = g /\ {"mode", "fs", "graph"} \subseteq DOMAIN plan
  BY <1>1, <1>2
<1>5. Listing(g.new)
  <2>. DEFINE news == ManualNew(inv, sel)
  <2>1. DOMAIN news = DOMAIN sel.new /\ news = [i \in DOMAIN news |-> news[i]]
    BY DEF ManualNew
  <2>. HIDE DEF news
  <2>2. Listing(news)
    BY <2>1, SameDomain DEF Real
  <2>. QED  BY <1>3, <2>2 DEF news
<1>6. \A r \in g.resized : r.target \in Int
  <2>1. MIB \in Int
    BY GeometryAssumption
  <2>2. \A r \in sel.resized : r.target * MIB \in Int
    BY <2>1 DEF Real
  <2>. QED  BY <1>3, <2>2
<1>7. PlanOK(plan)
  BY <1>4, <1>5, <1>6 DEF PlanOK, Real
<1>. QED  BY <1>7 DEF plan

LEMMA GuidedPlanOK ==
  ASSUME NEW inv, NEW e, NEW extent, NEW reused
  PROVE  PlanOK(GuidedPlan(inv, e, extent, reused))
<1>. DEFINE swap == SwapSizing(Memory, extent.size, IF reused = "" THEN EspMib ELSE 0).size
            base == PlanOf(inv, e, "btrfs", swap)
            bare == [base EXCEPT !.mode = "guided", !.fallback = FALSE]
            g == GuidedGraph(bare, inv, extent, reused)
            plan == GuidedPlan(inv, e, extent, reused)
<1>1. {"mode", "fs", "graph", "fallback"} \subseteq DOMAIN base
  <2>. HIDE DEF swap
  <2>. QED  BY PlanOfIs
<1>2. plan = [bare EXCEPT !.graph = g]
  BY DEF GuidedPlan
<1>. HIDE DEF base, g, plan
<1>3. plan.mode = "guided" /\ {"mode", "fs", "graph"} \subseteq DOMAIN plan
  BY <1>1, <1>2
<1>4. PlanOK(plan)
  BY <1>3 DEF PlanOK
<1>. QED  BY <1>4 DEF plan

LEMMA CreatedPlanOK ==
  ASSUME NEW u, ChoicesOK(u), NEW inv, NEW e, PlanAccepted(u, inv, e)
  PROVE  PlanOK(CreatedPlan(u, inv, e))
<1>1. CASE u.mode = "manual"
  <2>. DEFINE sel == [u.preview EXCEPT !.fs = u.fs]
  <2>1. u.preview # NoSelection
    BY <1>1 DEF PlanAccepted
  <2>2. Real(u.preview) /\ u.fs # "ntfs"
    BY <2>1 DEF ChoicesOK
  <2>3. Real(sel)
    BY <2>2 DEF Real
  <2>4. CreatedPlan(u, inv, e) = ManualPlan(inv, e, sel)
    BY <1>1 DEF CreatedPlan
  <2>. HIDE DEF sel
  <2>. QED  BY <2>3, <2>4, ManualPlanOK
<1>2. CASE u.mode # "manual"
  <2>. DEFINE swap == IF u.swap = NoSwapChoice THEN DefaultSwap(inv) ELSE u.swap
  <2>1. CreatedPlan(u, inv, e) = PlanOf(inv, e, u.fs, swap)
    BY <1>2 DEF CreatedPlan
  <2>. HIDE DEF swap
  <2>2. PlanOK(PlanOf(inv, e, u.fs, swap))
    BY PlanOfIs DEF PlanOK
  <2>. QED  BY <2>1, <2>2
<1>. QED  BY <1>1, <1>2

-----------------------------------------------------------------------------
(* The drafts of the manual editor *)

LEMMA FreshDraftOK ==
  ASSUME NEW inv, NEW fs, fs # "ntfs"
  PROVE  Real(FreshDraft(inv, fs))
<1>. DEFINE d == FreshDraft(inv, fs)
<1>1. d.fs = fs /\ d.new = <<>> /\ d.resized = {} /\ {"fs", "new", "resized"} \subseteq DOMAIN d
  BY Zenon DEF FreshDraft
<1>. HIDE DEF d
<1>2. Real(d)
  BY <1>1, NoneListing DEF Real
<1>. QED  BY <1>2 DEF d

LEMMA RealNew ==
  ASSUME NEW d, Real(d), NEW t, DOMAIN t = DOMAIN d, t.fs # "ntfs", Listing(t.new), t.resized \subseteq d.resized
  PROVE  Real(t)
BY DEF Real

LEMMA ToggledOK ==
  ASSUME NEW d, Real(d), NEW uuid
  PROVE  Real(Toggled(d, uuid))
<1>. DEFINE t == Toggled(d, uuid)
<1>1. DOMAIN t = DOMAIN d /\ t.fs = d.fs /\ t.new = d.new /\ t.resized \subseteq d.resized
  BY DEF Toggled, Real
<1>. HIDE DEF t
<1>2. Real(t)
  BY <1>1, RealNew DEF Real
<1>. QED  BY <1>2 DEF t

LEMMA TableToggledOK ==
  ASSUME NEW d, Real(d)
  PROVE  Real(TableToggled(d))
<1>. DEFINE t == TableToggled(d)
<1>1. DOMAIN t = DOMAIN d /\ t.fs = d.fs /\ t.new = <<>> /\ t.resized = {}
  BY DEF TableToggled, Real
<1>. HIDE DEF t
<1>2. Real(t)
  BY <1>1, RealNew, NoneListing DEF Real
<1>. QED  BY <1>2 DEF t

LEMMA FilesystemOK ==
  ASSUME NEW d, Real(d), NEW fs, fs # "ntfs"
  PROVE  Real([d EXCEPT !.fs = fs])
BY DEF Real

LEMMA ResizedOK ==
  ASSUME NEW d, Real(d), NEW p, NEW target \in Int
  PROVE  Real(WithResize(d, p, target)) /\ Real(WithoutResize(d, p.uuid))
<1>1. Real(WithResize(d, p, target))
  BY DEF Real, WithResize
<1>2. Real(WithoutResize(d, p.uuid))
  BY DEF Real, WithoutResize
<1>. QED  BY <1>1, <1>2
LEMMA PickedListing ==
  ASSUME NEW s, Listing(s), NEW ss, DOMAIN ss = DOMAIN s, ss = [i \in DOMAIN ss |-> ss[i]],
         \A i \in DOMAIN ss : ss[i] \in {<<>>, <<s[i]>>}
  PROVE  Listing(FlattenSeq(ss))
<1>1. Listing(ss)
  BY SameDomain
<1>2. \A i \in DOMAIN ss : Listing(ss[i])
  BY OneListing, NoneListing
<1>. QED  BY <1>1, <1>2, FlattenListing

\* The three tests that the editor keeps requests by.
NotRole(s, role) == FlattenSeq([i \in DOMAIN s |-> IF s[i].role # role THEN <<s[i]>> ELSE <<>>])
UpTo(s, start) == FlattenSeq([i \in DOMAIN s |-> IF s[i].start <= start THEN <<s[i]>> ELSE <<>>])
Beyond(s, start) == FlattenSeq([i \in DOMAIN s |-> IF s[i].start > start THEN <<s[i]>> ELSE <<>>])

LEMMA KeepRole ==
  ASSUME NEW s, Listing(s), NEW role
  PROVE  Listing(NotRole(s, role))
<1>. DEFINE ss == [i \in DOMAIN s |-> IF s[i].role # role THEN <<s[i]>> ELSE <<>>]
<1>1. NotRole(s, role) = FlattenSeq(ss)
  BY DEF NotRole
<1>2. DOMAIN ss = DOMAIN s /\ ss = [i \in DOMAIN ss |-> ss[i]] /\ \A i \in DOMAIN ss : ss[i] \in {<<>>, <<s[i]>>}
  OBVIOUS
<1>. HIDE DEF ss
<1>. QED  BY <1>1, <1>2, PickedListing

LEMMA KeepBefore ==
  ASSUME NEW s, Listing(s), NEW start
  PROVE  Listing(UpTo(s, start)) /\ Listing(Beyond(s, start))
<1>. DEFINE ss == [i \in DOMAIN s |-> IF s[i].start <= start THEN <<s[i]>> ELSE <<>>]
            tt == [i \in DOMAIN s |-> IF s[i].start > start THEN <<s[i]>> ELSE <<>>]
<1>1. UpTo(s, start) = FlattenSeq(ss) /\ Beyond(s, start) = FlattenSeq(tt)
  BY DEF UpTo, Beyond
<1>2. DOMAIN ss = DOMAIN s /\ ss = [i \in DOMAIN ss |-> ss[i]] /\ \A i \in DOMAIN ss : ss[i] \in {<<>>, <<s[i]>>}
  OBVIOUS
<1>3. DOMAIN tt = DOMAIN s /\ tt = [i \in DOMAIN tt |-> tt[i]] /\ \A i \in DOMAIN tt : tt[i] \in {<<>>, <<s[i]>>}
  OBVIOUS
<1>. HIDE DEF ss, tt
<1>. QED  BY <1>1, <1>2, <1>3, PickedListing

LEMMA EspOK ==
  ASSUME NEW d, Real(d), NEW uuid
  PROVE  Real(WithEsp(d, uuid))
<1>. DEFINE k == NotRole(d.new, "efi-system")
            n == IF uuid = "" THEN d.new ELSE k
            t == WithEsp(d, uuid)
<1>1. Listing(k)
  BY KeepRole DEF Real
<1>2. t = [d EXCEPT !.esp = uuid, !.new = n]
  <2>1. [d EXCEPT !.esp = uuid].new = d.new
    BY DEF Real
  <2>. QED  BY <2>1 DEF WithEsp, Keep, NotRole
<1>3. Listing(n)
  <2>. HIDE DEF k
  <2>. QED  BY <1>1 DEF Real
<1>. HIDE DEF n, t
<1>4. DOMAIN t = DOMAIN d /\ t.fs = d.fs /\ t.new = n /\ t.resized = d.resized
  BY <1>2 DEF Real
<1>5. Real(t)
  BY <1>3, <1>4, RealNew DEF Real
<1>. QED  BY <1>5 DEF t

LEMMA RequestOK ==
  ASSUME NEW d, Real(d), NEW request
  PROVE  Real(WithRequest(d, request))
<1>. DEFINE others == NotRole(d.new, request.role)
            a == UpTo(others, request.start)
            b == Beyond(others, request.start)
            n == a \o <<request>> \o b
            e == IF request.role = "efi-system" THEN "" ELSE d.esp
            t == WithRequest(d, request)
<1>1. Listing(others)
  BY KeepRole DEF Real
<1>2. t = [d EXCEPT !.esp = e, !.new = n]
  BY DEF WithRequest, Keep, NotRole, UpTo, Beyond
<1>. HIDE DEF others, e
<1>3. Listing(a) /\ Listing(b)
  BY <1>1, KeepBefore
<1>. HIDE DEF a, b
<1>4. Listing(a \o <<request>>)
  BY <1>3, OneListing, JoinListing
<1>5. Listing(n)
  BY <1>3, <1>4, JoinListing
<1>. HIDE DEF n, t
<1>6. DOMAIN t = DOMAIN d /\ t.fs = d.fs /\ t.new = n /\ t.resized = d.resized
  BY <1>2 DEF Real
<1>7. Real(t)
  BY <1>5, <1>6, RealNew DEF Real
<1>. QED  BY <1>7 DEF t

LEMMA WithoutRoleOK ==
  ASSUME NEW d, Real(d), NEW role
  PROVE  Real(WithoutRole(d, role))
<1>. DEFINE n == NotRole(d.new, role)
            t == WithoutRole(d, role)
<1>1. Listing(n)
  BY KeepRole DEF Real
<1>2. t = [d EXCEPT !.new = n]
  BY DEF WithoutRole, Keep, NotRole
<1>. HIDE DEF n, t
<1>3. DOMAIN t = DOMAIN d /\ t.fs = d.fs /\ t.new = n /\ t.resized = d.resized
  BY <1>2 DEF Real
<1>4. Real(t)
  BY <1>1, <1>3, RealNew DEF Real
<1>. QED  BY <1>4 DEF t

-----------------------------------------------------------------------------
(* The steps of the manual editor *)

WindowOK == ChoicesOK(ui) /\ Editor(ed)

LEMMA EditOK ==
  ASSUME WindowOK, NEW draft, Real(draft), Edit(draft)
  PROVE  WindowOK'
<1>1. ui' = [ui EXCEPT !.draft = draft, !.preview = NoSelection]
  BY DEF Edit, Stored
<1>2. ed' = [[ed EXCEPT !.draft = draft, !.probe = NoSelection, !.refresh = TRUE] EXCEPT !.burst = @ + 1]
  BY DEF Edit, Replaced
<1>3. ChoicesOK(ui')
  BY <1>1 DEF WindowOK, ChoicesOK, UiFields
<1>4. DOMAIN ed' = DOMAIN ed /\ ed'.fs = ed.fs /\ ed'.draft = draft /\ ed'.dialog = ed.dialog
  BY <1>2 DEF WindowOK, Editor, EdFields
<1>5. Editor(ed')
  BY <1>4 DEF WindowOK, Editor
<1>. QED  BY <1>3, <1>5 DEF WindowOK

LEMMA EditingReal == ASSUME WindowOK, Editing PROVE Real(ed.draft)
BY DEF WindowOK, Editing, Editor, NothingOpen

LEMMA LoadedOK ==
  ASSUME WindowOK, NEW inv, EditorLoaded(inv)
  PROVE  WindowOK'
<1>. DEFINE changed == TargetChanged(ui, inv)
            stored  == ui.draft # NoSelection /\ ui.draft.binding = Binding(inv)
            draft   == IF stored THEN ui.draft ELSE FreshDraft(inv, ed.fs)
            b == BindTarget(ui, inv)
            s == IF ed.disk = inv THEN ed.shown ELSE NoSelection
<1>1. ChoicesOK(b)
  BY BoundOK DEF WindowOK
<1>2. Real(draft)
  BY FreshDraftOK DEF WindowOK, ChoicesOK, Editor
<1>3. CASE changed
  <2>1. ui' = b /\ ed' = [ed EXCEPT !.flow = inv]
    BY <1>3 DEF EditorLoaded
  <2>2. Editor(ed')
    BY <2>1 DEF WindowOK, Editor, EdFields, NothingOpen
  <2>. QED  BY <1>1, <2>1, <2>2 DEF WindowOK
<1>4. CASE ~changed
  <2>1. ui' = [b EXCEPT !.draft = draft]
        /\ ed' = [ed EXCEPT !.flow = inv, !.disk = inv, !.draft = draft, !.refresh = TRUE, !.burst = 0,
                    !.shown = IF ed.disk = inv THEN @ ELSE NoSelection]
    BY <1>4 DEF EditorLoaded
  <2>. HIDE DEF b, draft
  <2>2. ChoicesOK(ui')
    BY <1>1, <1>2, <2>1 DEF ChoicesOK, UiFields
  <2>3. DOMAIN ed' = DOMAIN ed /\ ed'.fs = ed.fs /\ ed'.draft = draft /\ ed'.dialog = ed.dialog
    BY <2>1 DEF WindowOK, Editor, EdFields
  <2>4. Editor(ed')
    BY <1>2, <2>3 DEF WindowOK, Editor
  <2>. QED  BY <2>2, <2>4 DEF WindowOK
<1>. QED  BY <1>3, <1>4

LEMMA RefreshOK == ASSUME WindowOK, Refresh PROVE WindowOK'
<1>. DEFINE valid == ManualPreviewable(ed.flow, env, ed.draft)
            p == IF valid THEN ed.draft ELSE ui.preview
            f == ed.draft.fs
<1>1. Real(ed.draft)
  BY DEF WindowOK, Refresh, Editor, NothingOpen
<1>2. ed' = [ed EXCEPT !.refresh = FALSE, !.burst = 0, !.shown = ed.draft, !.open = TRUE, !.next = valid]
  BY DEF Refresh
<1>3. ui' = [ui EXCEPT !.fs = f, !.preview = p]
  BY DEF Refresh, WindowOK, ChoicesOK, UiFields
<1>4. f # "ntfs" /\ (p = NoSelection \/ Real(p))
  BY <1>1 DEF Real, WindowOK, ChoicesOK
<1>. HIDE DEF valid, p, f
<1>5. ChoicesOK(ui')
  BY <1>3, <1>4 DEF WindowOK, ChoicesOK, UiFields
<1>6. DOMAIN ed' = DOMAIN ed /\ ed'.fs = ed.fs /\ ed'.draft = ed.draft /\ ed'.dialog = ed.dialog
  BY <1>2 DEF WindowOK, Editor, EdFields
<1>7. Editor(ed')
  BY <1>1, <1>6 DEF WindowOK, Editor
<1>. QED  BY <1>5, <1>7 DEF WindowOK

LEMMA BeginOK == ASSUME WindowOK, NEW uuid, BeginResize(uuid) PROVE WindowOK'
<1>. DEFINE p == [binding |-> ed.disk.path, part |-> PartOf(ed.disk, uuid)]
<1>1. Real(ed.draft)
  BY EditingReal DEF BeginResize
<1>2. ed' = [ed EXCEPT !.next = FALSE, !.probe = p] /\ ui' = ui
  BY DEF BeginResize
<1>. HIDE DEF p
<1>3. DOMAIN ed' = DOMAIN ed /\ ed'.fs = ed.fs /\ ed'.draft = ed.draft /\ ed'.dialog = ed.dialog
  BY <1>2 DEF WindowOK, Editor, EdFields
<1>. QED  BY <1>1, <1>2, <1>3 DEF WindowOK, Editor

\* The size of a volume the tools found safe, and the range they offer, are numbers.
LEMMA TwoOf ==
  ASSUME NEW x \in Int, NEW y \in Int
  PROVE  Min({x, y}) \in {x, y} /\ Max({x, y}) \in {x, y}
<1>1. \E a \in {x, y} : \A b \in {x, y} : a <= b
  OBVIOUS
<1>2. \E a \in {x, y} : \A b \in {x, y} : a >= b
  OBVIOUS
<1>. QED  BY <1>1, <1>2 DEF Min, Max

LEMMA InspectIs ==
  ASSUME NEW p, PartOK(p), p.uuid \in DOMAIN Volumes, NEW target, InspectNtfs(p, Volumes[p.uuid], target).safe
  PROVE  /\ p.fs = "ntfs" /\ p.size \in Int
         /\ InspectNtfs(p, Volumes[p.uuid], target).minimum \in Int
         /\ InspectNtfs(p, Volumes[p.uuid], target).maximum \in Int
         /\ target \in Int /\ target # NoEnd => target <= p.size
<1>. DEFINE m == Volumes[p.uuid].minimum
            a == (m * 125) \div 100
            b == m + NtfsMargin
            s == Min({p.size, Max({a, b})})
            minimum == CeilDiv(s, MIB) * MIB
            maximum == ((p.size - MIB) \div MIB) * MIB
            i == InspectNtfs(p, Volumes[p.uuid], target)
<1>1. /\ i.minimum = minimum /\ i.maximum = maximum
      /\ p.fs = "ntfs" /\ (target # NoEnd => target <= maximum)
  BY DEF InspectNtfs
<1>2. p.fs = "ntfs" /\ p.size \in Int
  BY <1>1 DEF PartOK
<1>3. m \in Nat /\ NtfsMargin \in Nat /\ MIB \in Nat /\ MIB > 0
  BY MachineAssumption, MarginAssumption, GeometryAssumption
<1>. HIDE DEF m, i
<1>4. a \in Int /\ b \in Int
  BY <1>3
<1>. HIDE DEF a, b
<1>5. Max({a, b}) \in Int
  BY <1>4, TwoOf
<1>6. s \in Int
  BY <1>2, <1>5, TwoOf
<1>. HIDE DEF s
<1>7. minimum \in Int
  BY <1>3, <1>6 DEF CeilDiv
<1>8. maximum \in Int /\ maximum <= p.size
  BY <1>2, <1>3
<1>. HIDE DEF minimum, maximum
<1>9. target \in Int /\ target # NoEnd => target <= p.size
  BY <1>1, <1>2, <1>8 DEF i
<1>. QED  BY <1>1, <1>2, <1>7, <1>8, <1>9 DEF i

LEMMA ProbedOK == ASSUME WindowOK, DisksOK(disks), FinishResizeProbe PROVE WindowOK'
<1>. DEFINE here == {q \in AtPath(ed.probe.binding, ed.probe.part.num) : q.uuid \in DOMAIN Volumes}
            found == {InspectNtfs(p, Volumes[p.uuid], NoEnd) : p \in here}
            safe == {i \in found : i.safe}
            one == CHOOSE i \in safe : TRUE
            d == IF safe = {} THEN NoSelection ELSE [binding |-> ed.probe.part, range |-> one]
<1>1. Real(ed.draft)
  BY DEF WindowOK, FinishResizeProbe, Editor, NothingOpen
<1>2. ed' = [ed EXCEPT !.probe = NoSelection, !.refresh = TRUE, !.dialog = d] /\ ui' = ui
  BY DEF FinishResizeProbe
<1>3. \A p \in here : PartOK(p) /\ p.uuid \in DOMAIN Volumes
  BY DEF AtPath, AtNumber, DisksOK, DiskOK, PartsOK
<1>. HIDE DEF here
<1>4. \A i \in safe : i.minimum \in Int /\ i.maximum \in Int
  BY <1>3, InspectIs
<1>. HIDE DEF safe
<1>5. d = NoSelection \/ (d.range.minimum \in Int /\ d.range.maximum \in Int)
  BY <1>4
<1>. HIDE DEF d
<1>6. DOMAIN ed' = DOMAIN ed /\ ed'.fs = ed.fs /\ ed'.draft = ed.draft /\ ed'.dialog = d
  BY <1>2 DEF WindowOK, Editor, EdFields
<1>. QED  BY <1>1, <1>2, <1>5, <1>6 DEF WindowOK, Editor

LEMMA AnsweredOK == ASSUME WindowOK, AnswerResize PROVE WindowOK'
<1>. DEFINE p == ed.dialog.binding
            range == ed.dialog.range
            closed == [ed EXCEPT !.dialog = NoSelection]
            OnDisk(draft) == [draft EXCEPT !.resized = {r \in @ : \E q \in ed.disk.parts : q.uuid = r.uuid}]
            T == {range.minimum \div MIB, range.maximum \div MIB}
<1>1. Real(ed.draft) /\ range.minimum \in Int /\ range.maximum \in Int
  BY DEF WindowOK, AnswerResize, Editor, NothingOpen
<1>2. MIB \in Nat /\ MIB > 0
  BY GeometryAssumption
<1>3. \A t \in T : t \in Int
  BY <1>1, <1>2
<1>4. PICK draft \in {ed.draft, WithoutResize(ed.draft, p.uuid)} \cup {OnDisk(WithResize(ed.draft, p, t)) : t \in T} :
        IF draft = ed.draft THEN ed' = closed /\ UNCHANGED <<ui, remaining>>
        ELSE ed' = Replaced(closed, draft) /\ ui' = Stored(ui, draft)
  BY DEF AnswerResize
<1>. HIDE DEF T
<1>5. Real(draft)
  <2>1. CASE draft = ed.draft
    BY <1>1, <2>1
  <2>2. CASE draft = WithoutResize(ed.draft, p.uuid)
    BY <1>1, <2>2, ResizedOK
  <2>3. CASE draft \in {OnDisk(WithResize(ed.draft, p, t)) : t \in T}
    <3>1. PICK t \in T : draft = OnDisk(WithResize(ed.draft, p, t))
      BY <2>3
    <3>. DEFINE w == WithResize(ed.draft, p, t)
    <3>2. Real(w)
      BY <1>1, <1>3, ResizedOK
    <3>. HIDE DEF w
    <3>3. Real(OnDisk(w))
      BY <3>2 DEF Real
    <3>. QED  BY <3>1, <3>3 DEF w
  <2>. QED  BY <1>4, <2>1, <2>2, <2>3
<1>6. CASE draft = ed.draft
  <2>1. ed' = closed /\ ui' = ui
    BY <1>4, <1>6
  <2>2. Editor(ed')
    BY <1>1, <2>1 DEF WindowOK, Editor, EdFields
  <2>. QED  BY <2>1, <2>2 DEF WindowOK
<1>7. CASE draft # ed.draft
  <2>1. ed' = [closed EXCEPT !.draft = draft, !.probe = NoSelection, !.refresh = TRUE]
        /\ ui' = [ui EXCEPT !.draft = draft, !.preview = NoSelection]
    BY <1>4, <1>7 DEF Replaced, Stored
  <2>2. ChoicesOK(ui')
    BY <1>5, <2>1 DEF WindowOK, ChoicesOK, UiFields
  <2>3. DOMAIN ed' = DOMAIN ed /\ ed'.fs = ed.fs /\ ed'.draft = draft /\ ed'.dialog = NoSelection
    BY <2>1 DEF WindowOK, Editor, EdFields
  <2>4. Editor(ed')
    BY <1>5, <2>3 DEF WindowOK, Editor
  <2>. QED  BY <2>2, <2>4 DEF WindowOK
<1>. QED  BY <1>6, <1>7

LEMMA EditorStepOK == ASSUME WindowOK, DisksOK(disks), EditorStep PROVE WindowOK'
<1>1. CASE DeliverEditor
  BY <1>1, LoadedOK DEF DeliverEditor
<1>2. CASE Refresh
  BY <1>2, RefreshOK
<1>3. CASE FinishResizeProbe
  BY <1>3, ProbedOK
<1>4. CASE AnswerResize
  BY <1>4, AnsweredOK
<1>5. CASE NextFromAdvanced
  <2>1. ui' = [ui EXCEPT !.page = "summary"] /\ ed' = [ed EXCEPT !.refresh = FALSE, !.probe = NoSelection]
    BY <1>5 DEF NextFromAdvanced
  <2>. QED  BY <2>1 DEF WindowOK, ChoicesOK, UiFields, Editor, EdFields, NothingOpen
<1>6. CASE ToggleTable
  BY <1>6, EditingReal, TableToggledOK, EditOK DEF ToggleTable
<1>7. ASSUME NEW uuid, ToggleDelete(uuid) PROVE WindowOK'
  BY <1>7, EditingReal, ToggledOK, EditOK DEF ToggleDelete
<1>8. ASSUME NEW uuid, BeginResize(uuid) PROVE WindowOK'
  BY <1>8, BeginOK
<1>9. ASSUME NEW uuid, ChooseEsp(uuid) PROVE WindowOK'
  BY <1>9, EditingReal, EspOK, EditOK DEF ChooseEsp
<1>10. ASSUME NEW role, AddPartition(role) PROVE WindowOK'
  <2>1. Editing /\ \E r : Edit(WithRequest(ed.draft, r))
    BY <1>10 DEF AddPartition
  <2>. QED  BY <2>1, EditingReal, RequestOK, EditOK
<1>11. ASSUME NEW role, EditPartition(role) PROVE WindowOK'
  <2>1. Editing /\ \E r : Edit(WithRequest(ed.draft, r))
    BY <1>11 DEF EditPartition
  <2>. QED  BY <2>1, EditingReal, RequestOK, EditOK
<1>12. ASSUME NEW role, RemovePartition(role) PROVE WindowOK'
  BY <1>12, EditingReal, WithoutRoleOK, EditOK DEF RemovePartition
<1>13. ASSUME NEW fs \in Filesystems, ChooseFilesystem(fs) PROVE WindowOK'
  <2>1. fs # "ntfs"
    BY MachineAssumption
  <2>. QED  BY <1>13, <2>1, EditingReal, FilesystemOK, EditOK DEF ChooseFilesystem
<1>. QED  BY <1>1, <1>2, <1>3, <1>4, <1>5, <1>6, <1>7, <1>8, <1>9, <1>10, <1>11, <1>12, <1>13 DEF EditorStep

-----------------------------------------------------------------------------
(* The other steps of the window *)

LEMMA NewEditorOK ==
  ASSUME NEW fs, fs # "ntfs"
  PROVE  Editor(NewEditor(fs))
BY DEF Editor, EdFields, NewEditor, NothingOpen

LEMMA DoneOK == ASSUME WindowDone PROVE WindowOK'
<1>1. ChoicesOK(ui')
  <2>1. ui' = [FreshChoices EXCEPT !.page = "progress"]
    BY DEF WindowDone
  <2>. QED  BY <2>1, FreshOK DEF ChoicesOK, UiFields
<1>2. Editor(ed')
  BY NewEditorOK DEF WindowDone
<1>. QED  BY <1>1, <1>2 DEF WindowOK

\* Back keeps the choices and closes the editor or leaves it.
LEMMA BackOK == ASSUME WindowOK, Back PROVE WindowOK'
<1>1. CASE OnPage("strategy") /\ ui' = DiskPage(ui) /\ ed' = ed
  BY <1>1, DiskPageOK DEF WindowOK
<1>2. CASE ui' = [ui EXCEPT !.page = "strategy", !.via = ""] /\ (ed' = ed \/ ed' = NewEditor("btrfs"))
  <2>1. ChoicesOK(ui')
    BY <1>2 DEF WindowOK, ChoicesOK, UiFields
  <2>2. Editor(ed')
    BY <1>2, NewEditorOK DEF WindowOK
  <2>. QED  BY <2>1, <2>2 DEF WindowOK
<1>3. CASE /\ ui' = [ui EXCEPT !.page = ui.via, !.refused = FALSE]
           /\ ed' = ed \/ ed' = [ed EXCEPT !.open = FALSE, !.next = FALSE]
  <2>1. ChoicesOK(ui')
    BY <1>3 DEF WindowOK, ChoicesOK, UiFields
  <2>2. Editor(ed')
    BY <1>3 DEF WindowOK, Editor, EdFields, NothingOpen
  <2>. QED  BY <2>1, <2>2 DEF WindowOK
<1>. QED  BY <1>1, <1>2, <1>3 DEF Back

LEMMA StrategyNextOK == ASSUME WindowOK, NextFromStrategy PROVE WindowOK'
<1>1. CASE ui.pressed = "advanced"
  <2>1. ui' = [ui EXCEPT !.page = "advanced", !.via = "advanced"] /\ ed' = NewEditor(ui.fs)
    BY <1>1 DEF NextFromStrategy, StrategyOnNext
  <2>2. ChoicesOK(ui')
    BY <2>1 DEF WindowOK, ChoicesOK, UiFields
  <2>3. ui.fs # "ntfs"
    BY DEF WindowOK, ChoicesOK
  <2>. QED  BY <2>1, <2>2, <2>3, NewEditorOK DEF WindowOK
<1>2. CASE ui.pressed # "advanced"
  <2>. DEFINE c == ValidatedSwap(ui)
  <2>1. ChoicesOK(c)
    BY ValidatedOK DEF WindowOK
  <2>2. ui' = [c EXCEPT !.page = "layout", !.via = "layout"] /\ ed' = ed
    BY <1>2 DEF NextFromStrategy
  <2>. HIDE DEF c
  <2>3. ChoicesOK(ui')
    BY <2>1, <2>2 DEF ChoicesOK, UiFields
  <2>. QED  BY <2>2, <2>3 DEF WindowOK
<1>. QED  BY <1>1, <1>2

LEMMA WizardWindow == ASSUME WindowOK, WizardStep PROVE WindowOK'
<1>1. CASE DeliverDisks
  BY <1>1, DiskListedOK DEF DeliverDisks, WindowOK
<1>2. CASE Rescan
  BY <1>2, DiskPageOK DEF Rescan, WindowOK
<1>3. CASE NextFromDisk
  <2>. DEFINE c == StrategyPage(ui)
  <2>1. ChoicesOK(c)
    BY StrategyPageOK DEF WindowOK
  <2>2. ui' = [c EXCEPT !.list = NoInventory, !.selected = "", !.next = FALSE] /\ ed' = ed
    BY <1>3 DEF NextFromDisk
  <2>. HIDE DEF c
  <2>3. ChoicesOK(ui')
    BY <2>1, <2>2 DEF ChoicesOK, UiFields
  <2>. QED  BY <2>2, <2>3 DEF WindowOK
<1>4. CASE NextFromStrategy
  BY <1>4, StrategyNextOK
<1>5. CASE NextFromLayout
  BY <1>5 DEF NextFromLayout, WindowOK, ChoicesOK, UiFields
<1>6. ASSUME NEW disk, SelectDisk(disk) PROVE WindowOK'
  <2>1. CASE disk = Live
    <3>1. ui' = [ui EXCEPT !.selected = Live, !.next = FALSE] /\ ed' = ed
      BY <1>6, <2>1 DEF SelectDisk
    <3>. QED  BY <3>1 DEF WindowOK, ChoicesOK, UiFields
  <2>2. CASE disk # Live
    <3>. DEFINE c == BindTarget(ui, ui.list)
    <3>1. ChoicesOK(c)
      BY BoundOK DEF WindowOK
    <3>2. ui' = [c EXCEPT !.selected = disk, !.next = TRUE] /\ ed' = ed
      BY <1>6, <2>2 DEF SelectDisk
    <3>. HIDE DEF c
    <3>3. ChoicesOK(ui')
      BY <3>1, <3>2 DEF ChoicesOK, UiFields
    <3>. QED  BY <3>2, <3>3 DEF WindowOK
  <2>. QED  BY <2>1, <2>2
<1>7. ASSUME NEW strategy, PressStrategy(strategy) PROVE WindowOK'
  <2>. DEFINE c == ApplyStrategy(ui, strategy)
  <2>1. ChoicesOK(c)
    BY StrategyOK DEF WindowOK
  <2>2. ui' = [c EXCEPT !.pressed = strategy] /\ ed' = ed
    BY <1>7 DEF PressStrategy
  <2>. HIDE DEF c
  <2>3. ChoicesOK(ui')
    BY <2>1, <2>2 DEF ChoicesOK, UiFields
  <2>. QED  BY <2>2, <2>3 DEF WindowOK
<1>8. ASSUME NEW swap, ChooseSwap(swap) PROVE WindowOK'
  <2>1. ui' = [ui EXCEPT !.swap = swap] /\ ed' = ed
    BY <1>8 DEF ChooseSwap
  <2>. QED  BY <2>1 DEF WindowOK, ChoicesOK, UiFields
<1>9. CASE Install
  BY <1>9 DEF Install, WindowOK
<1>10. CASE DeliverPlanRecheck
  <2>1. PICK j \in jobs : ui' = IF PlanAccepted(ui, j.result, env)
                                THEN [ui EXCEPT !.dialog = CreatedPlan(ui, j.result, env)]
                                ELSE [ui EXCEPT !.refused = TRUE]
    BY <1>10 DEF DeliverPlanRecheck
  <2>2. ed' = ed
    BY <1>10 DEF DeliverPlanRecheck
  <2>3. CASE PlanAccepted(ui, j.result, env)
    <3>. DEFINE plan == CreatedPlan(ui, j.result, env)
    <3>1. PlanOK(plan)
      BY <2>3, CreatedPlanOK DEF WindowOK
    <3>2. ui' = [ui EXCEPT !.dialog = plan]
      BY <2>1, <2>3
    <3>. HIDE DEF plan
    <3>. QED  BY <2>2, <3>1, <3>2 DEF WindowOK, ChoicesOK, UiFields
  <2>4. CASE ~PlanAccepted(ui, j.result, env)
    <3>1. ui' = [ui EXCEPT !.refused = TRUE]
      BY <2>1, <2>4
    <3>. QED  BY <2>2, <3>1 DEF WindowOK, ChoicesOK, UiFields
  <2>. QED  BY <2>3, <2>4
<1>11. CASE Cancel
  BY <1>11 DEF Cancel, WindowOK, ChoicesOK, UiFields
<1>12. CASE ConfirmPlan
  BY <1>12, DoneOK DEF ConfirmPlan
<1>13. CASE Back
  BY <1>13, BackOK
<1>14. CASE GuidedTestPlan
  BY <1>14, DoneOK DEF GuidedTestPlan
<1>. QED  BY <1>1, <1>2, <1>3, <1>4, <1>5, <1>6, <1>7, <1>8, <1>9, <1>10, <1>11, <1>12, <1>13, <1>14 DEF WizardStep

-----------------------------------------------------------------------------
(* What the window hands to the executor *)

\* A step that leaves the disks, the volumes and the executor alone.
LEMMA AsideOK ==
  ASSUME PlanningInv, WindowOK', UNCHANGED <<disks, volume, exec>>
  PROVE  PlanningInv'
BY DEF PlanningInv, WindowOK

\* A plan that somebody confirmed.
LEMMA ConfirmedOK ==
  ASSUME PlanningInv, WindowOK', UNCHANGED <<disks, volume>>, NEW plan, PlanOK(plan),
         exec' = [exec EXCEPT !.phase = "confirmed", !.plan = plan]
  PROVE  PlanningInv'
<1>1. ExecOK(exec', disks'[Target], volume')
  BY DEF PlanningInv, ExecOK, ExecFields
<1>. QED  BY <1>1 DEF PlanningInv, WindowOK

LEMMA WizardOK == ASSUME PlanningInv, WizardStep PROVE PlanningInv'
<1>1. WindowOK'
  BY WizardWindow DEF PlanningInv, WindowOK
<1>2. CASE ConfirmPlan
  <2>1. PlanOK(ui.dialog) /\ exec' = [exec EXCEPT !.phase = "confirmed", !.plan = ui.dialog] /\ UNCHANGED <<disks, volume>>
    BY <1>2 DEF ConfirmPlan, PlanningInv, ChoicesOK
  <2>. QED  BY <1>1, <2>1, ConfirmedOK
<1>3. CASE GuidedTestPlan
  <2>1. PICK extent, reused :
          exec' = [exec EXCEPT !.phase = "confirmed", !.plan = GuidedPlan(Inspect(disks[Target], TRUE), env, extent, reused)]
    BY <1>3 DEF GuidedTestPlan
  <2>2. UNCHANGED <<disks, volume>>
    BY <1>3 DEF GuidedTestPlan
  <2>. QED  BY <1>1, <2>1, <2>2, GuidedPlanOK, ConfirmedOK
<1>4. CASE ~ConfirmPlan /\ ~GuidedTestPlan
  <2>1. UNCHANGED <<disks, volume, exec>>
    BY <1>4 DEF WizardStep, DeliverDisks, Rescan, NextFromDisk, NextFromStrategy, NextFromLayout, SelectDisk,
                PressStrategy, ChooseSwap, Install, DeliverPlanRecheck, Cancel, Back
  <2>. QED  BY <1>1, <2>1, AsideOK
<1>. QED  BY <1>2, <1>3, <1>4

LEMMA EditorOK == ASSUME PlanningInv, EditorStep PROVE PlanningInv'
<1>1. WindowOK'
  BY EditorStepOK DEF PlanningInv, WindowOK
<1>2. UNCHANGED <<disks, volume, exec>>
  BY DEF EditorStep, DeliverEditor, Refresh, FinishResizeProbe, AnswerResize, NextFromAdvanced, ToggleTable,
         ToggleDelete, BeginResize, ChooseEsp, AddPartition, EditPartition, RemovePartition, ChooseFilesystem, Edit
<1>. QED  BY <1>1, <1>2, AsideOK

LEMMA ProbesOK == ASSUME PlanningInv, WorkerReads \/ DropObsolete \/ Ended PROVE PlanningInv'
<1>1. UNCHANGED <<disks, volume, exec, ui, ed>>
  BY DEF WorkerReads, DropObsolete, Ended, planningVars
<1>. QED  BY <1>1, AsideOK DEF PlanningInv, WindowOK

-----------------------------------------------------------------------------
(* Changes of the disks *)

LEMMA KeptSame == ASSUME NEW P PROVE Kept(P, P)
BY DEF Kept

\* One disk changes, and keeps its path.
LEMMA OneDisk ==
  ASSUME NEW ds, DisksOK(ds), NEW ds2, DOMAIN ds2 = DOMAIN ds, NEW d,
         \A e \in DOMAIN ds : e # d => ds2[e] = ds[e],
         d \in DOMAIN ds => DiskOK(ds2[d]) /\ ds2[d].path = ds[d].path
  PROVE  DisksOK(ds2) /\ \A e \in DOMAIN ds : ds2[e].path = ds[e].path
<1>1. \A e \in DOMAIN ds : ds2[e].path = ds[e].path /\ DiskOK(ds2[e])
  BY DEF DisksOK
<1>. QED  BY <1>1 DEF DisksOK

\* One partition of one disk changes and is NTFS only if it was, in the same place.
LEMMA OnePart ==
  ASSUME NEW P, PartsOK(P), NEW p \in P, NEW q, PartOK(q), q.num = p.num,
         q.fs = "ntfs" => p.fs = "ntfs" /\ q.uuid = p.uuid /\ q.start = p.start /\ q.size = p.size
  PROVE  PartsOK((P \ {p}) \cup {q}) /\ Kept(P, (P \ {p}) \cup {q})
<1>. DEFINE Q == (P \ {p}) \cup {q}
            g == [x \in P |-> IF x = p THEN q ELSE x]
<1>1. {g[x] : x \in P} = Q
  OBVIOUS
<1>2. Edits(g, P)
  BY DEF Edits, PartsOK
<1>. HIDE DEF g
<1>3. PartsOK(Q)
  BY <1>1, <1>2, PartsEdited
<1>4. Kept(P, Q)
  BY DEF Kept
<1>. QED  BY <1>3, <1>4

LEMMA PartChanged ==
  ASSUME NEW ds, DisksOK(ds), NEW d \in DOMAIN ds, NEW Q, PartsOK(Q), Kept(ds[d].parts, Q),
         NEW ds2, DOMAIN ds2 = DOMAIN ds, \A e \in DOMAIN ds : e # d => ds2[e] = ds[e],
         ds2[d] = [ds[d] EXCEPT !.parts = Q]
  PROVE  DisksOK(ds2) /\ ds2[Target].path = ds[Target].path /\ Kept(ds[Target].parts, ds2[Target].parts)
<1>1. DOMAIN ds[d] = {"id", "path", "size", "table", "tableId", "parts", "nested"}
  BY DEF DisksOK, DiskOK
<1>2. DiskOK(ds2[d]) /\ ds2[d].path = ds[d].path /\ ds2[d].parts = Q
  BY <1>1 DEF DiskOK
<1>3. DisksOK(ds2) /\ \A e \in DOMAIN ds : ds2[e].path = ds[e].path
  BY <1>2, OneDisk
<1>4. Kept(ds[Target].parts, ds2[Target].parts)
  BY <1>2, KeptSame DEF DisksOK
<1>. QED  BY <1>3, <1>4 DEF DisksOK

\* What a command of the executor leaves, at the path it names.
LEMMA AfterOK ==
  ASSUME DisksOK(disks), NEW c, NEW disk, CommandOK(c, disk),
         c.op \in {"mklabel", "mkpart", "flag", "rm", "resizepart", "mkfs"}
  PROVE  /\ DisksOK(After(c)) /\ After(c)[Target].path = disks[Target].path
         /\ From(disks[Target].parts, After(c)[Target].parts)
         /\ c.op # "resizepart" => Kept(disks[Target].parts, After(c)[Target].parts)
<1>. DEFINE d == DiskAt(PathOf(c))
            ds2 == After(c)
            a == Applied(disks[d], c)
<1>1. DOMAIN ds2 = DOMAIN disks /\ \A e \in DOMAIN disks : e # d => ds2[e] = disks[e]
  BY DEF After
<1>2. d \in DOMAIN disks => ds2[d] = a
  BY DEF After
<1>. HIDE DEF d, ds2, a
<1>3. c.op = "mkfs" => c.fs # "ntfs"
  BY DEF CommandOK
<1>4. c.op = "resizepart" => c.end \in Int
  BY DEF CommandOK
<1>5. d \in DOMAIN disks => /\ DiskOK(a) /\ a.path = disks[d].path /\ From(disks[d].parts, a.parts)
                            /\ c.op # "resizepart" => Kept(disks[d].parts, a.parts)
  <2>1. SUFFICES ASSUME d \in DOMAIN disks
                 PROVE  /\ DiskOK(a) /\ a.path = disks[d].path /\ From(disks[d].parts, a.parts)
                        /\ c.op # "resizepart" => Kept(disks[d].parts, a.parts)
    OBVIOUS
  <2>2. DiskOK(disks[d])
    BY <2>1 DEF DisksOK
  <2>. QED  BY <1>3, <1>4, <2>2, AppliedOK DEF a
<1>6. DisksOK(ds2) /\ \A e \in DOMAIN disks : ds2[e].path = disks[e].path
  BY <1>1, <1>2, <1>5, OneDisk
<1>7. Target \in DOMAIN disks
  BY DEF DisksOK
<1>8. /\ From(disks[Target].parts, ds2[Target].parts)
      /\ c.op # "resizepart" => Kept(disks[Target].parts, ds2[Target].parts)
  <2>1. CASE d = Target
    BY <1>2, <1>5, <1>7, <2>1
  <2>2. CASE d # Target
    BY <1>1, <1>7, <2>2, KeptSame, KeptFrom
  <2>. QED  BY <2>1, <2>2
<1>. QED  BY <1>6, <1>7, <1>8 DEF ds2

\* The command that shrinks a partition reaches the target disk ...
LEMMA ReachesTarget ==
  ASSUME DisksOK(disks), NEW path, path = disks[Target].path
  PROVE  DiskAt(path) = Target
BY DEF DisksOK, DiskAt

\* ... and the volume in it was made small enough.
LEMMA ShrunkWhole ==
  ASSUME NEW disk, DiskOK(disk), NEW c, c.op = "resizepart", CommandOK(c, disk), NEW v,
         Ready(c, disk, v), Whole(disk, v)
  PROVE  Whole(Applied(disk, c), v)
<1>. DEFINE a == Applied(disk, c)
            F(p) == IF p.num = c.num THEN [p EXCEPT !.size = c.end - p.start] ELSE p
<1>1. a.parts = {F(p) : p \in disk.parts}
  BY DEF Applied, DiskOK
<1>. HIDE DEF a
<1>2. ASSUME NEW p \in disk.parts, F(p).fs = "ntfs", F(p).uuid \in DOMAIN v
      PROVE  v[F(p).uuid] <= F(p).size
  <2>1. DOMAIN p = {"num", "uuid", "start", "size", "type", "fs", "fsid", "mnt"}
    BY DEF DiskOK, PartsOK, PartOK
  <2>2. F(p).fs = p.fs /\ F(p).uuid = p.uuid
    BY <2>1
  <2>3. CASE p.num = c.num
    <3>1. F(p).size = c.end - p.start
      BY <2>1, <2>3
    <3>2. p.start = c.start /\ c.start \in Int /\ c.target \in Nat /\ c.end = c.start + c.target
      BY <1>2, <2>2, <2>3 DEF CommandOK
    <3>3. F(p).size = c.target
      BY <3>1, <3>2
    <3>4. v[p.uuid] <= c.target
      BY <1>2, <2>2, <2>3 DEF Ready
    <3>. QED  BY <2>2, <3>3, <3>4
  <2>4. CASE p.num # c.num
    BY <1>2, <2>4 DEF Whole
  <2>. QED  BY <2>3, <2>4
<1>. HIDE DEF F
<1>3. Whole(a, v)
  BY <1>1, <1>2 DEF Whole
<1>. QED  BY <1>3 DEF a

-----------------------------------------------------------------------------
(* Changes by others *)

LEMMA OthersOK == ASSUME PlanningInv, OtherChange PROVE PlanningInv'
<1>1. UNCHANGED <<volume, ui, ed, exec>> /\ exec.phase # "running"
  BY DEF OtherChange
<1>2. DisksOK(disks) /\ Whole(disks[Target], volume) /\ Target \in DOMAIN disks /\ Live \in DOMAIN disks
  BY DEF PlanningInv, DisksOK
<1>3. DisksOK(disks') /\ Kept(disks[Target].parts, disks'[Target].parts)
  <2>1. CASE \E p \in disks[Target].parts :
               \E after \in {{}, {[p EXCEPT !.mnt = "mounted"]}, {[p EXCEPT !.fs = "ext4", !.fsid = "other"]}} :
                 disks' = [disks EXCEPT ![Target].parts = (@ \ {p}) \cup after]
    <3>. DEFINE P == disks[Target].parts
    <3>1. PICK p \in P :
            \E after \in {{}, {[p EXCEPT !.mnt = "mounted"]}, {[p EXCEPT !.fs = "ext4", !.fsid = "other"]}} :
              disks' = [disks EXCEPT ![Target].parts = (P \ {p}) \cup after]
      BY <1>2, <2>1
    <3>2. PICK after \in {{}, {[p EXCEPT !.mnt = "mounted"]}, {[p EXCEPT !.fs = "ext4", !.fsid = "other"]}} :
              disks' = [disks EXCEPT ![Target].parts = (P \ {p}) \cup after]
      BY <3>1
    <3>3. PartsOK(P) /\ PartOK(p)
      BY <1>2 DEF DisksOK, DiskOK, PartsOK
    <3>. HIDE DEF P
    <3>. DEFINE Q == (P \ {p}) \cup after
    <3>4. PartsOK(Q) /\ Kept(P, Q)
      <4>1. CASE after = {}
        BY <3>3, <4>1, PartsFewer
      <4>2. CASE after # {}
        <5>. DEFINE m == [p EXCEPT !.mnt = "mounted"]
                    f == [p EXCEPT !.fs = "ext4", !.fsid = "other"]
        <5>1. PartOK(m) /\ m.num = p.num /\ m.fs = p.fs /\ m.uuid = p.uuid /\ m.start = p.start /\ m.size = p.size
          BY <3>3 DEF PartOK
        <5>2. PartOK(f) /\ f.num = p.num /\ f.fs # "ntfs"
          BY <3>3 DEF PartOK
        <5>3. after = {m} \/ after = {f}
          BY <3>2, <4>2
        <5>. HIDE DEF m, f
        <5>4. CASE after = {m}
          BY <3>3, <5>1, <5>4, OnePart
        <5>5. CASE after = {f}
          BY <3>3, <5>2, <5>5, OnePart
        <5>. QED  BY <5>3, <5>4, <5>5
      <4>. QED  BY <4>1, <4>2
    <3>. HIDE DEF Q
    <3>5. /\ DOMAIN disks' = DOMAIN disks /\ \A e \in DOMAIN disks : e # Target => disks'[e] = disks[e]
          /\ disks'[Target] = [disks[Target] EXCEPT !.parts = Q]
      BY <1>2, <3>2 DEF Q
    <3>6. Kept(disks[Target].parts, Q)
      BY <3>4 DEF P
    <3>. QED  BY <1>2, <3>4, <3>5, <3>6, PartChanged
  <2>2. CASE disks' = Relocated
    <3>1. Target # Live
      BY MachineAssumption
    <3>2. /\ DOMAIN disks' = DOMAIN disks
          /\ \A d \in DOMAIN disks : d \notin {Target, Live} => disks'[d] = disks[d]
          /\ disks'[Target] = [disks[Target] EXCEPT !.path = disks[Live].path]
          /\ disks'[Live] = [disks[Live] EXCEPT !.path = disks[Target].path]
      BY <1>2, <2>2, <3>1 DEF Relocated
    <3>3. \A d \in {Target, Live} : DOMAIN disks[d] = {"id", "path", "size", "table", "tableId", "parts", "nested"}
      BY <1>2 DEF DisksOK, DiskOK
    <3>4. /\ DOMAIN disks'[Target] = DOMAIN disks[Target] /\ DOMAIN disks'[Live] = DOMAIN disks[Live]
          /\ disks'[Target].path = disks[Live].path /\ disks'[Live].path = disks[Target].path
          /\ disks'[Target].parts = disks[Target].parts /\ disks'[Live].parts = disks[Live].parts
      BY <3>2, <3>3
    <3>5. \A d \in DOMAIN disks : DiskOK(disks'[d])
      BY <1>2, <3>2, <3>4 DEF DisksOK, DiskOK
    <3>6. \A d, e \in DOMAIN disks : disks'[d].path = disks'[e].path => d = e
      <4>. DEFINE F(d) == IF d = Target THEN Live ELSE IF d = Live THEN Target ELSE d
      <4>1. \A d \in DOMAIN disks : F(d) \in DOMAIN disks /\ disks'[d].path = disks[F(d)].path
        BY <1>2, <3>2, <3>4
      <4>2. \A d, e \in DOMAIN disks : F(d) = F(e) => d = e
        BY <3>1
      <4>. HIDE DEF F
      <4>3. \A d, e \in DOMAIN disks : disks[d].path = disks[e].path => d = e
        BY <1>2 DEF DisksOK
      <4>4. ASSUME NEW d \in DOMAIN disks, NEW e \in DOMAIN disks, disks'[d].path = disks'[e].path PROVE d = e
        BY <4>1, <4>2, <4>3, <4>4
      <4>. QED  BY <4>4
    <3>. QED  BY <1>2, <3>2, <3>4, <3>5, <3>6, KeptSame DEF DisksOK
  <2>. QED  BY <2>1, <2>2 DEF OtherChange
<1>4. Whole(disks'[Target], volume')
  BY <1>1, <1>2, <1>3, WholeKept
<1>. QED  BY <1>1, <1>3, <1>4 DEF PlanningInv, ExecOK

-----------------------------------------------------------------------------
(* The executor *)

\* The installation ends here, or goes on with what is left to do.
LEMMA StoppedOK ==
  ASSUME ExecOK(exec, disks[Target], volume), NEW phase \in {"refused", "failed", "verified"},
         \/ exec' = [exec EXCEPT !.phase = phase]
         \/ exec' = [exec EXCEPT !.phase = phase, !.todo = <<>>]
  PROVE  ExecOK(exec', disks'[Target], volume')
BY DEF ExecOK, ExecFields

LEMMA GoesOnOK ==
  ASSUME ExecOK(exec, disks[Target], volume), exec.phase = "running", NEW s, TodoOK(s, disks'[Target], volume'),
         \/ exec' = [exec EXCEPT !.todo = s]
         \/ exec' = [exec EXCEPT !.todo = s, !.retry = FALSE]
         \/ exec' = [exec EXCEPT !.retry = FALSE, !.todo = s]
  PROVE  ExecOK(exec', disks'[Target], volume')
BY DEF ExecOK, ExecFields

LEMMA StepIs ==
  ASSUME PlanningInv, exec.phase = "running"
  PROVE  /\ TodoOK(exec.todo, disks[Target], volume) /\ CommandOK(Step, disks[Target])
         /\ Step.op = "resizepart" => Ready(Step, disks[Target], volume)
         /\ DisksOK(disks) /\ Whole(disks[Target], volume) /\ Target \in DOMAIN disks /\ DiskOK(disks[Target])
<1>1. TodoOK(exec.todo, disks[Target], volume)
  BY DEF PlanningInv, ExecOK
<1>2. 1 \in DOMAIN exec.todo
  <2>1. Listing(exec.todo) /\ Len(exec.todo) # 0
    BY <1>1 DEF TodoOK
  <2>2. Len(exec.todo) \in Nat /\ DOMAIN exec.todo = 1..Len(exec.todo)
    BY <2>1, ListingIs
  <2>. QED  BY <2>1, <2>2
<1>3. CommandOK(Step, disks[Target]) /\ (Step.op = "resizepart" => Ready(Step, disks[Target], volume))
  BY <1>1, <1>2 DEF TodoOK, Step
<1>. QED  BY <1>1, <1>3 DEF PlanningInv, DisksOK

LEMMA PreflightOK == ASSUME PlanningInv, Preflight PROVE PlanningInv'
<1>. DEFINE inv == Inspect(disks[Target], TRUE)
            plan == Resolve(exec.plan, inv)
            compiled == Compile(plan, inv, env, Volumes)
<1>1. UNCHANGED <<disks, volume, ui, ed>> /\ exec.phase = "confirmed"
  BY DEF Preflight
<1>2. ExecOK(exec, disks[Target], volume) /\ DiskOK(disks[Target])
  BY DEF PlanningInv, DisksOK
<1>3. inv.parts = disks[Target].parts /\ inv.path = disks[Target].path
  BY DEF Inspect
<1>4. PlanOK(plan)
  <2>1. PlanOK(exec.plan)
    BY <1>1, <1>2 DEF ExecOK
  <2>2. plan = [exec.plan EXCEPT !.path = inv.path]
    BY DEF Resolve
  <2>. HIDE DEF plan, inv
  <2>3. DOMAIN plan = DOMAIN exec.plan /\ plan.mode = exec.plan.mode /\ plan.fs = exec.plan.fs /\ plan.graph = exec.plan.graph
    BY <2>1, <2>2 DEF PlanOK
  <2>. QED  BY <2>1, <2>3 DEF PlanOK
<1>5. CASE TargetVerified(plan, inv, Memory) /\ compiled.ok /\ SnapshotComplete(plan, inv)
  <2>. DEFINE s == StorageSteps(compiled.commands)
              d == compiled.commands.devices
              o == compiled.commands.swapoff
              n == Snapshot(plan, inv)
              r == exec.plan.mode # "manual"
  <2>1. exec' = [exec EXCEPT !.phase = "running", !.todo = s, !.devices = d, !.swapoff = o, !.snapshot = n, !.retry = r]
    BY <1>5 DEF Preflight
  <2>2. CommandsOK(compiled.commands, disks[Target])
    <3>. HIDE DEF plan, inv
    <3>. QED  BY <1>2, <1>3, <1>4, <1>5, CompileGood
  <2>3. TodoOK(s, disks[Target], volume)
    <3>. HIDE DEF compiled
    <3>. QED  BY <2>2, StepsGood
  <2>. HIDE DEF s, d, o, n, r
  <2>4. ExecOK(exec', disks[Target], volume)
    BY <1>2, <2>1, <2>3 DEF ExecOK, ExecFields
  <2>. QED  BY <1>1, <2>4 DEF PlanningInv
<1>6. CASE ~(TargetVerified(plan, inv, Memory) /\ compiled.ok /\ SnapshotComplete(plan, inv))
  <2>1. exec' = [exec EXCEPT !.phase = "refused"]
    BY <1>6 DEF Preflight
  <2>2. ExecOK(exec', disks'[Target], volume')
    BY <1>2, <2>1, StoppedOK
  <2>. QED  BY <1>1, <2>2 DEF PlanningInv
<1>. QED  BY <1>5, <1>6

\* Where the disks change, what the executor still has to do stays right.
LEMMA DiskStepOK ==
  ASSUME PlanningInv, exec.phase = "running", UNCHANGED <<volume, ui, ed>>, DisksOK(disks'),
         disks'[Target].path = disks[Target].path, From(disks[Target].parts, disks'[Target].parts),
         Whole(disks'[Target], volume), Step.op # "ntfsresize", Step.op # "verify",
         \/ exec' = [exec EXCEPT !.todo = Tail(exec.todo)]
         \/ exec' = [exec EXCEPT !.todo = Tail(exec.todo), !.retry = FALSE]
         \/ exec' = [exec EXCEPT !.phase = "failed"]
         \/ Step.op # "resizepart" /\ exec' = [exec EXCEPT !.retry = FALSE, !.todo = <<[op |-> "swapoff"]>> \o exec.todo]
  PROVE  PlanningInv'
<1>1. TodoOK(exec.todo, disks'[Target], volume)
  BY StepIs, CarriedTodo
<1>2. TodoOK(Tail(exec.todo), disks'[Target], volume)
  BY <1>1, TailTodo DEF Step
<1>3. Step.op # "resizepart" => TodoOK(<<[op |-> "swapoff"]>> \o exec.todo, disks'[Target], volume)
  BY <1>1, RetryTodo DEF Step
<1>4. ExecOK(exec, disks[Target], volume)
  BY DEF PlanningInv
<1>5. ExecOK(exec', disks'[Target], volume')
  BY <1>2, <1>3, <1>4, GoesOnOK, StoppedOK
<1>. QED  BY <1>5 DEF PlanningInv

LEMMA SwapOffOK == ASSUME PlanningInv, SwapOff PROVE PlanningInv'
<1>1. UNCHANGED <<volume, ui, ed>> /\ exec.phase = "running" /\ Step.op = "swapoff"
      /\ disks' \in WithoutSwap /\ exec' = [exec EXCEPT !.todo = Tail(exec.todo)]
  BY DEF SwapOff, Running, NextCommand, PlanningInv, ExecOK, ExecFields
<1>2. DisksOK(disks) /\ Whole(disks[Target], volume)
  BY <1>1, StepIs
<1>3. DisksOK(disks') /\ disks'[Target].path = disks[Target].path /\ Kept(disks[Target].parts, disks'[Target].parts)
  <2>1. CASE disks' = disks
    BY <1>2, <2>1, KeptSame
  <2>2. CASE disks' # disks
    <3>1. PICK d \in DOMAIN disks : \E p \in ActiveSwaps(d) :
            disks' = [disks EXCEPT ![d].parts = (@ \ {p}) \cup {[p EXCEPT !.mnt = ""]}]
      BY <1>1, <2>2 DEF WithoutSwap
    <3>. DEFINE P == disks[d].parts
    <3>2. PICK p \in P : disks' = [disks EXCEPT ![d].parts = (P \ {p}) \cup {[p EXCEPT !.mnt = ""]}]
      BY <3>1 DEF ActiveSwaps
    <3>. DEFINE q == [p EXCEPT !.mnt = ""]
                Q == (P \ {p}) \cup {q}
    <3>3. PartsOK(P) /\ PartOK(p)
      BY <1>2 DEF DisksOK, DiskOK, PartsOK
    <3>. HIDE DEF P
    <3>4. PartOK(q) /\ q.num = p.num /\ q.fs = p.fs /\ q.uuid = p.uuid /\ q.start = p.start /\ q.size = p.size
      BY <3>3 DEF PartOK
    <3>5. /\ DOMAIN disks' = DOMAIN disks /\ \A e \in DOMAIN disks : e # d => disks'[e] = disks[e]
          /\ disks'[d] = [disks[d] EXCEPT !.parts = Q]
      BY <3>1, <3>2
    <3>. HIDE DEF q
    <3>6. PartsOK(Q) /\ Kept(P, Q)
      BY <3>3, <3>4, OnePart
    <3>. HIDE DEF Q
    <3>7. d \in DOMAIN disks /\ Kept(disks[d].parts, Q)
      BY <3>1, <3>6 DEF P
    <3>. QED  BY <1>2, <3>5, <3>6, <3>7, PartChanged
  <2>. QED  BY <2>1, <2>2
<1>4. Whole(disks'[Target], volume) /\ From(disks[Target].parts, disks'[Target].parts)
  BY <1>2, <1>3, WholeKept, KeptFrom
<1>. QED  BY <1>1, <1>3, <1>4, DiskStepOK

\* Only the volume in the partition at the command's device is shrunk, to a size that fits.
LEMMA VolumeShrunk ==
  ASSUME PlanningInv, Running("ntfsresize"), StillSafe
  PROVE  /\ DOMAIN ShrunkVolume = DOMAIN volume
         /\ Whole(disks[Target], ShrunkVolume) /\ Ready(Step, disks[Target], ShrunkVolume)
<1>1. /\ CommandOK(Step, disks[Target]) /\ DisksOK(disks) /\ Whole(disks[Target], volume)
      /\ Target \in DOMAIN disks /\ DiskOK(disks[Target]) /\ DOMAIN volume = DOMAIN Volumes
  BY StepIs DEF Running, PlanningInv
<1>2. Step.path = disks[Target].path /\ Step.target \in Nat
  BY <1>1 DEF CommandOK, Running
<1>3. AtPath(Step.path, Step.num) = AtNumber(disks[Target], Step.num)
  <2>1. {d \in DOMAIN disks : disks[d].path = Step.path} = {Target}
    BY <1>1, <1>2 DEF DisksOK
  <2>. QED  BY <2>1 DEF AtPath
<1>4. PICK p \in AtDevice : InspectNtfs(p, Volumes[p.uuid], Step.target).safe
  BY DEF StillSafe
<1>5. p \in disks[Target].parts /\ p.num = Step.num /\ p.uuid \in DOMAIN Volumes /\ PartOK(p)
  BY <1>1, <1>3, <1>4 DEF AtDevice, AtNumber, DiskOK, PartsOK
<1>6. \A q \in disks[Target].parts : q.num = Step.num => q = p
  BY <1>1, <1>5 DEF DiskOK, PartsOK
<1>7. (CHOOSE q \in AtDevice : TRUE) = p
  BY <1>3, <1>4, <1>6 DEF AtDevice, AtNumber
<1>8. p.fs = "ntfs" /\ Step.target <= p.size
  <2>1. Step.target \in Int /\ Step.target # NoEnd
    BY <1>2 DEF NoEnd
  <2>. QED  BY <1>4, <1>5, <2>1, InspectIs
<1>. DEFINE v == ShrunkVolume
<1>9. v = [volume EXCEPT ![p.uuid] = Step.target]
  BY <1>7 DEF ShrunkVolume
<1>. HIDE DEF v
<1>10. DOMAIN v = DOMAIN volume /\ v[p.uuid] = Step.target /\ \A u \in DOMAIN volume : u # p.uuid => v[u] = volume[u]
  BY <1>1, <1>5, <1>9
<1>11. Whole(disks[Target], v)
  <2>1. ASSUME NEW q \in disks[Target].parts, q.fs = "ntfs", q.uuid \in DOMAIN v
        PROVE  v[q.uuid] <= q.size
    <3>1. CASE q.uuid = p.uuid
      <4>1. q = p
        BY <1>1, <1>5, <1>8, <2>1, <3>1 DEF DiskOK, PartsOK
      <4>. QED  BY <1>8, <1>10, <4>1
    <3>2. CASE q.uuid # p.uuid
      BY <1>1, <1>10, <2>1, <3>2 DEF Whole
    <3>. QED  BY <3>1, <3>2
  <2>. QED  BY <2>1 DEF Whole
<1>12. Ready(Step, disks[Target], v)
  <2>1. Step.target <= Step.target
    BY <1>2
  <2>. QED  BY <1>6, <1>10, <2>1 DEF Ready
<1>. QED  BY <1>10, <1>11, <1>12 DEF v

LEMMA ResizeFilesystemOK == ASSUME PlanningInv, ResizeFilesystem PROVE PlanningInv'
<1>1. UNCHANGED <<disks, ui, ed>> /\ Running("ntfsresize") /\ exec.phase = "running" /\ Step.op = "ntfsresize"
  BY DEF ResizeFilesystem, Running
<1>2. ExecOK(exec, disks[Target], volume) /\ TodoOK(exec.todo, disks[Target], volume)
  BY <1>1, StepIs DEF PlanningInv
<1>3. CASE StillSafe
  <2>. DEFINE v == ShrunkVolume
  <2>1. volume' = v /\ exec' = [exec EXCEPT !.todo = Tail(exec.todo)]
    BY <1>3, <1>2 DEF ResizeFilesystem, NextCommand, ExecOK, ExecFields
  <2>2. DOMAIN v = DOMAIN volume /\ Whole(disks[Target], v) /\ Ready(Step, disks[Target], v)
    BY <1>1, <1>3, VolumeShrunk
  <2>. HIDE DEF v
  <2>3. TodoOK(Tail(exec.todo), disks[Target], v)
    BY <1>1, <1>2, <2>2, TailTodo DEF Step
  <2>4. ExecOK(exec', disks'[Target], volume')
    BY <1>1, <1>2, <2>1, <2>3, GoesOnOK
  <2>. QED  BY <1>1, <2>1, <2>2, <2>4 DEF PlanningInv
<1>4. CASE ~StillSafe
  <2>1. volume' = volume /\ exec' = [exec EXCEPT !.phase = "failed"]
    BY <1>4 DEF ResizeFilesystem, Abort
  <2>2. ExecOK(exec', disks'[Target], volume')
    BY <1>2, <2>1, StoppedOK
  <2>. QED  BY <1>1, <2>1, <2>2 DEF PlanningInv
<1>. QED  BY <1>3, <1>4

\* A table command or mkfs, accepted or not, and however the tool ends.
LEMMA CommandKept ==
  ASSUME PlanningInv, exec.phase = "running", Step.op \in {"mklabel", "mkpart", "flag", "rm", "resizepart", "mkfs"},
         disks' = disks \/ disks' = After(Step)
  PROVE  /\ DisksOK(disks') /\ disks'[Target].path = disks[Target].path
         /\ From(disks[Target].parts, disks'[Target].parts) /\ Whole(disks'[Target], volume)
<1>1. /\ CommandOK(Step, disks[Target]) /\ DisksOK(disks) /\ Whole(disks[Target], volume)
      /\ Target \in DOMAIN disks /\ DiskOK(disks[Target])
      /\ Step.op = "resizepart" => Ready(Step, disks[Target], volume)
  BY StepIs
<1>2. CASE disks' = disks
  BY <1>1, <1>2, KeptSame, KeptFrom
<1>3. CASE disks' = After(Step)
  <2>1. /\ DisksOK(disks') /\ disks'[Target].path = disks[Target].path
        /\ From(disks[Target].parts, disks'[Target].parts)
        /\ Step.op # "resizepart" => Kept(disks[Target].parts, disks'[Target].parts)
    BY <1>1, <1>3, AfterOK
  <2>2. CASE Step.op = "resizepart"
    <3>1. PathOf(Step) = disks[Target].path
      BY <1>1, <2>2 DEF CommandOK, PathOf
    <3>2. DiskAt(PathOf(Step)) = Target
      BY <1>1, <3>1, ReachesTarget
    <3>3. disks'[Target] = Applied(disks[Target], Step)
      BY <1>1, <1>3, <3>2 DEF After
    <3>4. Whole(Applied(disks[Target], Step), volume)
      BY <1>1, <2>2, ShrunkWhole
    <3>. QED  BY <2>1, <3>3, <3>4
  <2>3. CASE Step.op # "resizepart"
    BY <1>1, <2>1, <2>3, WholeKept
  <2>. QED  BY <2>2, <2>3
<1>. QED  BY <1>2, <1>3

\* What OnFailure does to the executor.
LEMMA FailureIs ==
  ASSUME PlanningInv, OnFailure
  PROVE  \/ exec' = [exec EXCEPT !.phase = "failed"]
         \/ exec' = [exec EXCEPT !.retry = FALSE, !.todo = <<[op |-> "swapoff"]>> \o exec.todo]
BY DEF PlanningInv, ExecOK, ExecFields, OnFailure, Abort

LEMMA CommandStepOK ==
  ASSUME PlanningInv, ResizePartition \/ TableCommand \/ Format
  PROVE  PlanningInv'
<1>1. /\ UNCHANGED <<volume, ui, ed>> /\ exec.phase = "running"
      /\ Step.op \in {"mklabel", "mkpart", "flag", "rm", "resizepart", "mkfs"}
      /\ disks' = disks \/ disks' = After(Step)
  BY DEF ResizePartition, TableCommand, Format, Running, IsTableCommand
<1>2. \/ exec' = [exec EXCEPT !.todo = Tail(exec.todo)]
      \/ exec' = [exec EXCEPT !.todo = Tail(exec.todo), !.retry = FALSE]
      \/ exec' = [exec EXCEPT !.phase = "failed"]
      \/ Step.op # "resizepart" /\ exec' = [exec EXCEPT !.retry = FALSE, !.todo = <<[op |-> "swapoff"]>> \o exec.todo]
  <2>1. DOMAIN exec = ExecFields
    BY DEF PlanningInv, ExecOK
  <2>2. CASE ResizePartition
    BY <2>1, <2>2 DEF ResizePartition, NextCommand, Abort
  <2>3. CASE TableCommand
    BY <2>1, <2>3, FailureIs DEF TableCommand, IsTableCommand
  <2>4. CASE Format
    BY <2>1, <2>4 DEF Format, NextCommand, Abort
  <2>. QED  BY <2>2, <2>3, <2>4
<1>3. /\ DisksOK(disks') /\ disks'[Target].path = disks[Target].path
      /\ From(disks[Target].parts, disks'[Target].parts) /\ Whole(disks'[Target], volume)
  BY <1>1, CommandKept
<1>4. Step.op # "ntfsresize" /\ Step.op # "verify"
  BY <1>1
<1>. QED  BY <1>1, <1>2, <1>3, <1>4, DiskStepOK

LEMMA DevicesOK == ASSUME PlanningInv, DevicesAppear PROVE PlanningInv'
<1>1. /\ UNCHANGED <<disks, volume, ui, ed>> /\ exec.phase = "running" /\ Step.op = "devices"
      /\ exec' = [exec EXCEPT !.todo = Tail(exec.todo)] \/ exec' = [exec EXCEPT !.phase = "failed"]
  BY DEF DevicesAppear, Running, NextCommand, Abort
<1>2. /\ DisksOK(disks') /\ disks'[Target].path = disks[Target].path
      /\ From(disks[Target].parts, disks'[Target].parts) /\ Whole(disks'[Target], volume)
  BY <1>1, StepIs, KeptSame, KeptFrom
<1>. QED  BY <1>1, <1>2, DiskStepOK

LEMMA VerifyOK == ASSUME PlanningInv, Verify PROVE PlanningInv'
<1>1. UNCHANGED <<disks, volume, ui, ed>>
  BY DEF Verify
<1>2. PICK phase \in {"failed", "verified"} : exec' = [exec EXCEPT !.phase = phase, !.todo = <<>>]
  BY DEF Verify
<1>3. ExecOK(exec', disks'[Target], volume')
  BY <1>2, StoppedOK DEF PlanningInv
<1>. QED  BY <1>1, <1>3 DEF PlanningInv

LEMMA ToolFailsOK == ASSUME PlanningInv, ToolFails PROVE PlanningInv'
<1>1. UNCHANGED <<ui, ed>>
  BY DEF ToolFails
<1>2. CASE IsTableCommand /\ disks' \in {disks, After(Step)} /\ OnFailure /\ UNCHANGED volume
  <2>1. exec.phase = "running" /\ Step.op \in {"mklabel", "mkpart", "flag", "rm"}
    BY <1>2 DEF IsTableCommand
  <2>2. /\ DisksOK(disks') /\ disks'[Target].path = disks[Target].path
        /\ From(disks[Target].parts, disks'[Target].parts) /\ Whole(disks'[Target], volume)
    BY <1>2, <2>1, CommandKept
  <2>. QED  BY <1>1, <1>2, <2>1, <2>2, FailureIs, DiskStepOK
<1>3. CASE /\ exec.phase = "running" /\ Step.op \in {"mkfs", "resizepart"}
           /\ disks' \in {disks, After(Step)} /\ Abort /\ UNCHANGED volume
  <2>1. /\ DisksOK(disks') /\ disks'[Target].path = disks[Target].path
        /\ From(disks[Target].parts, disks'[Target].parts) /\ Whole(disks'[Target], volume)
    BY <1>3, CommandKept
  <2>2. exec' = [exec EXCEPT !.phase = "failed"]
    BY <1>3 DEF Abort
  <2>. QED  BY <1>1, <1>3, <2>1, <2>2, DiskStepOK
<1>4. CASE Running("ntfsresize") /\ (volume' = volume \/ (StillSafe /\ volume' = ShrunkVolume)) /\ Abort /\ UNCHANGED disks
  <2>1. DOMAIN volume' = DOMAIN volume /\ Whole(disks'[Target], volume')
    BY <1>4, VolumeShrunk DEF PlanningInv
  <2>2. ExecOK(exec', disks'[Target], volume')
    BY <1>4, StoppedOK DEF Abort, PlanningInv
  <2>. QED  BY <1>1, <1>4, <2>1, <2>2 DEF PlanningInv
<1>5. disks' \in {disks} \cup (IF Fits(Step) THEN {After(Step)} ELSE {}) => disks' \in {disks, After(Step)}
  OBVIOUS
<1>6. volume' \in {volume} \cup (IF StillSafe THEN {ShrunkVolume} ELSE {})
        => volume' = volume \/ (StillSafe /\ volume' = ShrunkVolume)
  OBVIOUS
<1>. QED  BY <1>2, <1>3, <1>4, <1>5, <1>6, Zenon DEF ToolFails

LEMMA ExecutorOK == ASSUME PlanningInv, ExecutorStep PROVE PlanningInv'
BY PreflightOK, SwapOffOK, ResizeFilesystemOK, CommandStepOK, DevicesOK, VerifyOK, ToolFailsOK DEF ExecutorStep

-----------------------------------------------------------------------------
(* The theorem *)

LEMMA InitOK == PlanningInit => PlanningInv
<1>1. SUFFICES ASSUME PlanningInit PROVE PlanningInv
  OBVIOUS
<1>2. PICK m \in Machines : disks = m.disks
  BY <1>1 DEF PlanningInit
<1>3. /\ {Target, Live} \subseteq DOMAIN disks
      /\ \A d \in DOMAIN disks : IsDisk(disks[d])
      /\ \A d, e \in DOMAIN disks : disks[d].path = disks[e].path => d = e
  BY <1>2, MachineAssumption
<1>4. ASSUME NEW d \in DOMAIN disks PROVE DiskOK(disks[d])
  <2>1. IsDisk(disks[d])
    BY <1>3
  <2>2. \A p \in disks[d].parts : PartOK(p)
    BY <2>1 DEF IsDisk, IsPartition, PartOK
  <2>. QED  BY <2>1, <2>2 DEF IsDisk, DiskOK, PartsOK
<1>5. DisksOK(disks)
  BY <1>3, <1>4 DEF DisksOK
<1>6. DOMAIN volume = DOMAIN Volumes
  BY <1>1 DEF PlanningInit
<1>7. Whole(disks[Target], volume)
  <2>1. IsDisk(disks[Target])
    BY <1>3
  <2>2. ASSUME NEW p \in disks[Target].parts, p.fs = "ntfs", p.uuid \in DOMAIN Volumes
        PROVE  volume[p.uuid] <= p.size
    <3>. DEFINE here == {q \in NtfsIn(disks[Target]) : q.uuid = p.uuid}
    <3>1. here = {p}
      BY <2>1, <2>2 DEF IsDisk, NtfsIn
    <3>2. volume[p.uuid] = IF here = {} THEN 0 ELSE (CHOOSE q \in here : TRUE).size
      BY <1>1, <2>2 DEF PlanningInit
    <3>3. volume[p.uuid] = p.size
      <4>. HIDE DEF here
      <4>. QED  BY <3>1, <3>2
    <3>4. p.size \in Nat
      BY <2>1 DEF IsDisk, IsPartition
    <3>. QED  BY <3>3, <3>4
  <2>. QED  BY <1>6, <2>2 DEF Whole
<1>8. ChoicesOK(ui)
  BY <1>1, FreshOK DEF PlanningInit
<1>9. Editor(ed)
  BY <1>1, NewEditorOK DEF PlanningInit
<1>10. ExecOK(exec, disks[Target], volume)
  BY <1>1 DEF PlanningInit, Idle, ExecOK, ExecFields
<1>. QED  BY <1>5, <1>6, <1>7, <1>8, <1>9, <1>10 DEF PlanningInv

LEMMA NextOK == PlanningInv /\ [PlanningNext]_planningVars => PlanningInv'
<1>1. SUFFICES ASSUME PlanningInv, [PlanningNext]_planningVars PROVE PlanningInv'
  OBVIOUS
<1>2. CASE UNCHANGED planningVars
  <2>1. UNCHANGED <<disks, volume, exec, ui, ed>>
    BY <1>2 DEF planningVars
  <2>. QED  BY <1>1, <2>1, AsideOK DEF PlanningInv, WindowOK
<1>3. CASE PlanningNext
  BY <1>1, <1>3, WizardOK, EditorOK, ProbesOK, OthersOK, ExecutorOK DEF PlanningNext
<1>. QED  BY <1>1, <1>2, <1>3

(* Whatever the person chooses, whatever others do to the disks until the   *)
(* executor has looked, and wherever a tool fails or the machine stops, no  *)
(* partition of the target is smaller than the NTFS filesystem in it: the   *)
(* commands that _execute_ntfs_resizes runs find the volume already small   *)
(* enough at the path and number they were compiled for.                    *)
THEOREM ResizeAlwaysKeepsData == PlanningSpec => []ResizeKeepsData
<1>1. PlanningSpec => []PlanningInv
  BY InitOK, NextOK, PTL DEF PlanningSpec
<1>2. PlanningInv => ResizeKeepsData
  BY DEF PlanningInv, Whole, ResizeKeepsData
<1>. QED  BY <1>1, <1>2, PTL

-----------------------------------------------------------------------------
(* The last pages and the client *)

(* Types *)
Pages == {"user", "options", "timezone", "summary", "progress"}
Users == {"", "ann", "root", "rootuser"}
Fulls == {"", "Ann", "Root"}
Hosts == {"suggested", "typed", "capitals", "malformed"} \X (Users \cup {"box"})
Secrets == {"", "long", "other"}
Stages == {"none", "swap", "recheck", "dialog"}
Plans == {<<>>} \cup (Fulls \X Users \X Hosts \X (SUBSET {"ssh"}) \X {"home", "away"} \X (SUBSET {"updates"}))
Pcs == {"off", "start", "preflight", "begin", "work", "command", "ending", "cleanup", "cleanupAll",
        "final", "exiting", "ended"}
Colours == {"pending", "running", "succeeded", "skipped", "warning", "failed"}
AllLights == [DOMAIN Steps -> Colours]
Lines == {l \in [kind : {"status", "complete", "cut", "split"}, step : 0..Len(Steps), status : Colours \cup {""}] :
            l.kind = "status" => l.step # 0 /\ l.status # ""}
Callbacks == {c \in [id : Installs, kind : {"status", "done"}, step : 0..Len(Steps),
                     status : Colours \cup {"complete"}] :
                c.kind = "status" => c.step # 0 /\ c.status # "complete"}
RunRecords == [pc : Pcs, step : DOMAIN Steps, code : {0, 1}, pipe : Seq(Lines), wrapper : BOOLEAN,
               reader : {"none", "launch", "read", "done", "dead", "lost"}, lights : AllLights, plan : Plans]

PagesTypeOK ==
  /\ window \in [open : BOOLEAN, front : Pages, running : BOOLEAN]
  /\ form \in [full : Fulls, user : Users, pass : Secrets, again : Secrets, host : Hosts, userEdited : BOOLEAN]
  /\ shared \in [full : Fulls, user : Users, pass : Secrets, again : Secrets, host : Hosts,
                 hostEdited : BOOLEAN, options : SUBSET {"ssh"}, zone : {"home", "away"}, clear : BOOLEAN,
                 extras : SUBSET {"updates"}]
  /\ summary \in [shows : Plans, button : BOOLEAN, stage : Stages, plan : Plans, late : BOOLEAN]
  /\ left \in [faults : 0..MaxFaults, edits : Nat, backs : Nat]

RunsTypeOK ==
  /\ runs \in [Installs -> RunRecords]
  /\ idle \in Seq(Callbacks)
  /\ view \in [id : 0..MaxInstalls, lights : AllLights, warnings : Nat, result : {"none", "complete", "failed"}]

(* The pages: what the account page keeps of a computer name nobody edited,  *)
(* what was checked when it was left, and what the summary shows.            *)
NameFollows == ~shared.hostEdited /\ form.user # "" => form.host = SuggestHostname(form.user)
AccountSaved ==
  window.front # "user" =>
    /\ ValidUsername(shared.user) /\ shared.host[1] # "capitals"
    /\ ~shared.hostEdited => shared.host = SuggestHostname(shared.user)
SummaryShows == window.front \in {"summary", "progress"} => Agree(summary.shows, SummaryRows(shared), summary.late)
InProgress == summary.stage # "none" => window.open /\ window.front = "summary" /\ ~window.running
PlanIsMade == summary.stage = "dialog" => Agree(summary.plan, SummaryRows(shared), summary.late)

PagesInv == PagesTypeOK /\ NameFollows /\ AccountSaved /\ SummaryShows /\ InProgress /\ PlanIsMade

(* The executor: where it is in the pipeline, and what it has reported. *)
Place(pc, step, code, lights) ==
  /\ code = 0 => step = Len(Steps) /\ pc \in {"final", "exiting", "ended"}
  /\ pc \in {"off", "start", "preflight"} => \A s \in DOMAIN Steps : lights[s] = "pending"
  /\ pc = "begin" => \A s \in DOMAIN Steps : s >= step => lights[s] = "pending"
  /\ pc \in {"work", "command", "ending", "cleanup"} =>
       /\ lights[step] = "running"
       /\ \A s \in DOMAIN Steps : s > step => lights[s] = "pending"
RunOK(r) == Place(r.pc, r.step, r.code, r.lights)

(* What a sequence of lines or callbacks says of a step. *)
About(e, s) == e.kind = "status" /\ e.step = s
Silent(S, s) == \A n \in DOMAIN S : ~About(S[n], s)
LastOf(S, s, n) == About(S[n], s) /\ \A m \in DOMAIN S : m > n => ~About(S[m], s)
EndsWith(S, s, x) == \E n \in DOMAIN S : LastOf(S, s, n) /\ S[n].status = x
WarnsLast(S, s) == \A n \in DOMAIN S : About(S[n], s) /\ S[n].status = "warning" => LastOf(S, s, n)
Warns(S, s) == \E n \in DOMAIN S : About(S[n], s) /\ S[n].status = "warning"

Warned(lights) == {s \in DOMAIN Steps : lights[s] = "warning"}

\* The page, then the callbacks, then the pipe: the last of them to speak of a
\* step says what the executor reported last, and none speaks after a warning.
Tells(pipe, callbacks, shown, s, x) ==
  \/ EndsWith(pipe, s, x)
  \/ Silent(pipe, s) /\ EndsWith(callbacks, s, x)
  \/ Silent(pipe, s) /\ Silent(callbacks, s) /\ shown[s] = x
WarnedLast(pipe, callbacks, shown, s) ==
  /\ shown[s] = "warning" => Silent(callbacks, s) /\ Silent(pipe, s)
  /\ WarnsLast(callbacks, s) /\ WarnsLast(pipe, s)
  /\ Warns(callbacks, s) => Silent(pipe, s)
InStep(pipe, callbacks, shown, lights) ==
  \A s \in DOMAIN Steps : Tells(pipe, callbacks, shown, s, lights[s]) /\ WarnedLast(pipe, callbacks, shown, s)

\* One installation at a time, from _confirmed to on_done; the callback that
\* ends it is the last one.
OneFlow ==
  /\ \A i \in Installs : runs[i].reader \in {"launch", "read", "dead"} =>
       window.open /\ window.running /\ view.id = i
  /\ idle # <<>> => window.open /\ window.running /\ view.id # 0 /\ view.result = "none"
  /\ \A n \in DOMAIN idle :
       /\ idle[n].id = view.id
       /\ idle[n].kind = "done" => /\ n = Len(idle) /\ runs[view.id].reader = "done"
                                   /\ idle[n].status \in {"complete", "failed"}
                                   /\ idle[n].status = "complete" => runs[view.id].code = 0
Watched ==
  view.id # 0 =>
    /\ window.open /\ runs[view.id].reader \in {"launch", "read", "done", "dead"}
    /\ runs[view.id].reader = "launch" => runs[view.id].pc = "off"
    /\ runs[view.id].reader = "done" => runs[view.id].pipe = <<>> /\ ~Alive(view.id)
    /\ InStep(runs[view.id].pipe, idle, view.lights, runs[view.id].lights)
Shown ==
  /\ view.warnings = Cardinality(Warned(view.lights))
  /\ view.result # "none" => /\ view.id # 0 /\ runs[view.id].reader = "done" /\ idle = <<>>
                             /\ view.result = "complete" => runs[view.id].code = 0
Unlaunched == \A i \in Installs : runs[i].reader = "launch" => runs[i].pipe = <<>>
LossIsFault == \A i \in Installs : runs[i].reader = "lost" => left.faults < MaxFaults

RunsInv ==
  /\ RunsTypeOK /\ (\A i \in Installs : RunOK(runs[i])) /\ OneFlow /\ Watched /\ Shown
  /\ Unlaunched /\ LossIsFault

FinishInv == PagesInv /\ RunsInv

-----------------------------------------------------------------------------
(* Sequences of lines and callbacks *)

\* One more element that is not about a step changes nothing for it.
LEMMA AppendOther ==
  ASSUME NEW E, NEW S \in Seq(E), NEW e \in E, NEW s, NEW x, ~About(e, s)
  PROVE  /\ Silent(Append(S, e), s) <=> Silent(S, s)
         /\ EndsWith(S, s, x) => EndsWith(Append(S, e), s, x)
         /\ WarnsLast(S, s) => WarnsLast(Append(S, e), s)
         /\ Warns(Append(S, e), s) <=> Warns(S, s)
<1>. DEFINE A == Append(S, e)
<1>1. /\ Len(S) \in Nat /\ DOMAIN S = 1..Len(S) /\ DOMAIN A = 1..(Len(S) + 1)
      /\ (\A n \in DOMAIN S : A[n] = S[n]) /\ A[Len(S) + 1] = e
  OBVIOUS
<1>. HIDE DEF A
<1>2. \A n \in DOMAIN A : About(A[n], s) => n \in DOMAIN S
  BY <1>1
<1>3. \A n \in DOMAIN S : LastOf(S, s, n) => LastOf(A, s, n)
  BY <1>1, <1>2 DEF LastOf
<1>4. (Silent(A, s) <=> Silent(S, s)) /\ (Warns(A, s) <=> Warns(S, s))
  BY <1>1, <1>2 DEF Silent, Warns
<1>5. EndsWith(S, s, x) => EndsWith(A, s, x)
  BY <1>1, <1>3 DEF EndsWith
<1>6. WarnsLast(S, s) => WarnsLast(A, s)
  BY <1>1, <1>2, <1>3 DEF WarnsLast
<1>. QED  BY <1>4, <1>5, <1>6 DEF A

\* One more element about a step is the last that is.
LEMMA AppendThis ==
  ASSUME NEW E, NEW S \in Seq(E), NEW e \in E, NEW s, About(e, s)
  PROVE  /\ EndsWith(Append(S, e), s, e.status)
         /\ ~Warns(S, s) => WarnsLast(Append(S, e), s)
         /\ Warns(Append(S, e), s) => Warns(S, s) \/ e.status = "warning"
<1>. DEFINE A == Append(S, e)
<1>1. /\ Len(S) \in Nat /\ DOMAIN S = 1..Len(S) /\ DOMAIN A = 1..(Len(S) + 1)
      /\ (\A n \in DOMAIN S : A[n] = S[n]) /\ A[Len(S) + 1] = e
  OBVIOUS
<1>. HIDE DEF A
<1>2. \A n \in DOMAIN A : n \in DOMAIN S \/ n = Len(S) + 1
  BY <1>1
<1>3. Len(S) + 1 \in DOMAIN A /\ LastOf(A, s, Len(S) + 1)
  BY <1>1 DEF LastOf
<1>4. EndsWith(A, s, e.status)
  BY <1>1, <1>3 DEF EndsWith
<1>5. ~Warns(S, s) => WarnsLast(A, s)
  BY <1>1, <1>2, <1>3 DEF Warns, WarnsLast
<1>6. Warns(A, s) => Warns(S, s) \/ e.status = "warning"
  BY <1>1, <1>2 DEF Warns
<1>. QED  BY <1>4, <1>5, <1>6 DEF A

\* The first element is taken: what remains.
LEMMA TailSays ==
  ASSUME NEW E, NEW S \in Seq(E), S # <<>>, NEW s, NEW x
  PROVE  /\ Silent(S, s) => Silent(Tail(S), s)
         /\ Warns(Tail(S), s) => Warns(S, s)
         /\ WarnsLast(S, s) => WarnsLast(Tail(S), s)
         /\ ~About(Head(S), s) /\ Silent(Tail(S), s) => Silent(S, s)
         /\ EndsWith(S, s, x) => \/ EndsWith(Tail(S), s, x)
                                 \/ About(Head(S), s) /\ Head(S).status = x /\ Silent(Tail(S), s)
         /\ About(Head(S), s) => ~Silent(S, s)
         /\ About(Head(S), s) /\ Head(S).status = "warning" => Warns(S, s)
         /\ WarnsLast(S, s) /\ About(Head(S), s) /\ Head(S).status = "warning" => Silent(Tail(S), s)
<1>. DEFINE T == Tail(S)
<1>1. /\ Len(S) \in Nat \ {0} /\ DOMAIN S = 1..Len(S) /\ DOMAIN T = 1..(Len(S) - 1)
      /\ (\A n \in DOMAIN T : T[n] = S[n + 1]) /\ Head(S) = S[1]
  OBVIOUS
<1>. HIDE DEF T
<1>2. \A n \in DOMAIN T : n + 1 \in DOMAIN S
  BY <1>1
<1>3. \A n \in DOMAIN S : n = 1 \/ (n - 1 \in DOMAIN T /\ T[n - 1] = S[n])
  BY <1>1
<1>4. \A n \in DOMAIN T : LastOf(S, s, n + 1) => LastOf(T, s, n)
  BY <1>1, <1>2 DEF LastOf
<1>5. LastOf(S, s, 1) => Silent(T, s)
  BY <1>1, <1>2 DEF LastOf, Silent
<1>6. 1 \in DOMAIN S
  BY <1>1
<1>7. (Silent(S, s) => Silent(T, s)) /\ (~About(Head(S), s) /\ Silent(T, s) => Silent(S, s))
  BY <1>1, <1>2, <1>3 DEF Silent
<1>8. Warns(T, s) => Warns(S, s)
  BY <1>1, <1>2 DEF Warns
<1>9. WarnsLast(S, s) => WarnsLast(T, s)
  BY <1>1, <1>2, <1>4 DEF WarnsLast
<1>10. EndsWith(S, s, x) => EndsWith(T, s, x) \/ (About(Head(S), s) /\ Head(S).status = x /\ Silent(T, s))
  <2>. SUFFICES ASSUME NEW n \in DOMAIN S, LastOf(S, s, n), S[n].status = x
                PROVE  EndsWith(T, s, x) \/ (About(Head(S), s) /\ Head(S).status = x /\ Silent(T, s))
    BY DEF EndsWith
  <2>1. CASE n = 1
    BY <1>1, <1>5, <2>1 DEF LastOf
  <2>2. CASE n # 1
    <3>1. PICK m \in DOMAIN T : n = m + 1 /\ T[m] = S[n]
      BY <1>1, <1>3, <2>2
    <3>. QED  BY <1>4, <3>1 DEF EndsWith
  <2>. QED  BY <2>1, <2>2
<1>11. About(Head(S), s) => ~Silent(S, s)
  BY <1>1, <1>6 DEF Silent
<1>12. About(Head(S), s) /\ Head(S).status = "warning" => Warns(S, s)
  BY <1>1, <1>6 DEF Warns
<1>13. WarnsLast(S, s) /\ About(Head(S), s) /\ Head(S).status = "warning" => Silent(T, s)
  BY <1>1, <1>5, <1>6 DEF WarnsLast
<1>. QED  BY <1>7, <1>8, <1>9, <1>10, <1>11, <1>12, <1>13 DEF T

\* Nothing is about a step in an empty sequence.
LEMMA EmptySays ==
  ASSUME NEW s
  PROVE  Silent(<<>>, s) /\ WarnsLast(<<>>, s) /\ ~Warns(<<>>, s)
BY DEF Silent, WarnsLast, Warns

\* A sequence whose last word on a step is not a warning has none on it.
LEMMA WarningIsLast ==
  ASSUME NEW E, NEW S \in Seq(E), NEW s, NEW x, WarnsLast(S, s), EndsWith(S, s, x), x # "warning"
  PROVE  ~Warns(S, s)
<1>1. PICK n \in DOMAIN S : LastOf(S, s, n) /\ S[n].status = x
  BY DEF EndsWith
<1>2. \A m \in DOMAIN S : m \in Nat
  OBVIOUS
<1>3. ASSUME NEW m \in DOMAIN S, About(S[m], s), S[m].status = "warning" PROVE FALSE
  <2>1. LastOf(S, s, m) /\ m # n
    BY <1>1, <1>3 DEF WarnsLast
  <2>. QED  BY <1>1, <1>2, <2>1 DEF LastOf
<1>. QED  BY <1>3 DEF Warns

LEMMA EmptySequence ==
  ASSUME NEW E
  PROVE  <<>> \in Seq(E) /\ DOMAIN <<>> = {}
OBVIOUS

-----------------------------------------------------------------------------
(* The pages *)

LeftType == [faults : 0..MaxFaults, edits : Nat, backs : Nat]

\* What may still happen only becomes less.
LEMMA LeftShrinks ==
  ASSUME left \in LeftType, Fault \/ OneEdit \/ OneBack \/ UNCHANGED left
  PROVE  /\ left' \in LeftType /\ left'.faults <= left.faults
         /\ left.faults < MaxFaults => left'.faults < MaxFaults
         /\ Fault => left'.faults < MaxFaults
<1>. USE FinishBounds DEF LeftType
<1>1. CASE Fault
  BY <1>1 DEF Fault
<1>2. CASE OneEdit
  BY <1>2 DEF OneEdit, Fault
<1>3. CASE OneBack
  BY <1>3 DEF OneBack, Fault
<1>4. CASE UNCHANGED left
  BY <1>4 DEF Fault
<1>. QED  BY <1>1, <1>2, <1>3, <1>4

\* The host names that are suggested, or made canonical.
LEMMA HostTypes ==
  /\ \A u \in Users : SuggestHostname(u) \in Hosts /\ SuggestHostname(u)[1] = "suggested"
  /\ \A h \in Hosts : NormalizeHostname(h) \in Hosts /\ NormalizeHostname(h)[1] # "capitals"
  /\ <<"capitals", "box">> \in Hosts /\ <<"malformed", "box">> \in Hosts
<1>1. \A u \in Users : SuggestHostname(u) \in Hosts /\ SuggestHostname(u)[1] = "suggested"
  BY DEF SuggestHostname, Hosts, Users
<1>2. ASSUME NEW h \in Hosts PROVE NormalizeHostname(h) \in Hosts /\ NormalizeHostname(h)[1] # "capitals"
  BY <1>2 DEF NormalizeHostname, Hosts
<1>. QED  BY <1>1, <1>2 DEF Hosts

LEMMA ChoicesType ==
  ASSUME PagesTypeOK
  PROVE  SummaryRows(shared) \in Plans
BY DEF PagesTypeOK, SummaryRows, Plans

\* Steps of anybody else leave the pages as they are.
LEMMA PagesStutter ==
  ASSUME PagesInv, UNCHANGED <<window, form, shared, summary>>, left' \in LeftType
  PROVE  PagesInv'
<1>1. window' = window /\ form' = form /\ shared' = shared /\ summary' = summary
  OBVIOUS
<1>2. PagesTypeOK'
  BY <1>1 DEF PagesInv, PagesTypeOK, LeftType
<1>3. NameFollows' /\ AccountSaved'
  BY <1>1 DEF PagesInv, NameFollows, AccountSaved
<1>4. SummaryShows' /\ InProgress' /\ PlanIsMade'
  BY <1>1 DEF PagesInv, SummaryShows, InProgress, PlanIsMade
<1>. QED  BY <1>2, <1>3, <1>4 DEF PagesInv

\* What is typed on the account page.
LEMMA TypeFullNameKeeps ==
  ASSUME PagesInv, TypeFullName
  PROVE  PagesInv'
<1>1. /\ window.open /\ window.front = "user" /\ summary.stage = "none" /\ UNCHANGED <<window, summary>>
      /\ PagesTypeOK /\ NameFollows /\ InProgress
  BY DEF TypeFullName, At, Asked, PagesInv, InProgress, PagesTypeOK, Stages
<1>2. PICK full \in {"Ann", "Root"} :
        /\ shared' = [shared EXCEPT !.full = full]
        /\ form' = IF form.userEdited THEN [form EXCEPT !.full = full]
                   ELSE Followed([form EXCEPT !.full = full, !.user = SuggestUsername(full)], SuggestUsername(full))
  BY DEF TypeFullName
<1>3. PICK user : user = SuggestUsername(full)
  OBVIOUS
<1>4. user \in Users /\ user # "" /\ SuggestHostname(user) \in Hosts
  <2>1. CASE full = "Ann"
    BY <1>3, <2>1, HostTypes DEF SuggestUsername, Users
  <2>2. CASE full = "Root"
    BY <1>3, <2>2, HostTypes DEF SuggestUsername, Users
  <2>. QED  BY <2>1, <2>2
<1>5. left' \in LeftType
  BY <1>1, LeftShrinks DEF TypeFullName, PagesTypeOK, LeftType
<1>6. /\ form' \in [full : Fulls, user : Users, pass : Secrets, again : Secrets, host : Hosts, userEdited : BOOLEAN]
      /\ ~shared.hostEdited /\ form'.user # "" => form'.host = SuggestHostname(form'.user)
  <2>1. CASE form.userEdited
    BY <1>1, <1>2, <2>1 DEF PagesTypeOK, Fulls, NameFollows
  <2>2. CASE ~form.userEdited /\ shared.hostEdited
    <3>1. form' = [form EXCEPT !.full = full, !.user = user]
      BY <1>2, <1>3, <2>2 DEF Followed
    <3>. QED  BY <1>1, <1>4, <2>2, <3>1 DEF PagesTypeOK, Fulls
  <2>3. CASE ~form.userEdited /\ ~shared.hostEdited
    <3>1. form' = [form EXCEPT !.full = full, !.user = user, !.host = SuggestHostname(user)]
      BY <1>2, <1>3, <2>3 DEF Followed
    <3>. QED  BY <1>1, <1>4, <3>1 DEF PagesTypeOK, Fulls
  <2>. QED  BY <2>1, <2>2, <2>3
<1>7. PagesTypeOK'
  BY <1>1, <1>2, <1>5, <1>6 DEF PagesTypeOK, LeftType, Fulls
<1>8. NameFollows'
  BY <1>1, <1>2, <1>6 DEF NameFollows, PagesTypeOK
<1>. QED  BY <1>1, <1>7, <1>8 DEF PagesInv, AccountSaved, SummaryShows, InProgress, PlanIsMade

LEMMA TypeOthersKeep ==
  ASSUME PagesInv, TypeUsername \/ TypeHostname \/ TypePasswords
  PROVE  PagesInv'
<1>1. /\ window.open /\ window.front = "user" /\ summary.stage = "none" /\ UNCHANGED <<window, summary>>
      /\ PagesTypeOK /\ NameFollows /\ InProgress
  BY DEF TypeUsername, TypeHostname, TypePasswords, At, Asked, PagesInv, InProgress, PagesTypeOK, Stages
<1>2. left' \in LeftType
  BY <1>1, LeftShrinks DEF TypeUsername, TypeHostname, TypePasswords, PagesTypeOK, LeftType
<1>3. CASE TypeUsername
  <2>1. PICK user \in {"ann", "root"} :
          form' = Followed([form EXCEPT !.user = user, !.userEdited = TRUE], user)
    BY <1>3 DEF TypeUsername
  <2>2. user \in Users /\ SuggestHostname(user) \in Hosts /\ shared' = shared
    BY <1>3, HostTypes DEF Users, TypeUsername
  <2>3. CASE shared.hostEdited
    BY <1>1, <1>2, <2>1, <2>2, <2>3 DEF Followed, PagesInv, PagesTypeOK, NameFollows, AccountSaved, SummaryShows,
       InProgress, PlanIsMade, LeftType
  <2>4. CASE ~shared.hostEdited
    <3>1. form' = [form EXCEPT !.user = user, !.userEdited = TRUE, !.host = SuggestHostname(user)]
      BY <2>1, <2>4 DEF Followed
    <3>. QED  BY <1>1, <1>2, <2>2, <3>1 DEF PagesInv, PagesTypeOK, NameFollows, AccountSaved, SummaryShows,
              InProgress, PlanIsMade, LeftType
  <2>. QED  BY <2>3, <2>4
<1>4. CASE TypeHostname
  <2>1. PICK host \in {<<"capitals", "box">>, <<"malformed", "box">>} : form' = [form EXCEPT !.host = host]
    BY <1>4 DEF TypeHostname
  <2>2. host \in Hosts
    BY HostTypes
  <2>3. shared' = [shared EXCEPT !.hostEdited = TRUE]
    BY <1>4 DEF TypeHostname
  <2>. QED  BY <1>1, <1>2, <2>1, <2>2, <2>3 DEF PagesInv, PagesTypeOK, NameFollows, AccountSaved, SummaryShows,
              InProgress, PlanIsMade, LeftType
<1>5. CASE TypePasswords
  <2>1. PICK again \in {"long", "other"} : form' = [form EXCEPT !.pass = "long", !.again = again]
    BY <1>5 DEF TypePasswords
  <2>2. shared' = shared /\ again \in Secrets /\ "long" \in Secrets
    BY <1>5 DEF TypePasswords, Secrets
  <2>3. form' \in [full : Fulls, user : Users, pass : Secrets, again : Secrets, host : Hosts, userEdited : BOOLEAN]
    BY <1>1, <2>1, <2>2 DEF PagesTypeOK
  <2>4. form'.user = form.user /\ form'.host = form.host
    BY <1>1, <2>1 DEF PagesTypeOK
  <2>. QED  BY <1>1, <1>2, <2>2, <2>3, <2>4 DEF PagesInv, PagesTypeOK, NameFollows, AccountSaved, SummaryShows,
              InProgress, PlanIsMade, LeftType
<1>. QED  BY <1>3, <1>4, <1>5

\* Next saves an account that is valid, with its name made canonical; Back
\* builds the page anew.
LEMMA NextFromUserKeeps ==
  ASSUME PagesInv, NextFromUser
  PROVE  PagesInv'
<1>. DEFINE host == NormalizeHostname(form.host)
<1>1. /\ PagesTypeOK /\ NameFollows /\ InProgress /\ window.front = "user" /\ summary.stage = "none" /\ FormValid
      /\ window' = [window EXCEPT !.front = "options"] /\ UNCHANGED <<summary, left>>
      /\ form' = [form EXCEPT !.host = host]
      /\ shared' = [shared EXCEPT !.user = form.user, !.pass = form.pass, !.again = form.again,
                                  !.host = host, !.hostEdited = @ \/ host # form.host]
  BY DEF NextFromUser, At, Asked, PagesInv, PagesTypeOK, Stages, InProgress
<1>2. host \in Hosts /\ host[1] # "capitals"
  BY <1>1, HostTypes DEF PagesTypeOK
<1>. HIDE DEF host
<1>3. /\ form'.host = host /\ form'.user = form.user /\ window'.front = "options"
      /\ shared'.user = form.user /\ shared'.host = host
      /\ shared'.hostEdited = (shared.hostEdited \/ host # form.host)
  BY <1>1 DEF PagesTypeOK
<1>4. PagesTypeOK'
  BY <1>1, <1>2 DEF PagesTypeOK, Pages
<1>5. form.user # "" /\ ValidUsername(form.user)
  BY <1>1 DEF FormValid, ValidUsername
<1>6. ~shared'.hostEdited => host = SuggestHostname(form.user)
  BY <1>1, <1>3, <1>5 DEF NameFollows
<1>7. NameFollows' /\ AccountSaved'
  BY <1>2, <1>3, <1>5, <1>6 DEF NameFollows, AccountSaved, SuggestHostname, ValidUsername
<1>. QED  BY <1>1, <1>3, <1>4, <1>7 DEF PagesInv, SummaryShows, InProgress, PlanIsMade

LEMMA BackFromUserKeeps ==
  ASSUME PagesInv, BackFromUser
  PROVE  PagesInv'
<1>1. /\ PagesTypeOK /\ window.front = "user" /\ summary.stage = "none"
      /\ UNCHANGED <<window, summary>> /\ shared' = [shared EXCEPT !.clear = TRUE]
      /\ form' = [full |-> "", user |-> "", pass |-> "", again |-> "", host |-> shared.host, userEdited |-> FALSE]
  BY DEF BackFromUser, At, Asked, PagesInv, PagesTypeOK, Stages, InProgress, NewForm
<1>2. left' \in LeftType
  BY <1>1, LeftShrinks DEF BackFromUser, PagesTypeOK, LeftType
<1>3. PagesTypeOK' /\ form'.user = ""
  BY <1>1, <1>2 DEF PagesTypeOK, LeftType, Fulls, Users, Secrets
<1>. QED  BY <1>1, <1>3 DEF PagesInv, NameFollows, AccountSaved, SummaryShows, InProgress, PlanIsMade

\* Access options and timezone: the account stays as it was saved.
LEMMA OptionsKeep ==
  ASSUME PagesInv, ToggleOption \/ ChooseZone
  PROVE  PagesInv'
<1>1. /\ PagesTypeOK /\ NameFollows /\ AccountSaved /\ window.front \in {"options", "timezone"}
      /\ summary.stage = "none" /\ UNCHANGED <<window, form, summary>>
  BY DEF ToggleOption, ChooseZone, At, Asked, PagesInv, PagesTypeOK, Stages, InProgress
<1>2. left' \in LeftType
  BY <1>1, LeftShrinks DEF ToggleOption, ChooseZone, PagesTypeOK, LeftType
<1>3. \E o \in SUBSET {"ssh"}, z \in {"home", "away"} : shared' = [shared EXCEPT !.options = o, !.zone = z]
  <2>1. CASE ToggleOption
    <3>1. PICK o \in SUBSET {"ssh"} : o = IF shared.options = {} THEN {"ssh"} ELSE {}
      OBVIOUS
    <3>2. shared' = [shared EXCEPT !.options = o]
      BY <2>1, <3>1 DEF ToggleOption
    <3>3. shared' = [shared EXCEPT !.options = o, !.zone = shared.zone] /\ shared.zone \in {"home", "away"}
      BY <1>1, <3>2 DEF PagesTypeOK
    <3>. QED  BY <3>3
  <2>2. CASE ChooseZone
    <3>1. PICK z \in {"home", "away"} : z = IF shared.zone = "home" THEN "away" ELSE "home"
      OBVIOUS
    <3>2. shared' = [shared EXCEPT !.zone = z]
      BY <2>2, <3>1 DEF ChooseZone
    <3>3. shared' = [shared EXCEPT !.options = shared.options, !.zone = z] /\ shared.options \in SUBSET {"ssh"}
      BY <1>1, <3>2 DEF PagesTypeOK
    <3>. QED  BY <3>3
  <2>. QED  BY <2>1, <2>2
<1>4. /\ shared' \in [full : Fulls, user : Users, pass : Secrets, again : Secrets, host : Hosts,
                      hostEdited : BOOLEAN, options : SUBSET {"ssh"}, zone : {"home", "away"}, clear : BOOLEAN,
                      extras : SUBSET {"updates"}]
      /\ shared'.user = shared.user /\ shared'.host = shared.host /\ shared'.hostEdited = shared.hostEdited
  BY <1>1, <1>3 DEF PagesTypeOK
<1>5. PagesTypeOK'
  BY <1>1, <1>2, <1>4 DEF PagesTypeOK, LeftType
<1>. QED  BY <1>1, <1>4, <1>5 DEF PagesInv, NameFollows, AccountSaved, SummaryShows, InProgress, PlanIsMade,
          SuggestHostname, ValidUsername

\* From page to page: the summary is built of the choices as they are.
LEMMA NextPagesKeep ==
  ASSUME PagesInv, NextFromOptions \/ NextFromTimezone
  PROVE  PagesInv'
<1>1. /\ PagesTypeOK /\ NameFollows /\ AccountSaved /\ window.front \in {"options", "timezone"}
      /\ summary.stage = "none" /\ UNCHANGED <<form, shared>>
  BY DEF NextFromOptions, NextFromTimezone, At, Asked, PagesInv, PagesTypeOK, Stages, InProgress
<1>2. left' \in LeftType
  BY <1>1, LeftShrinks DEF NextFromOptions, NextFromTimezone, PagesTypeOK, LeftType
<1>3. CASE NextFromOptions
  <2>1. window' = [window EXCEPT !.front = "timezone"] /\ summary' = summary
    BY <1>3 DEF NextFromOptions
  <2>2. PagesTypeOK' /\ window'.front = "timezone"
    BY <1>1, <1>2, <2>1 DEF PagesTypeOK, LeftType, Pages
  <2>. QED  BY <1>1, <2>1, <2>2 DEF PagesInv, NameFollows, AccountSaved, SummaryShows, InProgress, PlanIsMade,
            SuggestHostname, ValidUsername
<1>4. CASE NextFromTimezone
  <2>1. PICK probed \in BOOLEAN :
          summary' = [shows |-> SummaryRows(shared), button |-> probed, stage |-> "none", plan |-> <<>>,
                      late |-> FALSE]
    BY <1>4 DEF NextFromTimezone
  <2>2. window' = [window EXCEPT !.front = "summary"]
    BY <1>4 DEF NextFromTimezone
  <2>3. SummaryRows(shared) \in Plans /\ <<>> \in Plans /\ SummaryRows(shared') = SummaryRows(shared)
    BY <1>1, ChoicesType DEF Plans
  <2>4. summary' \in [shows : Plans, button : BOOLEAN, stage : Stages, plan : Plans, late : BOOLEAN]
        /\ summary'.shows = SummaryRows(shared) /\ summary'.stage = "none"
    BY <2>1, <2>3 DEF Stages
  <2>5. PagesTypeOK' /\ window'.front = "summary"
    BY <1>1, <1>2, <2>2, <2>4 DEF PagesTypeOK, LeftType, Pages
  <2>. QED  BY <1>1, <2>3, <2>4, <2>5 DEF PagesInv, NameFollows, AccountSaved, SummaryShows, InProgress, PlanIsMade,
            SuggestHostname, ValidUsername, Agree
<1>. QED  BY <1>3, <1>4

\* network-changed: only the row of the online choices may differ from then on.
LEMMA NetworkKeeps ==
  ASSUME PagesInv, NetworkChanges
  PROVE  PagesInv'
<1>1. /\ PagesTypeOK /\ NameFollows /\ AccountSaved /\ SummaryShows /\ InProgress /\ PlanIsMade
      /\ UNCHANGED <<window, form>> /\ summary' = [summary EXCEPT !.late = TRUE]
  BY DEF NetworkChanges, PagesInv
<1>2. PICK extras \in SUBSET {"updates"} : shared' = [shared EXCEPT !.extras = extras]
  BY DEF NetworkChanges, Extras
<1>3. left' \in LeftType
  BY <1>1, LeftShrinks DEF NetworkChanges, PagesTypeOK, LeftType
<1>4. /\ shared' \in [full : Fulls, user : Users, pass : Secrets, again : Secrets, host : Hosts,
                      hostEdited : BOOLEAN, options : SUBSET {"ssh"}, zone : {"home", "away"}, clear : BOOLEAN,
                      extras : SUBSET {"updates"}]
      /\ shared'.user = shared.user /\ shared'.host = shared.host /\ shared'.hostEdited = shared.hostEdited
      /\ shared'.full = shared.full /\ shared'.options = shared.options /\ shared'.zone = shared.zone
  BY <1>1, <1>2 DEF PagesTypeOK
<1>5. /\ summary' \in [shows : Plans, button : BOOLEAN, stage : Stages, plan : Plans, late : BOOLEAN] /\ summary'.late
      /\ summary'.shows = summary.shows /\ summary'.stage = summary.stage /\ summary'.plan = summary.plan
  BY <1>1 DEF PagesTypeOK
<1>6. PagesTypeOK'
  BY <1>1, <1>3, <1>4, <1>5 DEF PagesTypeOK, LeftType
<1>7. \A row \in 1..5 : SummaryRows(shared')[row] = SummaryRows(shared)[row]
  BY <1>4 DEF SummaryRows
<1>8. \A rows : Agree(rows, SummaryRows(shared), summary.late) => Agree(rows, SummaryRows(shared'), summary'.late)
  BY <1>5, <1>7 DEF Agree
<1>. QED  BY <1>1, <1>4, <1>5, <1>6, <1>8 DEF PagesInv, NameFollows, AccountSaved, SummaryShows, InProgress, PlanIsMade,
          SuggestHostname, ValidUsername

\* A step of the summary page: its stage is one of a page that is in front, and
\* its plan is made of the choices as they are now, which are those it shows.
LEMMA SummaryStep ==
  ASSUME PagesInv, UNCHANGED <<window, form, shared>>, left' \in LeftType,
         window.open, window.front = "summary", ~window.running,
         NEW stage \in Stages, NEW button \in BOOLEAN, NEW plan \in Plans,
         stage = "dialog" => plan = SummaryRows(shared),
         summary' = [summary EXCEPT !.stage = stage, !.button = button, !.plan = plan]
  PROVE  PagesInv'
<1>1. PagesTypeOK /\ NameFollows /\ AccountSaved /\ SummaryShows
  BY DEF PagesInv
<1>2. /\ summary' \in [shows : Plans, button : BOOLEAN, stage : Stages, plan : Plans, late : BOOLEAN]
      /\ summary'.shows = summary.shows /\ summary'.stage = stage /\ summary'.plan = plan
      /\ summary'.late = summary.late
  BY <1>1 DEF PagesTypeOK
<1>3. PagesTypeOK'
  BY <1>1, <1>2 DEF PagesTypeOK, LeftType
<1>4. SummaryRows(shared') = SummaryRows(shared)
  OBVIOUS
<1>5. stage = "dialog" => Agree(plan, SummaryRows(shared), summary.late)
  BY DEF Agree
<1>. QED  BY <1>1, <1>2, <1>3, <1>4, <1>5 DEF PagesInv, NameFollows, AccountSaved, SummaryShows, InProgress, PlanIsMade,
          SuggestHostname, ValidUsername

\* on_install, the answers to its dialogs, and _apply_recheck.
LEMMA SummaryKeeps ==
  ASSUME PagesInv, PressInstall \/ AnswerSwap \/ DeliverRecheck \/ CancelDialog
  PROVE  PagesInv'
<1>1. PagesTypeOK /\ InProgress
  BY DEF PagesInv
<1>2. /\ UNCHANGED <<window, form, shared>> /\ window.open /\ window.front = "summary" /\ ~window.running
  BY <1>1 DEF PressInstall, AnswerSwap, DeliverRecheck, CancelDialog, At, MayInstall, InProgress
<1>3. left' \in LeftType
  BY <1>1, LeftShrinks DEF PressInstall, AnswerSwap, DeliverRecheck, CancelDialog, PagesTypeOK, LeftType
<1>4. SummaryRows(shared) \in Plans /\ <<>> \in Plans /\ summary.plan \in Plans
  BY <1>1, ChoicesType DEF PagesTypeOK, Plans
<1>5. CASE PressInstall
  <2>1. PICK stage \in {"swap", "recheck"} : summary' = [summary EXCEPT !.button = FALSE, !.stage = stage]
    BY <1>5 DEF PressInstall
  <2>2. summary' = [summary EXCEPT !.stage = stage, !.button = FALSE, !.plan = summary.plan]
    BY <1>1, <2>1 DEF PagesTypeOK
  <2>. QED  BY <1>2, <1>3, <1>4, <2>2, SummaryStep DEF Stages
<1>6. CASE AnswerSwap
  <2>1. PICK goOn \in BOOLEAN :
          summary' = [summary EXCEPT !.stage = IF goOn THEN "recheck" ELSE "none", !.button = ~goOn]
    BY <1>6 DEF AnswerSwap
  <2>2. PICK stage \in {"recheck", "none"} : stage = IF goOn THEN "recheck" ELSE "none"
    OBVIOUS
  <2>3. PICK button \in BOOLEAN : button = ~goOn
    OBVIOUS
  <2>4. summary' = [summary EXCEPT !.stage = stage, !.button = button, !.plan = summary.plan]
    BY <1>1, <2>1, <2>2, <2>3 DEF PagesTypeOK
  <2>. QED  BY <1>2, <1>3, <1>4, <2>4, SummaryStep DEF Stages
<1>7. CASE DeliverRecheck
  <2>1. \/ summary' = [summary EXCEPT !.stage = "dialog", !.plan = SummaryRows(shared)]
        \/ summary' = [summary EXCEPT !.stage = "none", !.button = TRUE]
    BY <1>7 DEF DeliverRecheck
  <2>2. summary.button \in BOOLEAN
    BY <1>1 DEF PagesTypeOK
  <2>3. \/ summary' = [summary EXCEPT !.stage = "dialog", !.button = summary.button, !.plan = SummaryRows(shared)]
        \/ summary' = [summary EXCEPT !.stage = "none", !.button = TRUE, !.plan = summary.plan]
    BY <1>1, <2>1 DEF PagesTypeOK
  <2>. QED  BY <1>2, <1>3, <1>4, <2>2, <2>3, SummaryStep DEF Stages
<1>8. CASE CancelDialog
  BY <1>2, <1>3, <1>4, <1>8, SummaryStep DEF CancelDialog, Stages
<1>. QED  BY <1>5, <1>6, <1>7, <1>8

\* _confirmed: the passwords are cleared, the choices are not.
LEMMA ConfirmPages ==
  ASSUME PagesInv, Confirm
  PROVE  PagesInv'
<1>1. /\ PagesTypeOK /\ NameFollows /\ AccountSaved /\ SummaryShows /\ InProgress
      /\ summary.stage = "dialog" /\ shared' = Cleared(shared) /\ form' = ClearedForm(form)
      /\ window' = [window EXCEPT !.running = TRUE, !.front = "progress"]
      /\ summary' = [summary EXCEPT !.stage = "none", !.plan = <<>>] /\ left' = left
  BY DEF Confirm, PagesInv
<1>2. /\ shared' \in [full : Fulls, user : Users, pass : Secrets, again : Secrets, host : Hosts,
                      hostEdited : BOOLEAN, options : SUBSET {"ssh"}, zone : {"home", "away"}, clear : BOOLEAN,
                      extras : SUBSET {"updates"}]
      /\ shared'.user = shared.user /\ shared'.host = shared.host /\ shared'.hostEdited = shared.hostEdited
      /\ SummaryRows(shared') = SummaryRows(shared)
  BY <1>1 DEF PagesTypeOK, Cleared, Secrets, SummaryRows
<1>3. /\ form' \in [full : Fulls, user : Users, pass : Secrets, again : Secrets, host : Hosts, userEdited : BOOLEAN]
      /\ form'.user = form.user /\ form'.host = form.host
  BY <1>1 DEF PagesTypeOK, ClearedForm, Secrets
<1>4. /\ summary' \in [shows : Plans, button : BOOLEAN, stage : Stages, plan : Plans, late : BOOLEAN]
      /\ summary'.shows = summary.shows /\ summary'.stage = "none" /\ summary'.late = summary.late
  <2>1. <<>> \in Plans /\ "none" \in Stages
    BY DEF Plans, Stages
  <2>. QED  BY <1>1, <2>1 DEF PagesTypeOK
<1>5. window' \in [open : BOOLEAN, front : Pages, running : BOOLEAN] /\ window'.front = "progress"
      /\ window.front = "summary"
  BY <1>1 DEF PagesTypeOK, Pages, InProgress
<1>6. PagesTypeOK'
  BY <1>1, <1>2, <1>3, <1>4, <1>5 DEF PagesTypeOK
<1>. QED  BY <1>1, <1>2, <1>3, <1>4, <1>5, <1>6 DEF PagesInv, NameFollows, AccountSaved, SummaryShows, InProgress,
          PlanIsMade, SuggestHostname, ValidUsername

\* Back, from each page: a recheck is dropped with its page.
LEMMA GoBackPages ==
  ASSUME PagesInv, GoBack
  PROVE  PagesInv'
<1>1. PICK page \in {"options", "timezone", "summary", "progress"} :
        /\ At(page)
        /\ window' = [window EXCEPT !.front = [options |-> "user", timezone |-> "options",
                                               summary |-> "timezone", progress |-> "summary"][page]]
        /\ summary' = IF page = "summary" THEN Unmapped(summary) ELSE summary
  BY DEF GoBack
<1>2. PagesTypeOK /\ NameFollows /\ AccountSaved /\ SummaryShows /\ InProgress /\ UNCHANGED <<form, shared>>
  BY DEF PagesInv, GoBack
<1>3. PICK back \in Pages : /\ window' = [window EXCEPT !.front = back]
                            /\ back = "summary" => window.front = "progress"
                            /\ back # "progress"
  <2>1. CASE page = "options"
    BY <1>1, <2>1 DEF Pages
  <2>2. CASE page = "timezone"
    BY <1>1, <2>2 DEF Pages
  <2>3. CASE page = "summary"
    BY <1>1, <2>3 DEF Pages
  <2>4. CASE page = "progress"
    BY <1>1, <2>4 DEF Pages, At
  <2>. QED  BY <2>1, <2>2, <2>3, <2>4
<1>4. left' \in LeftType
  BY <1>2, LeftShrinks DEF GoBack, PagesTypeOK, LeftType
<1>5. window.front # "user" /\ window.front = page
  BY <1>1 DEF At
<1>6. /\ summary' \in [shows : Plans, button : BOOLEAN, stage : Stages, plan : Plans, late : BOOLEAN] /\ summary'.stage = "none"
      /\ back = "summary" => summary' = summary
  <2>1. NoSummary \in [shows : Plans, button : BOOLEAN, stage : Stages, plan : Plans, late : BOOLEAN] /\ NoSummary.stage = "none"
    BY DEF NoSummary, Plans, Stages
  <2>2. CASE page = "summary"
    <3>1. summary.stage \notin {"swap", "dialog"} /\ summary.stage \in Stages
      BY <1>1, <1>2 DEF At, Asked, PagesTypeOK
    <3>. QED  BY <1>1, <1>2, <1>3, <1>5, <2>1, <2>2, <3>1 DEF Unmapped, PagesTypeOK, Stages
  <2>3. CASE page # "summary"
    BY <1>1, <1>2, <1>5, <2>3 DEF PagesTypeOK, InProgress
  <2>. QED  BY <2>2, <2>3
<1>7. PagesTypeOK' /\ window'.front = back
  BY <1>2, <1>3, <1>4, <1>6 DEF PagesTypeOK, LeftType
<1>8. SummaryRows(shared') = SummaryRows(shared)
  BY <1>2
<1>. QED  BY <1>2, <1>3, <1>5, <1>6, <1>7, <1>8 DEF PagesInv, NameFollows, AccountSaved, SummaryShows, InProgress,
          PlanIsMade, SuggestHostname, ValidUsername

\* The window goes; a new one begins with its first entries.
LEMMA NewPages ==
  /\ NewForm(NewShared) \in [full : Fulls, user : Users, pass : Secrets, again : Secrets, host : Hosts,
                             userEdited : BOOLEAN]
  /\ NewShared \in [full : Fulls, user : Users, pass : Secrets, again : Secrets, host : Hosts,
                    hostEdited : BOOLEAN, options : SUBSET {"ssh"}, zone : {"home", "away"}, clear : BOOLEAN,
                    extras : SUBSET {"updates"}]
  /\ NoSummary \in [shows : Plans, button : BOOLEAN, stage : Stages, plan : Plans, late : BOOLEAN] /\ NoSummary.stage = "none"
  /\ NewForm(NewShared).user = ""
<1>1. SuggestHostname("") \in Hosts
  BY HostTypes DEF Users
<1>2. NewShared \in [full : Fulls, user : Users, pass : Secrets, again : Secrets, host : Hosts,
                     hostEdited : BOOLEAN, options : SUBSET {"ssh"}, zone : {"home", "away"}, clear : BOOLEAN,
                     extras : SUBSET {"updates"}]
  BY <1>1 DEF NewShared, Extras, Fulls, Users, Secrets
<1>3. NewForm(NewShared) \in [full : Fulls, user : Users, pass : Secrets, again : Secrets, host : Hosts,
                              userEdited : BOOLEAN] /\ NewForm(NewShared).user = ""
  BY <1>2 DEF NewForm, Fulls, Users, Secrets
<1>. QED  BY <1>2, <1>3 DEF NoSummary, Plans, Stages

LEMMA GonePages ==
  ASSUME PagesInv, Gone, left' \in LeftType
  PROVE  PagesInv'
<1>1. /\ window' = [open |-> FALSE, front |-> "user", running |-> FALSE]
      /\ form' = NewForm(NewShared) /\ shared' = NewShared /\ summary' = NoSummary
  BY DEF Gone, NewWindow
<1>2. PagesTypeOK' /\ window'.front = "user" /\ summary'.stage = "none" /\ form'.user = ""
  BY <1>1, NewPages DEF PagesTypeOK, LeftType, Pages
<1>. QED  BY <1>2 DEF PagesInv, NameFollows, AccountSaved, SummaryShows, InProgress, PlanIsMade

LEMMA RestartPages ==
  ASSUME PagesInv, Restarts
  PROVE  PagesInv'
<1>1. /\ window' = [open |-> TRUE, front |-> "user", running |-> FALSE] /\ UNCHANGED <<form, shared, summary, left>>
      /\ PagesTypeOK /\ NameFollows /\ summary.stage = "none"
  BY DEF Restarts, NewWindow, PagesInv, InProgress
<1>2. PagesTypeOK' /\ window'.front = "user"
  BY <1>1 DEF PagesTypeOK, Pages
<1>. QED  BY <1>1, <1>2 DEF PagesInv, NameFollows, AccountSaved, SummaryShows, InProgress, PlanIsMade, SuggestHostname

\* on_done ends the flow: the window may be closed, or used, again.
LEMMA CallbackPages ==
  ASSUME PagesInv, RunsCallback
  PROVE  PagesInv'
<1>1. UNCHANGED <<form, shared, summary, left>> /\ PagesTypeOK
  BY DEF RunsCallback, PagesInv
<1>2. window' = [window EXCEPT !.running = FALSE] \/ window' = window
  BY DEF RunsCallback
<1>3. /\ window' \in [open : BOOLEAN, front : Pages, running : BOOLEAN]
      /\ window'.open = window.open /\ window'.front = window.front
      /\ ~window.running => ~window'.running
  BY <1>1, <1>2 DEF PagesTypeOK
<1>4. PagesTypeOK' /\ SummaryRows(shared') = SummaryRows(shared)
  BY <1>1, <1>3 DEF PagesTypeOK
<1>. QED  BY <1>1, <1>3, <1>4 DEF PagesInv, NameFollows, AccountSaved, SummaryShows, InProgress, PlanIsMade,
          SuggestHostname, ValidUsername

-----------------------------------------------------------------------------
(* Lines on their way to the page *)

LEMMA StepNumbers == DOMAIN Steps = 1..Len(Steps) /\ Len(Steps) \in Nat \ {0} /\ 1 \in DOMAIN Steps
BY FinishBounds

LEMMA EventTypes ==
  /\ \A l \in Lines : l.kind = "status" => l.step \in DOMAIN Steps /\ l.status \in Colours
  /\ \A c \in Callbacks : c.kind = "status" => c.step \in DOMAIN Steps /\ c.status \in Colours
<1>1. \A n \in 0..Len(Steps) : n # 0 => n \in DOMAIN Steps
  BY StepNumbers
<1>2. ASSUME NEW l \in Lines, l.kind = "status" PROVE l.step \in DOMAIN Steps /\ l.status \in Colours
  BY <1>1, <1>2 DEF Lines
<1>3. ASSUME NEW c \in Callbacks, c.kind = "status" PROVE c.step \in DOMAIN Steps /\ c.status \in Colours
  BY <1>1, <1>3 DEF Callbacks
<1>. QED  BY <1>2, <1>3

\* emit: one more line, of a step that was not reported as a warning.
LEMMA PipeTakes ==
  ASSUME NEW pipe \in Seq(Lines), NEW callbacks \in Seq(Callbacks), NEW shown \in AllLights, NEW lights \in AllLights,
         InStep(pipe, callbacks, shown, lights), NEW l \in Lines,
         l.kind = "status" => lights[l.step] # "warning"
  PROVE  Lit(lights, l) \in AllLights /\ InStep(Append(pipe, l), callbacks, shown, Lit(lights, l))
<1>1. l.kind = "status" => l.step \in DOMAIN Steps /\ l.status \in Colours
  BY EventTypes
<1>2. Lit(lights, l) \in AllLights
  BY <1>1 DEF Lit, AllLights
<1>3. ASSUME NEW s \in DOMAIN Steps
      PROVE  Tells(Append(pipe, l), callbacks, shown, s, Lit(lights, l)[s])
             /\ WarnedLast(Append(pipe, l), callbacks, shown, s)
  <2>. DEFINE P == Append(pipe, l)
              x == lights[s]
  <2>1. Tells(pipe, callbacks, shown, s, x) /\ WarnedLast(pipe, callbacks, shown, s)
    BY DEF InStep
  <2>2. CASE ~About(l, s)
    <3>1. /\ Silent(P, s) <=> Silent(pipe, s)
          /\ EndsWith(pipe, s, x) => EndsWith(P, s, x)
          /\ WarnsLast(pipe, s) => WarnsLast(P, s)
      BY <2>2, AppendOther
    <3>2. Lit(lights, l)[s] = x
      BY <1>1, <2>2 DEF Lit, About, AllLights
    <3>. HIDE DEF P, x
    <3>3. Tells(P, callbacks, shown, s, x) /\ WarnedLast(P, callbacks, shown, s)
      BY <2>1, <3>1 DEF Tells, WarnedLast
    <3>. QED  BY <3>2, <3>3 DEF P
  <2>3. CASE About(l, s)
    <3>1. l.kind = "status" /\ l.step = s /\ x # "warning" /\ Lit(lights, l)[s] = l.status
      BY <1>1, <2>3 DEF About, Lit, AllLights
    <3>2. ~Warns(pipe, s) /\ ~Warns(callbacks, s) /\ shown[s] # "warning"
      <4>1. CASE EndsWith(pipe, s, x)
        <5>1. ~Warns(pipe, s)
          BY <2>1, <3>1, <4>1, WarningIsLast DEF WarnedLast
        <5>2. ~Silent(pipe, s)
          BY <4>1 DEF EndsWith, LastOf, Silent
        <5>. QED  BY <2>1, <5>1, <5>2 DEF WarnedLast
      <4>2. CASE Silent(pipe, s) /\ EndsWith(callbacks, s, x)
        <5>1. ~Warns(callbacks, s)
          BY <2>1, <3>1, <4>2, WarningIsLast DEF WarnedLast
        <5>2. ~Silent(callbacks, s)
          BY <4>2 DEF EndsWith, LastOf, Silent
        <5>3. ~Warns(pipe, s)
          BY <4>2 DEF Silent, Warns
        <5>. QED  BY <2>1, <5>1, <5>2, <5>3 DEF WarnedLast
      <4>3. CASE Silent(pipe, s) /\ Silent(callbacks, s) /\ shown[s] = x
        BY <3>1, <4>3 DEF Silent, Warns
      <4>. QED  BY <2>1, <4>1, <4>2, <4>3 DEF Tells
    <3>3. EndsWith(P, s, l.status) /\ (~Warns(pipe, s) => WarnsLast(P, s))
      BY <2>3, AppendThis
    <3>. HIDE DEF P, x
    <3>4. Tells(P, callbacks, shown, s, l.status) /\ WarnedLast(P, callbacks, shown, s)
      BY <2>1, <3>2, <3>3 DEF Tells, WarnedLast
    <3>. QED  BY <3>1, <3>4 DEF P
  <2>. QED  BY <2>2, <2>3
<1>. QED  BY <1>2, <1>3 DEF InStep

\* A status line is read and becomes a callback.
LEMMA LineMoves ==
  ASSUME NEW pipe \in Seq(Lines), NEW callbacks \in Seq(Callbacks), NEW shown \in AllLights, NEW lights \in AllLights,
         InStep(pipe, callbacks, shown, lights), pipe # <<>>, Head(pipe).kind = "status",
         NEW c \in Callbacks, c.kind = "status", c.step = Head(pipe).step, c.status = Head(pipe).status
  PROVE  InStep(Tail(pipe), Append(callbacks, c), shown, lights)
<1>. DEFINE P == Tail(pipe)
            C == Append(callbacks, c)
            h == Head(pipe)
<1>. SUFFICES ASSUME NEW s \in DOMAIN Steps
              PROVE  Tells(P, C, shown, s, lights[s]) /\ WarnedLast(P, C, shown, s)
  BY DEF InStep
<1>. DEFINE x == lights[s]
<1>1. Tells(pipe, callbacks, shown, s, x) /\ WarnedLast(pipe, callbacks, shown, s)
  BY DEF InStep
<1>2. About(c, s) <=> About(h, s)
  BY DEF About
<1>3. /\ Silent(pipe, s) => Silent(P, s)
      /\ Warns(P, s) => Warns(pipe, s)
      /\ WarnsLast(pipe, s) => WarnsLast(P, s)
      /\ ~About(h, s) /\ Silent(P, s) => Silent(pipe, s)
      /\ EndsWith(pipe, s, x) => EndsWith(P, s, x) \/ (About(h, s) /\ h.status = x /\ Silent(P, s))
      /\ About(h, s) => ~Silent(pipe, s)
      /\ About(h, s) /\ h.status = "warning" => Warns(pipe, s)
      /\ WarnsLast(pipe, s) /\ About(h, s) /\ h.status = "warning" => Silent(P, s)
  BY TailSays
<1>4. CASE ~About(h, s)
  <2>1. /\ Silent(C, s) <=> Silent(callbacks, s)
        /\ EndsWith(callbacks, s, x) => EndsWith(C, s, x)
        /\ WarnsLast(callbacks, s) => WarnsLast(C, s)
        /\ Warns(C, s) <=> Warns(callbacks, s)
    BY <1>2, <1>4, AppendOther
  <2>. HIDE DEF P, C, h, x
  <2>. QED  BY <1>1, <1>3, <1>4, <2>1 DEF Tells, WarnedLast, x
<1>5. CASE About(h, s)
  <2>1. /\ EndsWith(C, s, c.status)
        /\ ~Warns(callbacks, s) => WarnsLast(C, s)
        /\ Warns(C, s) => Warns(callbacks, s) \/ c.status = "warning"
    BY <1>2, <1>5, AppendThis
  <2>2. c.status = h.status
    OBVIOUS
  <2>. HIDE DEF P, C, h, x
  <2>3. ~Silent(pipe, s) /\ ~Warns(callbacks, s) /\ shown[s] # "warning"
    BY <1>1, <1>3, <1>5 DEF WarnedLast
  <2>. QED  BY <1>1, <1>3, <1>5, <2>1, <2>2, <2>3 DEF Tells, WarnedLast, x
<1>. QED  BY <1>4, <1>5

\* Any other line is read and dropped.
LEMMA LineDropped ==
  ASSUME NEW pipe \in Seq(Lines), NEW callbacks \in Seq(Callbacks), NEW shown \in AllLights, NEW lights \in AllLights,
         InStep(pipe, callbacks, shown, lights), pipe # <<>>, Head(pipe).kind # "status"
  PROVE  InStep(Tail(pipe), callbacks, shown, lights)
<1>. DEFINE P == Tail(pipe)
            h == Head(pipe)
<1>. SUFFICES ASSUME NEW s \in DOMAIN Steps
              PROVE  Tells(P, callbacks, shown, s, lights[s]) /\ WarnedLast(P, callbacks, shown, s)
  BY DEF InStep
<1>. DEFINE x == lights[s]
<1>1. Tells(pipe, callbacks, shown, s, x) /\ WarnedLast(pipe, callbacks, shown, s) /\ ~About(h, s)
  BY DEF InStep, About
<1>2. /\ Silent(pipe, s) => Silent(P, s)
      /\ Warns(P, s) => Warns(pipe, s)
      /\ WarnsLast(pipe, s) => WarnsLast(P, s)
      /\ EndsWith(pipe, s, x) => EndsWith(P, s, x) \/ (About(h, s) /\ h.status = x /\ Silent(P, s))
  BY TailSays
<1>. HIDE DEF P, h, x
<1>. QED  BY <1>1, <1>2 DEF Tells, WarnedLast, x

\* A status callback runs: the page takes it over.
LEMMA CallbackShows ==
  ASSUME NEW pipe \in Seq(Lines), NEW callbacks \in Seq(Callbacks), NEW shown \in AllLights, NEW lights \in AllLights,
         InStep(pipe, callbacks, shown, lights), callbacks # <<>>, NEW h, h = Head(callbacks), h.kind = "status"
  PROVE  /\ InStep(pipe, Tail(callbacks), [shown EXCEPT ![h.step] = h.status], lights)
         /\ shown[h.step] # "warning" /\ h.step \in DOMAIN Steps
         /\ [shown EXCEPT ![h.step] = h.status] \in AllLights
<1>. DEFINE C == Tail(callbacks)
            new == [shown EXCEPT ![h.step] = h.status]
<1>1. h.step \in DOMAIN Steps /\ h.status \in Colours /\ h \in Callbacks
  BY EventTypes
<1>2. ASSUME NEW s \in DOMAIN Steps
      PROVE  /\ Tells(pipe, C, new, s, lights[s]) /\ WarnedLast(pipe, C, new, s)
             /\ About(h, s) => shown[s] # "warning"
  <2>. DEFINE x == lights[s]
  <2>1. Tells(pipe, callbacks, shown, s, x) /\ WarnedLast(pipe, callbacks, shown, s)
    BY DEF InStep
  <2>2. /\ Silent(callbacks, s) => Silent(C, s)
        /\ Warns(C, s) => Warns(callbacks, s)
        /\ WarnsLast(callbacks, s) => WarnsLast(C, s)
        /\ EndsWith(callbacks, s, x) => EndsWith(C, s, x) \/ (About(h, s) /\ h.status = x /\ Silent(C, s))
        /\ About(h, s) => ~Silent(callbacks, s)
        /\ About(h, s) /\ h.status = "warning" => Warns(callbacks, s)
        /\ WarnsLast(callbacks, s) /\ About(h, s) /\ h.status = "warning" => Silent(C, s)
    BY TailSays
  <2>3. new[s] = IF About(h, s) THEN h.status ELSE shown[s]
    BY <1>1 DEF About, AllLights
  <2>. HIDE DEF C, new, x
  <2>4. CASE About(h, s)
    <3>1. Tells(pipe, C, new, s, x)
      BY <2>1, <2>2, <2>3, <2>4 DEF Tells
    <3>2. WarnedLast(pipe, C, new, s)
      BY <2>1, <2>2, <2>3, <2>4 DEF WarnedLast
    <3>3. shown[s] # "warning"
      BY <2>1, <2>2, <2>4 DEF WarnedLast
    <3>. QED  BY <3>1, <3>2, <3>3 DEF x
  <2>5. CASE ~About(h, s)
    BY <2>1, <2>2, <2>3, <2>5 DEF Tells, WarnedLast, x
  <2>. QED  BY <2>4, <2>5
<1>3. About(h, h.step)
  BY DEF About
<1>4. new \in AllLights
  BY <1>1 DEF AllLights
<1>. QED  BY <1>1, <1>2, <1>3, <1>4 DEF InStep

-----------------------------------------------------------------------------
(* Processes, readers and the progress page *)

\* Nobody's step but theirs touches the processes.
LEMMA RunsStutter ==
  ASSUME RunsInv, UNCHANGED <<runs, idle, view>>, left.faults < MaxFaults => left'.faults < MaxFaults,
         \/ window'.open = window.open /\ window'.running = window.running
         \/ ~window.open
  PROVE  RunsInv'
<1>1. RunsTypeOK' /\ (\A i \in Installs : RunOK(runs'[i])) /\ LossIsFault' /\ Unlaunched'
  BY DEF RunsInv, RunsTypeOK, LossIsFault, Unlaunched
<1>2. OneFlow' /\ Watched' /\ Shown'
  BY DEF RunsInv, OneFlow, Watched, Shown, Alive
<1>. QED  BY <1>1, <1>2 DEF RunsInv, RunOK

\* A step of a process: whatever it does to itself, a line that it adds is one
\* that may follow.
Adds(old, r, l) == /\ r.pipe = Append(old.pipe, l)
                   /\ l.kind = "status" => old.lights[l.step] # "warning"
                   /\ r.lights = Lit(old.lights, l)

LEMMA ProcessStep ==
  ASSUME RunsInv, UNCHANGED <<window, idle, view>>, left.faults < MaxFaults => left'.faults < MaxFaults,
         NEW i \in Installs, Alive(i), NEW r \in RunRecords, RunOK(r), Became(i, r),
         r.reader = runs[i].reader,
         \/ r.pipe = runs[i].pipe /\ r.lights = runs[i].lights
         \/ \E l \in Lines : Adds(runs[i], r, l)
  PROVE  RunsInv'
<1>1. /\ RunsTypeOK /\ (\A j \in Installs : RunOK(runs[j])) /\ OneFlow /\ Watched /\ Shown /\ LossIsFault /\ Unlaunched
  BY DEF RunsInv
<1>2. /\ runs' = [runs EXCEPT ![i] = r] /\ runs' \in [Installs -> RunRecords] /\ runs'[i] = r
      /\ \A j \in Installs : j # i => runs'[j] = runs[j]
  BY <1>1 DEF Became, RunsTypeOK
<1>3. \A j \in Installs : runs'[j].reader = runs[j].reader
  BY <1>2
<1>4. view.id = i => runs[i].reader \in {"read", "dead"} /\ view.id # 0
  BY <1>1 DEF Watched, Alive, Installs
<1>5. view.id # 0 => view.id \in Installs
  BY <1>1, FinishBounds DEF RunsTypeOK, Installs
<1>11. runs[i].reader # "launch"
  BY <1>1 DEF OneFlow, Watched, Alive, Installs
<1>6. RunsTypeOK' /\ \A j \in Installs : RunOK(runs'[j])
  BY <1>1, <1>2 DEF RunsTypeOK
<1>7. LossIsFault' /\ Unlaunched'
  BY <1>1, <1>2, <1>3, <1>11 DEF LossIsFault, Unlaunched
<1>8. OneFlow'
  <2>1. ASSUME NEW n \in DOMAIN idle, idle[n].kind = "done" PROVE view.id # i /\ view.id \in Installs
    BY <1>1, <1>4, <1>5, <2>1 DEF OneFlow
  <2>. QED  BY <1>1, <1>2, <1>3, <2>1 DEF OneFlow
<1>9. Shown'
  BY <1>1, <1>2, <1>4, <1>5 DEF Shown
<1>10. Watched'
  <2>1. CASE view.id # i
    BY <1>1, <1>2, <1>5, <2>1 DEF Watched, Alive
  <2>2. CASE view.id = i
    <3>1. InStep(runs[i].pipe, idle, view.lights, runs[i].lights)
      BY <1>1, <1>4, <2>2 DEF Watched
    <3>2. runs[i].pipe \in Seq(Lines) /\ runs[i].lights \in AllLights /\ idle \in Seq(Callbacks) /\ view.lights \in AllLights
      BY <1>1 DEF RunsTypeOK, RunRecords
    <3>3. InStep(r.pipe, idle, view.lights, r.lights)
      BY <3>1, <3>2, PipeTakes DEF Adds
    <3>. QED  BY <1>1, <1>2, <1>4, <2>2, <3>3 DEF Watched
  <2>. QED  BY <2>1, <2>2
<1>. QED  BY <1>6, <1>7, <1>8, <1>9, <1>10 DEF RunsInv, RunOK

\* emit: a log, a status or the last line; without a reader the process dies.
LEMMA EmitStep ==
  ASSUME RunsInv, UNCHANGED <<window, idle, view>>, left.faults < MaxFaults => left'.faults < MaxFaults,
         NEW i \in Installs, Alive(i), NEW pc \in Pcs, NEW step \in DOMAIN Steps, NEW code \in {0, 1}, NEW l,
         l.kind = "log" \/ l \in Lines,
         l.kind = "status" => runs[i].lights[l.step] # "warning",
         NEW r, r = [runs[i] EXCEPT !.pc = pc, !.step = step, !.code = code],
         Place(pc, step, code, Lit(runs[i].lights, l)), Emit(i, r, l)
  PROVE  RunsInv'
<1>1. runs[i] \in RunRecords /\ runs \in [Installs -> RunRecords] /\ RunOK(runs[i])
  BY DEF RunsInv, RunsTypeOK
<1>2. /\ r \in RunRecords /\ r.reader = runs[i].reader /\ r.pipe = runs[i].pipe /\ r.lights = runs[i].lights
      /\ r.pc = pc /\ r.step = step /\ r.code = code
  BY <1>1 DEF RunRecords
<1>3. CASE ~Reads(i)
  <2>1. PICK d : d = Died(runs[i])
    OBVIOUS
  <2>2. Became(i, d)
    BY <1>3, <2>1 DEF Emit
  <2>3. d = [runs[i] EXCEPT !.pc = "ended", !.code = 1] /\ "ended" \in Pcs /\ "ended" \notin {"off", "start",
        "preflight", "begin", "work", "command", "ending", "cleanup"}
    BY <2>1 DEF Died, Pcs
  <2>4. /\ d \in RunRecords /\ d.reader = runs[i].reader /\ d.pipe = runs[i].pipe /\ d.lights = runs[i].lights
        /\ d.pc = "ended" /\ d.code = 1
    BY <1>1, <2>3 DEF RunRecords
  <2>5. RunOK(d)
    BY <2>4 DEF RunOK, Place
  <2>. QED  BY <2>2, <2>4, <2>5, ProcessStep
<1>4. CASE Reads(i) /\ l.kind = "log"
  <2>1. Became(i, r) /\ RunOK(r)
    BY <1>2, <1>4 DEF Emit, Lit, RunOK
  <2>. QED  BY <1>2, <2>1, ProcessStep
<1>5. CASE Reads(i) /\ l.kind # "log"
  <2>1. PICK q : q = [r EXCEPT !.pipe = Append(r.pipe, l), !.lights = Lit(r.lights, l)]
    OBVIOUS
  <2>2. Became(i, q) /\ l \in Lines
    BY <1>5, <2>1 DEF Emit
  <2>3. Append(r.pipe, l) \in Seq(Lines)
    <3>1. r.pipe \in Seq(Lines)
      BY <1>2 DEF RunRecords
    <3>. QED  BY <2>2, <3>1
  <2>4. Lit(r.lights, l) \in AllLights
    BY <1>2, <2>2, EventTypes DEF Lit, AllLights, RunRecords
  <2>5. /\ q \in RunRecords /\ q.reader = runs[i].reader /\ q.pipe = Append(runs[i].pipe, l)
        /\ q.lights = Lit(runs[i].lights, l) /\ q.pc = pc /\ q.step = step /\ q.code = code
    BY <1>2, <2>1, <2>3, <2>4 DEF RunRecords
  <2>6. RunOK(q)
    BY <2>5 DEF RunOK
  <2>7. Adds(runs[i], q, l)
    BY <2>5 DEF Adds
  <2>. QED  BY <2>2, <2>5, <2>6, <2>7, ProcessStep
<1>. QED  BY <1>3, <1>4, <1>5

\* The same for a process that stays at its step.
LEMMA EmitPc ==
  ASSUME RunsInv, UNCHANGED <<window, idle, view>>, left.faults < MaxFaults => left'.faults < MaxFaults,
         NEW i \in Installs, Alive(i), NEW pc \in Pcs, NEW l, l.kind = "log" \/ l \in Lines,
         l.kind = "status" => runs[i].lights[l.step] # "warning",
         Place(pc, runs[i].step, runs[i].code, Lit(runs[i].lights, l)),
         Emit(i, [runs[i] EXCEPT !.pc = pc], l)
  PROVE  RunsInv'
<1>1. runs[i] \in RunRecords
  BY DEF RunsInv, RunsTypeOK
<1>2. PICK step \in DOMAIN Steps, code \in {0, 1} : step = runs[i].step /\ code = runs[i].code
  BY <1>1 DEF RunRecords
<1>3. PICK r : r = [runs[i] EXCEPT !.pc = pc, !.step = step, !.code = code]
  OBVIOUS
<1>4. r = [runs[i] EXCEPT !.pc = pc]
  BY <1>1, <1>2, <1>3 DEF RunRecords
<1>5. Emit(i, r, l) /\ Place(pc, step, code, Lit(runs[i].lights, l))
  BY <1>2, <1>4
<1>. QED  BY <1>3, <1>5, EmitStep

\* A process that moves on without a word, or dies, perhaps within a line.
LEMMA MovePc ==
  ASSUME RunsInv, UNCHANGED <<window, idle, view>>, left.faults < MaxFaults => left'.faults < MaxFaults,
         NEW i \in Installs, Alive(i), NEW pc \in Pcs, Place(pc, runs[i].step, runs[i].code, runs[i].lights),
         Became(i, [runs[i] EXCEPT !.pc = pc])
  PROVE  RunsInv'
<1>1. PICK r : r = [runs[i] EXCEPT !.pc = pc]
  OBVIOUS
<1>2. runs[i] \in RunRecords
  BY DEF RunsInv, RunsTypeOK
<1>3. /\ r \in RunRecords /\ r.reader = runs[i].reader /\ r.pipe = runs[i].pipe /\ r.lights = runs[i].lights
      /\ r.pc = pc /\ r.step = runs[i].step /\ r.code = runs[i].code
  BY <1>1, <1>2 DEF RunRecords
<1>4. RunOK(r) /\ Became(i, r)
  BY <1>1, <1>3 DEF RunOK
<1>. QED  BY <1>3, <1>4, ProcessStep

LEMMA Dies ==
  ASSUME RunsInv, UNCHANGED <<window, idle, view>>, left.faults < MaxFaults => left'.faults < MaxFaults,
         NEW i \in Installs, Alive(i),
         \/ Became(i, Died(runs[i]))
         \/ \E l \in Lines : l.kind \in {"cut", "split"} /\ Became(i, [Died(runs[i]) EXCEPT !.pipe = Append(@, l)])
  PROVE  RunsInv'
<1>1. runs[i] \in RunRecords
  BY DEF RunsInv, RunsTypeOK
<1>2. PICK d : d = Died(runs[i])
  OBVIOUS
<1>3. /\ d \in RunRecords /\ d.reader = runs[i].reader /\ d.pipe = runs[i].pipe /\ d.lights = runs[i].lights
      /\ d.pc = "ended" /\ d.code = 1 /\ d.pipe \in Seq(Lines)
  <2>1. d = [runs[i] EXCEPT !.pc = "ended", !.code = 1] /\ "ended" \in Pcs
    BY <1>2 DEF Died, Pcs
  <2>. QED  BY <1>1, <2>1 DEF RunRecords
<1>4. CASE Became(i, d)
  <2>1. RunOK(d)
    BY <1>3 DEF RunOK, Place
  <2>. QED  BY <1>3, <1>4, <2>1, ProcessStep
<1>5. ASSUME NEW l \in Lines, l.kind \in {"cut", "split"}, Became(i, [d EXCEPT !.pipe = Append(@, l)])
      PROVE  RunsInv'
  <2>3. PICK q : q = [d EXCEPT !.pipe = Append(d.pipe, l)]
    OBVIOUS
  <2>4. Append(d.pipe, l) \in Seq(Lines)
    BY <1>3
  <2>5. /\ q \in RunRecords /\ q.reader = runs[i].reader /\ q.pipe = Append(runs[i].pipe, l)
        /\ q.lights = runs[i].lights /\ q.pc = "ended" /\ q.code = 1
    BY <1>3, <2>3, <2>4 DEF RunRecords
  <2>6. RunOK(q) /\ Adds(runs[i], q, l) /\ Became(i, q)
    BY <1>5, <2>3, <2>5 DEF RunOK, Place, Adds, Lit
  <2>. QED  BY <2>5, <2>6, ProcessStep
<1>. QED  BY <1>2, <1>4, <1>5

\* The lines of the model.
LEMMA StatusLine ==
  ASSUME NEW s \in DOMAIN Steps, NEW x \in Colours, NEW l, l = [kind |-> "status", step |-> s, status |-> x]
  PROVE  l \in Lines /\ l.kind = "status" /\ l.step = s /\ l.status = x
<1>1. s \in 0..Len(Steps) /\ s # 0
  BY StepNumbers
<1>2. x # ""
  BY DEF Colours
<1>. QED  BY <1>1, <1>2 DEF Lines

LEMMA NoStep == 0 \in 0..Len(Steps)
BY StepNumbers

LEMMA OtherLine ==
  ASSUME NEW kind \in {"complete", "cut", "split"}, NEW l, l = [kind |-> kind, step |-> 0, status |-> ""]
  PROVE  l \in Lines /\ l.kind = kind
BY NoStep DEF Lines

\* The end of a step that does not end the pipeline: the next one, or success.
LEMMA AdvanceStep ==
  ASSUME RunsInv, UNCHANGED <<window, idle, view>>, left.faults < MaxFaults => left'.faults < MaxFaults,
         NEW i \in Installs, runs[i].pc \in {"work", "ending", "cleanup"},
         NEW how \in {"succeeded", "skipped", "warning"},
         NEW l, l = [kind |-> "status", step |-> runs[i].step, status |-> how], Emit(i, Advance(runs[i]), l)
  PROVE  RunsInv'
<1>. DEFINE x == runs[i]
<1>1. x \in RunRecords /\ RunOK(x)
  BY DEF RunsInv, RunsTypeOK
<1>2. /\ x.step \in DOMAIN Steps /\ x.code \in {0, 1} /\ x.lights \in AllLights
      /\ x.lights[x.step] = "running" /\ (\A s \in DOMAIN Steps : s > x.step => x.lights[s] = "pending")
      /\ x.code = 1 /\ Alive(i)
  BY <1>1 DEF RunRecords, RunOK, Place, Alive
<1>3. how \in Colours
  BY DEF Colours
<1>4. l \in Lines /\ l.kind = "status" /\ l.step = x.step /\ l.status = how
  BY <1>2, <1>3, StatusLine
<1>5. PICK lit : lit = Lit(x.lights, l)
  OBVIOUS
<1>6. \A s \in DOMAIN Steps : s > x.step => lit[s] = "pending"
  BY <1>2, <1>4, <1>5, StepNumbers DEF Lit, AllLights
<1>7. CASE x.step = Len(Steps)
  <2>1. PICK r : r = [x EXCEPT !.pc = "final", !.step = x.step, !.code = 0]
    OBVIOUS
  <2>2. r = Advance(x)
    BY <1>1, <1>7, <2>1 DEF Advance, RunRecords
  <2>3. Place("final", x.step, 0, lit)
    BY <1>7 DEF Place
  <2>4. "final" \in Pcs /\ Emit(i, r, l) /\ x.lights[l.step] # "warning"
    BY <1>2, <1>4, <2>2 DEF Pcs
  <2>. QED  BY <1>2, <1>4, <1>5, <2>1, <2>3, <2>4, EmitStep
<1>8. CASE x.step # Len(Steps)
  <2>1. PICK r : r = [x EXCEPT !.pc = "begin", !.step = x.step + 1, !.code = x.code]
    OBVIOUS
  <2>2. r = Advance(x)
    BY <1>1, <1>8, <2>1 DEF Advance, RunRecords
  <2>3. x.step + 1 \in DOMAIN Steps
    BY <1>2, <1>8, StepNumbers
  <2>4. Place("begin", x.step + 1, x.code, lit)
    BY <1>2, <1>6, StepNumbers DEF Place
  <2>5. "begin" \in Pcs /\ Emit(i, r, l) /\ x.lights[l.step] # "warning"
    BY <1>2, <1>4, <2>2 DEF Pcs
  <2>. QED  BY <1>2, <1>4, <1>5, <2>1, <2>3, <2>4, <2>5, EmitStep
<1>. QED  BY <1>7, <1>8

\* What an action of a process has in common with the others.
LEMMA ExecutorFrame ==
  ASSUME RunsInv, left \in LeftType, NEW i \in Installs, Executor(i) \/ Killed(i)
  PROVE  /\ UNCHANGED <<window, form, shared, summary, idle, view>> /\ left' \in LeftType
         /\ left.faults < MaxFaults => left'.faults < MaxFaults
         /\ Alive(i) /\ runs[i] \in RunRecords /\ RunOK(runs[i]) /\ runs[i].step \in DOMAIN Steps
         /\ runs[i].lights \in AllLights
<1>1. UNCHANGED <<window, form, shared, summary, idle, view>>
  BY DEF Executor, Begins, Preflights, BeginsStep, StartsCommand, CommandWrites, CommandEnds, EndsStep, FailsStep,
     CleansUp, Completes, Exits, Killed, Others
<1>2. Fault \/ UNCHANGED left
  BY DEF Executor, Begins, Preflights, BeginsStep, StartsCommand, CommandWrites, CommandEnds, EndsStep, FailsStep,
     CleansUp, Completes, Exits, Killed
<1>3. left' \in LeftType /\ (left.faults < MaxFaults => left'.faults < MaxFaults)
  BY <1>2, LeftShrinks
<1>4. Alive(i)
  BY DEF Executor, Begins, Preflights, BeginsStep, StartsCommand, CommandWrites, CommandEnds, EndsStep, FailsStep,
     CleansUp, Completes, Exits, Killed, Alive
<1>5. runs[i] \in RunRecords /\ RunOK(runs[i])
  BY DEF RunsInv, RunsTypeOK
<1>6. runs[i].step \in DOMAIN Steps /\ runs[i].lights \in AllLights
  BY <1>5 DEF RunRecords
<1>. QED  BY <1>1, <1>3, <1>4, <1>5, <1>6

\* A log line only moves the process on.
LEMMA LogStep ==
  ASSUME RunsInv, UNCHANGED <<window, idle, view>>, left.faults < MaxFaults => left'.faults < MaxFaults,
         NEW i \in Installs, Alive(i), NEW pc \in Pcs, Place(pc, runs[i].step, runs[i].code, runs[i].lights),
         Emit(i, [runs[i] EXCEPT !.pc = pc], Line("log", 0, ""))
  PROVE  RunsInv'
<1>1. PICK l : l = [kind |-> "log", step |-> 0, status |-> ""]
  OBVIOUS
<1>2. l.kind = "log" /\ Emit(i, [runs[i] EXCEPT !.pc = pc], l)
  BY <1>1 DEF Line
<1>3. Lit(runs[i].lights, l) = runs[i].lights
  BY <1>2 DEF Lit
<1>. QED  BY <1>2, <1>3, EmitPc

\* A status line that leaves the pipeline, or enters a step.
LEMMA StatusStep ==
  ASSUME RunsInv, UNCHANGED <<window, idle, view>>, left.faults < MaxFaults => left'.faults < MaxFaults,
         NEW i \in Installs, Alive(i), NEW pc \in Pcs, NEW s \in DOMAIN Steps, NEW x \in Colours,
         runs[i].lights[s] # "warning",
         Place(pc, runs[i].step, runs[i].code, [runs[i].lights EXCEPT ![s] = x]),
         Emit(i, [runs[i] EXCEPT !.pc = pc], Line("status", s, x))
  PROVE  RunsInv'
<1>1. PICK l : l = [kind |-> "status", step |-> s, status |-> x]
  OBVIOUS
<1>2. Emit(i, [runs[i] EXCEPT !.pc = pc], l)
  BY <1>1 DEF Line
<1>3. l \in Lines /\ l.kind = "status" /\ l.step = s /\ l.status = x
  BY <1>1, StatusLine
<1>4. Lit(runs[i].lights, l) = [runs[i].lights EXCEPT ![s] = x]
  BY <1>3 DEF Lit
<1>. QED  BY <1>2, <1>3, <1>4, EmitPc

\* Every action of the executor.
LEMMA ExecutorRuns ==
  ASSUME RunsInv, left \in LeftType, NEW i \in Installs, Executor(i) \/ Killed(i)
  PROVE  RunsInv'
<1>. DEFINE x == runs[i]
<1>1. /\ UNCHANGED <<window, idle, view>> /\ (left.faults < MaxFaults => left'.faults < MaxFaults)
      /\ Alive(i) /\ x \in RunRecords /\ RunOK(x) /\ x.step \in DOMAIN Steps /\ x.lights \in AllLights
  BY ExecutorFrame
<1>2. Place(x.pc, x.step, x.code, x.lights)
  BY <1>1 DEF RunOK
<1>3. \A s \in DOMAIN Steps : s \in Nat
  BY StepNumbers
<1>4. CASE Begins(i)
  <2>1. "preflight" \in Pcs /\ "final" \in Pcs
    BY DEF Pcs
  <2>2. Place("preflight", x.step, x.code, x.lights) /\ Place("final", x.step, x.code, x.lights)
    BY <1>2, <1>4 DEF Begins, Place
  <2>3. \/ Became(i, [x EXCEPT !.pc = "preflight"]) \/ Became(i, Died(x)) \/ Became(i, [x EXCEPT !.pc = "final"])
    BY <1>4 DEF Begins
  <2>. QED  BY <1>1, <2>1, <2>2, <2>3, MovePc, Dies
<1>5. CASE Preflights(i)
  <2>1. /\ x.pc = "preflight" /\ x.code # 0 /\ (\A s \in DOMAIN Steps : x.lights[s] = "pending")
        /\ "begin" \in Pcs /\ "final" \in Pcs /\ "failed" \in Colours
    BY <1>2, <1>5 DEF Preflights, Place, Pcs, Colours
  <2>2. Place("begin", x.step, x.code, x.lights)
    BY <2>1 DEF Place
  <2>3. CASE Emit(i, [x EXCEPT !.pc = "begin"], Line("log", 0, ""))
    BY <1>1, <2>1, <2>2, <2>3, LogStep
  <2>4. ASSUME NEW s \in DOMAIN Steps, Emit(i, [x EXCEPT !.pc = "final"], Line("status", s, "failed"))
        PROVE  RunsInv'
    <3>1. Place("final", x.step, x.code, [x.lights EXCEPT ![s] = "failed"]) /\ x.lights[s] # "warning"
      BY <2>1 DEF Place
    <3>. QED  BY <1>1, <2>1, <2>4, <3>1, StatusStep
  <2>. QED  BY <1>5, <2>3, <2>4 DEF Preflights
<1>6. CASE BeginsStep(i)
  <2>1. /\ x.pc = "begin" /\ x.code # 0 /\ "work" \in Pcs /\ "running" \in Colours
        /\ \A s \in DOMAIN Steps : s >= x.step => x.lights[s] = "pending"
    BY <1>2, <1>6 DEF BeginsStep, Place, Pcs, Colours
  <2>2. x.lights[x.step] = "pending"
    BY <1>1, <1>3, <2>1
  <2>3. Place("work", x.step, x.code, [x.lights EXCEPT ![x.step] = "running"])
    <3>1. [x.lights EXCEPT ![x.step] = "running"][x.step] = "running"
      BY <1>1 DEF AllLights
    <3>2. \A s \in DOMAIN Steps : s > x.step => [x.lights EXCEPT ![x.step] = "running"][s] = "pending"
      BY <1>1, <1>3, <2>1 DEF AllLights
    <3>. QED  BY <2>1, <3>1, <3>2 DEF Place
  <2>4. Emit(i, [x EXCEPT !.pc = "work"], Line("status", x.step, "running"))
    BY <1>6 DEF BeginsStep
  <2>. QED  BY <1>1, <2>1, <2>2, <2>3, <2>4, StatusStep
<1>7. CASE StartsCommand(i)
  <2>1. Place("command", x.step, x.code, x.lights) /\ "command" \in Pcs
    BY <1>2, <1>7 DEF StartsCommand, Place, Pcs
  <2>. QED  BY <1>1, <1>7, <2>1, LogStep DEF StartsCommand
<1>8. CASE CommandWrites(i)
  <2>1. Became(i, Died(x))
    BY <1>8 DEF CommandWrites, Emit
  <2>. QED  BY <1>1, <2>1, Dies
<1>9. CASE CommandEnds(i)
  <2>1. Place("ending", x.step, x.code, x.lights) /\ "ending" \in Pcs
    BY <1>2, <1>9 DEF CommandEnds, Place, Pcs
  <2>. QED  BY <1>1, <1>9, <2>1, MovePc DEF CommandEnds
<1>10. CASE EndsStep(i)
  <2>1. x.pc \in {"work", "ending"}
    BY <1>10 DEF EndsStep
  <2>2. ASSUME NEW how \in {"succeeded", "skipped"}, Emit(i, Advance(x), Line("status", x.step, how))
        PROVE  RunsInv'
    <3>1. Emit(i, Advance(x), [kind |-> "status", step |-> x.step, status |-> how])
      BY <2>2 DEF Line
    <3>. QED  BY <1>1, <2>1, <3>1, AdvanceStep
  <2>3. CASE Emit(i, [x EXCEPT !.pc = "cleanup"], Line("log", 0, ""))
    <3>1. Place("cleanup", x.step, x.code, x.lights) /\ "cleanup" \in Pcs
      BY <1>2, <2>1 DEF Place, Pcs
    <3>. QED  BY <1>1, <2>3, <3>1, LogStep
  <2>. QED  BY <1>10, <2>2, <2>3 DEF EndsStep
<1>11. CASE FailsStep(i)
  <2>1. x.pc = "cleanup"
    BY <1>11 DEF FailsStep
  <2>2. ASSUME NEW how \in {"warning", "skipped"}, Emit(i, Advance(x), Line("status", x.step, how))
        PROVE  RunsInv'
    <3>1. Emit(i, Advance(x), [kind |-> "status", step |-> x.step, status |-> how])
      BY <2>2 DEF Line
    <3>. QED  BY <1>1, <2>1, <3>1, AdvanceStep
  <2>3. CASE Emit(i, [x EXCEPT !.pc = "cleanupAll"], Line("status", x.step, "failed"))
    <3>1. /\ x.code # 0 /\ x.lights[x.step] # "warning" /\ "cleanupAll" \in Pcs /\ "failed" \in Colours
      BY <1>2, <2>1 DEF Place, Pcs, Colours
    <3>2. Place("cleanupAll", x.step, x.code, [x.lights EXCEPT ![x.step] = "failed"])
      BY <3>1 DEF Place
    <3>. QED  BY <1>1, <2>3, <3>1, <3>2, StatusStep
  <2>. QED  BY <1>11, <2>2, <2>3 DEF FailsStep
<1>12. CASE CleansUp(i)
  <2>1. Place("final", x.step, x.code, x.lights) /\ "final" \in Pcs
    BY <1>2, <1>12 DEF CleansUp, Place, Pcs
  <2>. QED  BY <1>1, <1>12, <2>1, LogStep DEF CleansUp
<1>13. CASE Completes(i)
  <2>1. PICK l : l = [kind |-> "complete", step |-> 0, status |-> ""]
    OBVIOUS
  <2>2. l \in Lines /\ l.kind = "complete" /\ Emit(i, [x EXCEPT !.pc = "exiting"], l)
    BY <1>13, <2>1, OtherLine DEF Completes, Line
  <2>3. Place("exiting", x.step, x.code, Lit(x.lights, l)) /\ "exiting" \in Pcs
    BY <1>2, <1>13, <2>2 DEF Completes, Place, Pcs, Lit
  <2>. QED  BY <1>1, <2>2, <2>3, EmitPc
<1>14. CASE Exits(i)
  <2>1. Place("ended", x.step, x.code, x.lights) /\ "ended" \in Pcs
    BY <1>2, <1>14 DEF Exits, Place, Pcs
  <2>. QED  BY <1>1, <1>14, <2>1, MovePc DEF Exits
<1>15. CASE Killed(i)
  <2>1. CASE Became(i, Died(x))
    BY <1>1, <2>1, Dies
  <2>2. ASSUME NEW cut \in {"cut", "split"}, Became(i, [Died(x) EXCEPT !.pipe = Append(@, Line(cut, 0, ""))])
        PROVE  RunsInv'
    <3>1. PICK l : l = [kind |-> cut, step |-> 0, status |-> ""]
      OBVIOUS
    <3>2. l \in Lines /\ l.kind \in {"cut", "split"}
      BY <3>1, OtherLine
    <3>3. Became(i, [Died(x) EXCEPT !.pipe = Append(@, l)])
      BY <2>2, <3>1 DEF Line
    <3>. QED  BY <1>1, <3>2, <3>3, Dies
  <2>3. CASE Became(i, [x EXCEPT !.wrapper = FALSE])
    <3>1. PICK r : r = [x EXCEPT !.wrapper = FALSE]
      OBVIOUS
    <3>2. /\ r \in RunRecords /\ r.reader = x.reader /\ r.pipe = x.pipe /\ r.lights = x.lights
          /\ r.pc = x.pc /\ r.step = x.step /\ r.code = x.code
      BY <1>1, <3>1 DEF RunRecords
    <3>3. RunOK(r) /\ Became(i, r)
      BY <1>2, <2>3, <3>1, <3>2 DEF RunOK
    <3>. QED  BY <1>1, <3>2, <3>3, ProcessStep
  <2>. QED  BY <1>15, <2>1, <2>2, <2>3 DEF Killed
<1>. QED  BY <1>4, <1>5, <1>6, <1>7, <1>8, <1>9, <1>10, <1>11, <1>12, <1>13, <1>14, <1>15 DEF Executor

\* A step of the thread that reads: the record it watches takes another reader
\* or a shorter pipe.
LEMMA ReaderFrame ==
  ASSUME FinishInv, NEW i \in Installs, Reader(i)
  PROVE  /\ UNCHANGED <<window, form, shared, summary, view>> /\ left' \in LeftType
         /\ left.faults < MaxFaults => left'.faults < MaxFaults
         /\ runs[i].reader \in {"launch", "read"} /\ view.id = i /\ view.id # 0 /\ window.open /\ window.running
         /\ runs[i] \in RunRecords /\ RunOK(runs[i]) /\ runs \in [Installs -> RunRecords]
         /\ runs[i].pipe \in Seq(Lines) /\ runs[i].lights \in AllLights /\ view.lights \in AllLights
         /\ idle \in Seq(Callbacks) /\ InStep(runs[i].pipe, idle, view.lights, runs[i].lights)
         /\ view.result = "none" /\ \A n \in DOMAIN idle : idle[n].kind # "done" /\ idle[n].id = i
<1>1. /\ RunsTypeOK /\ (\A j \in Installs : RunOK(runs[j])) /\ OneFlow /\ Watched /\ Shown /\ left \in LeftType
  BY DEF FinishInv, RunsInv, PagesInv, PagesTypeOK, LeftType
<1>2. UNCHANGED <<window, form, shared, summary, view>> /\ (Fault \/ UNCHANGED left)
      /\ runs[i].reader \in {"launch", "read"} /\ window.open
  BY DEF Reader, Launches, ReadsLine, ReadsResult
<1>3. left' \in LeftType /\ (left.faults < MaxFaults => left'.faults < MaxFaults)
  BY <1>1, <1>2, LeftShrinks
<1>4. view.id = i /\ window.running /\ view.id # 0
  BY <1>1, <1>2 DEF OneFlow, Installs
<1>5. /\ runs[i] \in RunRecords /\ RunOK(runs[i]) /\ runs \in [Installs -> RunRecords]
      /\ view.lights \in AllLights /\ idle \in Seq(Callbacks)
  BY <1>1 DEF RunsTypeOK
<1>6. runs[i].pipe \in Seq(Lines) /\ runs[i].lights \in AllLights
  BY <1>5 DEF RunRecords
<1>7. InStep(runs[i].pipe, idle, view.lights, runs[i].lights)
  BY <1>1, <1>4 DEF Watched
<1>8. view.result = "none"
  BY <1>1, <1>2, <1>4 DEF Shown
<1>9. \A n \in DOMAIN idle : idle[n].kind # "done" /\ idle[n].id = i
  BY <1>1, <1>2, <1>4 DEF OneFlow
<1>. QED  BY <1>2, <1>3, <1>4, <1>5, <1>6, <1>7, <1>8, <1>9

\* What is left to show after such a step.
LEMMA ReaderStep ==
  ASSUME FinishInv, NEW i \in Installs, Reader(i), NEW r \in RunRecords, RunOK(r), Became(i, r),
         r.reader \in {"launch", "read", "done", "dead"}, r.code = runs[i].code,
         idle' \in Seq(Callbacks), InStep(r.pipe, idle', view.lights, r.lights),
         \A n \in DOMAIN idle' : idle'[n].id = i,
         \A n \in DOMAIN idle' : idle'[n].kind = "done" =>
           /\ n = Len(idle') /\ r.reader = "done" /\ idle'[n].status \in {"complete", "failed"}
           /\ idle'[n].status = "complete" => r.code = 0,
         r.reader # "launch",
         r.reader = "done" => r.pipe = <<>> /\ r.pc \in {"off", "ended"}
  PROVE  RunsInv'
<1>1. /\ RunsTypeOK /\ (\A j \in Installs : RunOK(runs[j])) /\ OneFlow /\ Watched /\ Shown /\ LossIsFault /\ Unlaunched
  BY DEF FinishInv, RunsInv
<1>2. /\ UNCHANGED <<window, view>> /\ (left.faults < MaxFaults => left'.faults < MaxFaults)
      /\ view.id = i /\ view.id # 0 /\ window.open /\ window.running /\ runs \in [Installs -> RunRecords]
      /\ view.result = "none"
  BY ReaderFrame
<1>3. /\ runs' = [runs EXCEPT ![i] = r] /\ runs' \in [Installs -> RunRecords] /\ runs'[i] = r
      /\ \A j \in Installs : j # i => runs'[j] = runs[j]
  BY <1>2 DEF Became
<1>4. RunsTypeOK' /\ (\A j \in Installs : RunOK(runs'[j])) /\ LossIsFault' /\ Unlaunched'
  BY <1>1, <1>2, <1>3 DEF RunsTypeOK, LossIsFault, Unlaunched
<1>5. OneFlow'
  BY <1>1, <1>2, <1>3 DEF OneFlow
<1>6. Watched'
  BY <1>2, <1>3 DEF Watched, Alive
<1>7. Shown'
  BY <1>1, <1>2 DEF Shown
<1>. QED  BY <1>4, <1>5, <1>6, <1>7 DEF RunsInv, RunOK

\* The callback that ends the flow is posted after every other.
LEMMA DonePosted ==
  ASSUME NEW callbacks \in Seq(Callbacks), NEW i \in Installs, NEW status \in {"complete", "failed"},
         \A n \in DOMAIN callbacks : callbacks[n].kind # "done" /\ callbacks[n].id = i,
         NEW c, c = [id |-> i, kind |-> "done", step |-> 0, status |-> status],
         NEW pipe, NEW shown, NEW lights, InStep(pipe, callbacks, shown, lights)
  PROVE  LET C == Append(callbacks, c) IN
         /\ C \in Seq(Callbacks) /\ InStep(pipe, C, shown, lights)
         /\ \A n \in DOMAIN C : C[n].id = i
         /\ \A n \in DOMAIN C : C[n].kind = "done" => n = Len(C) /\ C[n].status = status
<1>. DEFINE C == Append(callbacks, c)
<1>1. c.kind = "done" /\ c.id = i /\ c.status = status
  OBVIOUS
<1>2. c \in Callbacks
  BY NoStep DEF Callbacks, Colours
<1>3. /\ C \in Seq(Callbacks) /\ Len(callbacks) \in Nat /\ Len(C) = Len(callbacks) + 1 /\ DOMAIN C = 1..Len(C)
      /\ (\A n \in DOMAIN callbacks : C[n] = callbacks[n]) /\ C[Len(C)] = c /\ DOMAIN callbacks = 1..Len(callbacks)
  BY <1>2
<1>4. \A n \in DOMAIN C : n \in DOMAIN callbacks \/ n = Len(C)
  BY <1>3
<1>5. \A s : ~About(c, s)
  BY <1>1 DEF About
<1>6. ASSUME NEW s \in DOMAIN Steps
      PROVE  Tells(pipe, C, shown, s, lights[s]) /\ WarnedLast(pipe, C, shown, s)
  <2>. DEFINE x == lights[s]
  <2>1. Tells(pipe, callbacks, shown, s, x) /\ WarnedLast(pipe, callbacks, shown, s)
    BY DEF InStep
  <2>2. /\ Silent(C, s) <=> Silent(callbacks, s)
        /\ EndsWith(callbacks, s, x) => EndsWith(C, s, x)
        /\ WarnsLast(callbacks, s) => WarnsLast(C, s)
        /\ Warns(C, s) <=> Warns(callbacks, s)
    BY <1>2, <1>5, AppendOther
  <2>. HIDE DEF C, x
  <2>. QED  BY <2>1, <2>2 DEF Tells, WarnedLast, x
<1>7. InStep(pipe, C, shown, lights)
  BY <1>6 DEF InStep
<1>. HIDE DEF C
<1>8. \A n \in DOMAIN C : C[n].id = i /\ (C[n].kind = "done" => n = Len(C) /\ C[n].status = status)
  BY <1>1, <1>3, <1>4
<1>. QED  BY <1>3, <1>7, <1>8 DEF C

\* subprocess.Popen.
LEMMA LaunchRuns ==
  ASSUME FinishInv, NEW i \in Installs, Launches(i)
  PROVE  RunsInv'
<1>. DEFINE x == runs[i]
<1>1. /\ x.reader = "launch" /\ view.id = i /\ view.id # 0 /\ x \in RunRecords /\ RunOK(x) /\ Reader(i)
      /\ idle \in Seq(Callbacks) /\ InStep(x.pipe, idle, view.lights, x.lights)
      /\ \A n \in DOMAIN idle : idle[n].kind # "done" /\ idle[n].id = i
  BY ReaderFrame DEF Reader, Launches
<1>2. x.pc = "off" /\ Watched /\ RunsTypeOK
  BY <1>1 DEF FinishInv, RunsInv, Watched
<1>3. x.pipe = <<>>
  BY <1>1 DEF FinishInv, RunsInv, Unlaunched
<1>4. CASE Became(i, [x EXCEPT !.pc = "start", !.reader = "read"]) /\ UNCHANGED idle
  <2>1. PICK r : r = [x EXCEPT !.pc = "start", !.reader = "read"]
    OBVIOUS
  <2>2. /\ r \in RunRecords /\ r.reader = "read" /\ r.pipe = x.pipe /\ r.lights = x.lights
        /\ r.pc = "start" /\ r.step = x.step /\ r.code = x.code
    BY <1>1, <2>1 DEF RunRecords, Pcs
  <2>3. RunOK(r) /\ Became(i, r)
    BY <1>1, <1>2, <1>4, <2>1, <2>2 DEF RunOK, Place
  <2>. QED  BY <1>1, <1>4, <2>2, <2>3, ReaderStep
<1>5. CASE Became(i, [x EXCEPT !.reader = "done"]) /\ Posted(Callback(i, "done", 0, "failed"))
  <2>1. PICK r : r = [x EXCEPT !.reader = "done"]
    OBVIOUS
  <2>2. /\ r \in RunRecords /\ r.reader = "done" /\ r.pipe = x.pipe /\ r.lights = x.lights
        /\ r.pc = "off" /\ r.step = x.step /\ r.code = x.code
    BY <1>1, <1>2, <2>1 DEF RunRecords
  <2>3. RunOK(r) /\ Became(i, r)
    BY <1>1, <1>2, <1>5, <2>1, <2>2 DEF RunOK
  <2>4. PICK c : c = [id |-> i, kind |-> "done", step |-> 0, status |-> "failed"]
    OBVIOUS
  <2>5. idle' = Append(idle, c)
    BY <1>5, <2>4 DEF Posted, Callback
  <2>6. /\ idle' \in Seq(Callbacks) /\ InStep(x.pipe, idle', view.lights, x.lights)
        /\ \A n \in DOMAIN idle' : idle'[n].id = i
        /\ \A n \in DOMAIN idle' : idle'[n].kind = "done" => n = Len(idle') /\ idle'[n].status = "failed"
    BY <1>1, <2>4, <2>5, DonePosted
  <2>. QED  BY <1>1, <1>3, <2>2, <2>3, <2>6, ReaderStep
<1>. QED  BY <1>4, <1>5 DEF Launches

\* A line is read: posted, or only logged.
LEMMA LineRuns ==
  ASSUME FinishInv, NEW i \in Installs, ReadsLine(i)
  PROVE  RunsInv'
<1>. DEFINE x == runs[i]
<1>1. /\ x.reader = "read" /\ view.id = i /\ view.id # 0 /\ x \in RunRecords /\ RunOK(x) /\ Reader(i)
      /\ idle \in Seq(Callbacks) /\ InStep(x.pipe, idle, view.lights, x.lights)
      /\ \A n \in DOMAIN idle : idle[n].kind # "done" /\ idle[n].id = i
  BY ReaderFrame DEF Reader, ReadsLine
<1>2. /\ x.pipe \in Seq(Lines) /\ x.lights \in AllLights /\ view.lights \in AllLights /\ x.pipe # <<>>
  BY <1>1, ReaderFrame DEF ReadsLine
<1>3. PICK h : h = Head(x.pipe)
  OBVIOUS
<1>4. h \in Lines /\ Tail(x.pipe) \in Seq(Lines)
  BY <1>2, <1>3
<1>10. PICK next \in {"read", "dead"} : next = IF h.kind = "split" THEN "dead" ELSE "read"
  OBVIOUS
<1>5. PICK r : r = [x EXCEPT !.pipe = Tail(x.pipe), !.reader = next]
  OBVIOUS
<1>6. /\ r \in RunRecords /\ r.reader \in {"read", "dead"} /\ r.pipe = Tail(x.pipe) /\ r.lights = x.lights
      /\ r.pc = x.pc /\ r.step = x.step /\ r.code = x.code
  BY <1>1, <1>4, <1>5 DEF RunRecords
<1>7. RunOK(r) /\ Became(i, r)
  BY <1>1, <1>3, <1>5, <1>6, <1>10 DEF RunOK, ReadsLine
<1>8. CASE h.kind = "status"
  <2>1. PICK c : c = [id |-> i, kind |-> "status", step |-> h.step, status |-> h.status]
    OBVIOUS
  <2>2. c.id = i /\ c.kind = "status" /\ c.step = h.step /\ c.status = h.status
    BY <2>1
  <2>3. idle' = Append(idle, c)
    BY <1>3, <1>8, <2>1 DEF ReadsLine, Posted, Callback
  <2>4. h.step \in 0..Len(Steps) /\ h.step # 0 /\ h.status \in Colours /\ h.status # "complete"
    BY <1>4, <1>8 DEF Lines, Colours
  <2>5. c \in Callbacks
    BY <2>1, <2>4 DEF Callbacks
  <2>6. InStep(Tail(x.pipe), idle', view.lights, x.lights)
    BY <1>1, <1>2, <1>3, <1>8, <2>2, <2>3, <2>5, LineMoves
  <2>7. /\ idle' \in Seq(Callbacks) /\ Len(idle) \in Nat /\ DOMAIN idle' = 1..(Len(idle) + 1)
        /\ (\A n \in DOMAIN idle : idle'[n] = idle[n]) /\ idle'[Len(idle) + 1] = c /\ DOMAIN idle = 1..Len(idle)
    BY <1>1, <2>3, <2>5
  <2>8. \A n \in DOMAIN idle' : n \in DOMAIN idle \/ n = Len(idle) + 1
    BY <2>7
  <2>9. \A n \in DOMAIN idle' : idle'[n].id = i /\ idle'[n].kind # "done"
    BY <1>1, <2>2, <2>7, <2>8
  <2>. QED  BY <1>1, <1>6, <1>7, <2>6, <2>7, <2>9, ReaderStep
<1>9. CASE h.kind # "status"
  <2>1. idle' = idle
    BY <1>3, <1>9 DEF ReadsLine
  <2>2. InStep(Tail(x.pipe), idle', view.lights, x.lights)
    BY <1>1, <1>2, <1>3, <1>9, <2>1, LineDropped
  <2>. QED  BY <1>1, <1>6, <1>7, <2>1, <2>2, ReaderStep
<1>. QED  BY <1>8, <1>9

\* The end of the pipe, and the exit status.
LEMMA ResultRuns ==
  ASSUME FinishInv, NEW i \in Installs, ReadsResult(i)
  PROVE  RunsInv'
<1>. DEFINE x == runs[i]
<1>1. /\ x.reader = "read" /\ view.id = i /\ view.id # 0 /\ x \in RunRecords /\ RunOK(x) /\ Reader(i)
      /\ idle \in Seq(Callbacks) /\ InStep(x.pipe, idle, view.lights, x.lights)
      /\ \A n \in DOMAIN idle : idle[n].kind # "done" /\ idle[n].id = i
  BY ReaderFrame DEF Reader, ReadsResult
<1>2. x.pc = "ended" /\ x.pipe = <<>>
  BY DEF ReadsResult, EndOfFile
<1>3. PICK r : r = [x EXCEPT !.reader = "done"]
  OBVIOUS
<1>4. /\ r \in RunRecords /\ r.reader = "done" /\ r.pipe = <<>> /\ r.lights = x.lights
      /\ r.pc = "ended" /\ r.step = x.step /\ r.code = x.code
  BY <1>1, <1>2, <1>3 DEF RunRecords
<1>5. RunOK(r) /\ Became(i, r)
  BY <1>1, <1>2, <1>3, <1>4 DEF RunOK, ReadsResult
<1>6. PICK status \in {"complete", "failed"} :
        status = (IF x.code = 0 /\ x.wrapper THEN "complete" ELSE "failed")
  OBVIOUS
<1>7. status = "complete" => r.code = 0
  BY <1>4, <1>6
<1>8. PICK c : c = [id |-> i, kind |-> "done", step |-> 0, status |-> status]
  OBVIOUS
<1>9. idle' = Append(idle, c)
  BY <1>6, <1>8 DEF ReadsResult, Posted, Callback
<1>10. /\ idle' \in Seq(Callbacks) /\ InStep(x.pipe, idle', view.lights, x.lights)
       /\ \A n \in DOMAIN idle' : idle'[n].id = i
       /\ \A n \in DOMAIN idle' : idle'[n].kind = "done" => n = Len(idle') /\ idle'[n].status = status
  BY <1>1, <1>8, <1>9, DonePosted
<1>. QED  BY <1>1, <1>2, <1>4, <1>5, <1>7, <1>10, ReaderStep

\* The warnings are among the steps.
LEMMA WarnedFinite ==
  ASSUME NEW lights
  PROVE  IsFiniteSet(Warned(lights))
<1>1. IsFiniteSet(1..Len(Steps))
  BY StepNumbers, FS_Interval
<1>2. Warned(lights) \subseteq 1..Len(Steps)
  BY StepNumbers DEF Warned
<1>. QED  BY <1>1, <1>2, FS_Subset

\* update_step_status counts a warning when it shows it.
LEMMA WarningCounted ==
  ASSUME NEW shown \in AllLights, NEW s \in DOMAIN Steps, NEW x \in Colours, shown[s] # "warning",
         NEW new, new = [shown EXCEPT ![s] = x]
  PROVE  Cardinality(Warned(new)) = IF x = "warning" THEN Cardinality(Warned(shown)) + 1
                                    ELSE Cardinality(Warned(shown))
<1>1. \A t \in DOMAIN Steps : new[t] = IF t = s THEN x ELSE shown[t]
  BY DEF AllLights
<1>2. s \notin Warned(shown)
  BY DEF Warned
<1>3. CASE x = "warning"
  <2>1. Warned(new) = Warned(shown) \cup {s}
    BY <1>1, <1>3 DEF Warned
  <2>. QED  BY <1>2, <1>3, <2>1, WarnedFinite, FS_AddElement
<1>4. CASE x # "warning"
  <2>1. Warned(new) = Warned(shown)
    BY <1>1, <1>4 DEF Warned
  <2>. QED  BY <1>4, <2>1
<1>. QED  BY <1>3, <1>4

\* A callback of the main loop.
LEMMA CallbackRuns ==
  ASSUME FinishInv, RunsCallback
  PROVE  RunsInv'
<1>1. /\ RunsTypeOK /\ (\A j \in Installs : RunOK(runs[j])) /\ OneFlow /\ Watched /\ Shown /\ LossIsFault /\ Unlaunched
      /\ window \in [open : BOOLEAN, front : Pages, running : BOOLEAN]
  BY DEF FinishInv, RunsInv, PagesInv, PagesTypeOK
<1>2. PICK h : h = Head(idle)
  OBVIOUS
<1>3. /\ idle # <<>> /\ idle' = Tail(idle) /\ view' = Updated(view, h) /\ UNCHANGED <<runs, left>> /\ window.open
      /\ window' = IF h.kind = "done" THEN [window EXCEPT !.running = FALSE] ELSE window
  BY <1>2 DEF RunsCallback
<1>4. /\ idle \in Seq(Callbacks) /\ view.lights \in AllLights
      /\ view \in [id : 0..MaxInstalls, lights : AllLights, warnings : Nat, result : {"none", "complete", "failed"}]
  BY <1>1 DEF RunsTypeOK
<1>5. /\ Tail(idle) \in Seq(Callbacks) /\ h \in Callbacks /\ Len(idle) \in Nat \ {0} /\ h = idle[1] /\ 1 \in DOMAIN idle
      /\ DOMAIN idle = 1..Len(idle) /\ DOMAIN Tail(idle) = 1..(Len(idle) - 1)
      /\ Len(Tail(idle)) = Len(idle) - 1 /\ \A n \in DOMAIN Tail(idle) : Tail(idle)[n] = idle[n + 1]
  BY <1>2, <1>3, <1>4
<1>6. window.running /\ view.id # 0 /\ view.result = "none" /\ h.id = view.id
  BY <1>1, <1>3, <1>5 DEF OneFlow
<1>7. view.id \in Installs
  BY <1>4, <1>6, FinishBounds DEF Installs
<1>8. runs[view.id] \in RunRecords /\ InStep(runs[view.id].pipe, idle, view.lights, runs[view.id].lights)
  BY <1>1, <1>6, <1>7 DEF RunsTypeOK, Watched
<1>9. runs[view.id].pipe \in Seq(Lines) /\ runs[view.id].lights \in AllLights
  BY <1>8 DEF RunRecords
<1>10. (\A j \in Installs : RunOK(runs'[j])) /\ LossIsFault' /\ Unlaunched'
  BY <1>1, <1>3 DEF LossIsFault, Unlaunched
<1>11. \A n \in DOMAIN Tail(idle) : /\ n + 1 \in DOMAIN idle /\ Tail(idle)[n] = idle[n + 1]
                                    /\ n + 1 = Len(idle) => n = Len(Tail(idle))
  BY <1>5
<1>12. CASE h.kind = "status"
  <2>1. PICK new : new = [view.lights EXCEPT ![h.step] = h.status]
    OBVIOUS
  <2>2. /\ InStep(runs[view.id].pipe, Tail(idle), new, runs[view.id].lights)
        /\ view.lights[h.step] # "warning" /\ h.step \in DOMAIN Steps /\ new \in AllLights
    BY <1>2, <1>3, <1>4, <1>8, <1>9, <1>12, <2>1, CallbackShows
  <2>3. h.status \in Colours
    BY <1>5, <1>12, EventTypes
  <2>4. view' = [view EXCEPT !.lights = new, !.warnings = IF h.status = "warning" THEN view.warnings + 1 ELSE view.warnings]
    BY <1>3, <1>4, <1>6, <1>12, <2>1 DEF Updated
  <2>5. /\ view' \in [id : 0..MaxInstalls, lights : AllLights, warnings : Nat, result : {"none", "complete", "failed"}]
        /\ view'.id = view.id /\ view'.lights = new /\ view'.result = "none"
        /\ view'.warnings = IF h.status = "warning" THEN view.warnings + 1 ELSE view.warnings
    <3>1. PICK w \in Nat : w = IF h.status = "warning" THEN view.warnings + 1 ELSE view.warnings
      BY <1>4
    <3>2. view' = [view EXCEPT !.lights = new, !.warnings = w]
      BY <2>4, <3>1
    <3>. QED  BY <1>4, <1>6, <2>2, <3>1, <3>2
  <2>6. view'.warnings = Cardinality(Warned(view'.lights))
    BY <1>1, <1>4, <2>1, <2>2, <2>3, <2>5, WarningCounted DEF Shown
  <2>7. window' = window
    BY <1>3, <1>12
  <2>8. RunsTypeOK'
    BY <1>1, <1>3, <1>5, <2>5 DEF RunsTypeOK
  <2>9. OneFlow'
    <3>1. \A n \in DOMAIN idle' : /\ n + 1 \in DOMAIN idle /\ idle'[n] = idle[n + 1]
                                  /\ n + 1 = Len(idle) => n = Len(idle')
      BY <1>3, <1>11
    <3>2. ASSUME NEW n \in DOMAIN idle'
          PROVE  /\ idle'[n].id = view.id
                 /\ idle'[n].kind = "done" => /\ n = Len(idle') /\ runs[view.id].reader = "done"
                                              /\ idle'[n].status \in {"complete", "failed"}
                                              /\ idle'[n].status = "complete" => runs[view.id].code = 0
      BY <1>1, <3>1 DEF OneFlow
    <3>3. ASSUME NEW j \in Installs, runs[j].reader \in {"launch", "read", "dead"}
          PROVE  window.open /\ window.running /\ view.id = j
      BY <1>1, <3>3 DEF OneFlow
    <3>. QED  BY <1>3, <1>6, <2>5, <2>7, <3>2, <3>3 DEF OneFlow
  <2>10. Watched'
    BY <1>1, <1>3, <1>6, <2>2, <2>5, <2>7 DEF Watched, Alive
  <2>11. Shown'
    BY <2>5, <2>6 DEF Shown
  <2>. QED  BY <1>10, <2>8, <2>9, <2>10, <2>11 DEF RunsInv, RunOK
<1>13. CASE h.kind = "done"
  <2>1. /\ Len(idle) = 1 /\ runs[view.id].reader = "done" /\ h.status \in {"complete", "failed"}
        /\ h.status = "complete" => runs[view.id].code = 0
    BY <1>1, <1>5, <1>13 DEF OneFlow
  <2>2. idle' = <<>>
    BY <1>3, <1>4, <2>1
  <2>3. view' = [view EXCEPT !.result = h.status] /\ window' = [window EXCEPT !.running = FALSE]
    BY <1>3, <1>6, <1>13 DEF Updated
  <2>4. /\ view' \in [id : 0..MaxInstalls, lights : AllLights, warnings : Nat, result : {"none", "complete", "failed"}]
        /\ view'.id = view.id /\ view'.lights = view.lights /\ view'.result = h.status
        /\ view'.warnings = view.warnings /\ window'.open
    BY <1>1, <1>3, <1>4, <2>1, <2>3
  <2>5. RunsTypeOK'
    BY <1>1, <1>3, <1>5, <2>4 DEF RunsTypeOK
  <2>6. OneFlow'
    <3>1. \A j \in Installs : runs[j].reader \notin {"launch", "read", "dead"}
      BY <1>1, <2>1 DEF OneFlow
    <3>. QED  BY <1>3, <2>2, <3>1 DEF OneFlow
  <2>7. InStep(runs[view.id].pipe, <<>>, view.lights, runs[view.id].lights)
    <3>1. ASSUME NEW s \in DOMAIN Steps
          PROVE  /\ Tells(runs[view.id].pipe, Tail(idle), view.lights, s, runs[view.id].lights[s])
                 /\ WarnedLast(runs[view.id].pipe, Tail(idle), view.lights, s)
      <4>. DEFINE y == runs[view.id].lights[s]
                  P == runs[view.id].pipe
      <4>1. Tells(P, idle, view.lights, s, y) /\ WarnedLast(P, idle, view.lights, s)
        BY <1>8 DEF InStep
      <4>2. /\ Silent(idle, s) => Silent(Tail(idle), s)
            /\ Warns(Tail(idle), s) => Warns(idle, s)
            /\ WarnsLast(idle, s) => WarnsLast(Tail(idle), s)
            /\ EndsWith(idle, s, y) => \/ EndsWith(Tail(idle), s, y)
                                       \/ About(h, s) /\ h.status = y /\ Silent(Tail(idle), s)
        BY <1>2, <1>3, <1>4, TailSays
      <4>3. ~About(h, s)
        BY <1>13 DEF About
      <4>. HIDE DEF y, P
      <4>. QED  BY <4>1, <4>2, <4>3 DEF Tells, WarnedLast, y, P
    <3>2. Tail(idle) = <<>>
      BY <1>3, <2>2
    <3>. QED  BY <3>1, <3>2 DEF InStep
  <2>8. Watched'
    BY <1>1, <1>3, <1>6, <2>2, <2>4, <2>7 DEF Watched, Alive
  <2>9. Shown'
    BY <1>1, <1>3, <1>6, <2>1, <2>2, <2>4 DEF Shown
  <2>. QED  BY <1>10, <2>5, <2>6, <2>8, <2>9 DEF RunsInv, RunOK
<1>14. h.kind \in {"status", "done"}
  BY <1>5 DEF Callbacks
<1>. QED  BY <1>12, <1>13, <1>14

\* An installation that was not started, and a new progress page.
LEMMA NewRun ==
  /\ NoRun \in RunRecords /\ RunOK(NoRun) /\ NoRun.reader = "none" /\ NoRun.pc = "off" /\ NoRun.pipe = <<>>
  /\ NoRun.lights = [s \in DOMAIN Steps |-> "pending"] /\ NoRun.code = 1
  /\ \A i \in 0..MaxInstalls :
       /\ NewView(i) \in [id : 0..MaxInstalls, lights : AllLights, warnings : Nat, result : {"none", "complete", "failed"}]
       /\ NewView(i).id = i /\ NewView(i).lights = [s \in DOMAIN Steps |-> "pending"]
       /\ NewView(i).warnings = 0 /\ NewView(i).result = "none"
  /\ Cardinality(Warned([s \in DOMAIN Steps |-> "pending"])) = 0
<1>. DEFINE dark == [s \in DOMAIN Steps |-> "pending"]
<1>1. dark \in AllLights /\ \A s \in DOMAIN Steps : dark[s] = "pending"
  BY DEF AllLights, Colours
<1>2. Cardinality(Warned(dark)) = 0
  <2>1. Warned(dark) = {}
    BY <1>1 DEF Warned
  <2>. QED  BY <2>1, FS_EmptySet
<1>. HIDE DEF dark
<1>3. NoRun = [pc |-> "off", step |-> 1, code |-> 1, pipe |-> <<>>, wrapper |-> TRUE,
               reader |-> "none", lights |-> dark, plan |-> <<>>]
  BY DEF NoRun, dark
<1>4. "off" \in Pcs /\ 1 \in DOMAIN Steps /\ <<>> \in Seq(Lines) /\ <<>> \in Plans
  BY StepNumbers DEF Pcs, Plans
<1>5. /\ NoRun \in RunRecords /\ NoRun.reader = "none" /\ NoRun.pc = "off" /\ NoRun.pipe = <<>>
      /\ NoRun.lights = dark /\ NoRun.code = 1
  BY <1>1, <1>3, <1>4 DEF RunRecords
<1>6. RunOK(NoRun)
  BY <1>1, <1>5 DEF RunOK, Place
<1>7. ASSUME NEW i \in 0..MaxInstalls
      PROVE  /\ NewView(i) \in [id : 0..MaxInstalls, lights : AllLights, warnings : Nat,
                                result : {"none", "complete", "failed"}]
             /\ NewView(i).id = i /\ NewView(i).lights = dark /\ NewView(i).warnings = 0 /\ NewView(i).result = "none"
  <2>1. NewView(i) = [id |-> i, lights |-> dark, warnings |-> 0, result |-> "none"]
    BY DEF NewView, dark
  <2>. QED  BY <1>1, <2>1
<1>. QED  BY <1>2, <1>5, <1>6, <1>7 DEF dark

\* _confirmed: nothing of an earlier installation is on its way.
LEMMA ConfirmRuns ==
  ASSUME FinishInv, Confirm
  PROVE  RunsInv'
<1>. DEFINE dark == [s \in DOMAIN Steps |-> "pending"]
<1>1. /\ RunsTypeOK /\ (\A j \in Installs : RunOK(runs[j])) /\ OneFlow /\ Watched /\ Shown /\ LossIsFault /\ Unlaunched
      /\ window \in [open : BOOLEAN, front : Pages, running : BOOLEAN] /\ summary.plan \in Plans /\ InProgress
  BY DEF FinishInv, RunsInv, PagesInv, PagesTypeOK
<1>2. PICK i \in Installs :
        /\ window.open /\ summary.stage = "dialog" /\ runs[i] = NoRun
        /\ window' = [window EXCEPT !.running = TRUE, !.front = "progress"]
        /\ runs' = [runs EXCEPT ![i].reader = "launch", ![i].plan = summary.plan]
        /\ view' = NewView(i) /\ UNCHANGED <<idle, left>>
  BY DEF Confirm
<1>3. ~window.running /\ idle = <<>> /\ \A j \in Installs : runs[j].reader \notin {"launch", "read", "dead"}
  BY <1>1, <1>2 DEF InProgress, OneFlow
<1>4. window'.open /\ window'.running
  BY <1>1, <1>2
<1>5. PICK r : r = [NoRun EXCEPT !.reader = "launch", !.plan = summary.plan]
  OBVIOUS
<1>6. /\ r \in RunRecords /\ r.reader = "launch" /\ r.pc = "off" /\ r.pipe = <<>> /\ r.lights = NoRun.lights
      /\ r.step = NoRun.step /\ r.code = NoRun.code
  BY <1>1, <1>5, NewRun DEF RunRecords
<1>7. RunOK(r) /\ r.lights = dark
  BY <1>6, NewRun DEF RunOK
<1>8. runs \in [Installs -> RunRecords]
  BY <1>1 DEF RunsTypeOK
<1>9. /\ runs' \in [Installs -> RunRecords] /\ runs'[i] = r
      /\ \A j \in Installs : j # i => runs'[j] = runs[j]
  <2>1. runs' = [runs EXCEPT ![i] = [runs[i] EXCEPT !.reader = "launch", !.plan = summary.plan]]
    BY <1>2, <1>8 DEF RunRecords
  <2>2. runs' = [runs EXCEPT ![i] = r]
    BY <1>2, <1>5, <2>1
  <2>. QED  BY <1>6, <1>8, <2>2
<1>10. i \in 0..MaxInstalls /\ i # 0
  BY FinishBounds DEF Installs
<1>11. /\ view' \in [id : 0..MaxInstalls, lights : AllLights, warnings : Nat, result : {"none", "complete", "failed"}]
       /\ view'.id = i /\ view'.lights = dark /\ view'.warnings = 0 /\ view'.result = "none"
  BY <1>2, <1>10, NewRun
<1>12. RunsTypeOK' /\ (\A j \in Installs : RunOK(runs'[j])) /\ LossIsFault' /\ Unlaunched'
  BY <1>1, <1>2, <1>6, <1>7, <1>9, <1>11 DEF RunsTypeOK, LossIsFault, Unlaunched
<1>13. OneFlow'
  BY <1>2, <1>3, <1>4, <1>9, <1>11 DEF OneFlow
<1>14. InStep(r.pipe, idle', dark, dark)
  <2>1. ASSUME NEW s \in DOMAIN Steps
        PROVE  Tells(<<>>, <<>>, dark, s, dark[s]) /\ WarnedLast(<<>>, <<>>, dark, s)
    BY EmptySays DEF Tells, WarnedLast
  <2>. QED  BY <1>2, <1>3, <1>6, <2>1 DEF InStep
<1>15. Watched'
  BY <1>4, <1>6, <1>7, <1>9, <1>11, <1>14 DEF Watched
<1>16. Shown'
  BY <1>11, NewRun DEF Shown
<1>. QED  BY <1>12, <1>13, <1>15, <1>16 DEF RunsInv, RunOK

\* The window goes with its threads: an installation is lost only by a crash.
LEMMA GoneRuns ==
  ASSUME FinishInv, Gone, left.faults < MaxFaults => left'.faults < MaxFaults,
         window.running => left'.faults < MaxFaults
  PROVE  RunsInv'
<1>. DEFINE dark == [s \in DOMAIN Steps |-> "pending"]
<1>1. /\ RunsTypeOK /\ (\A j \in Installs : RunOK(runs[j])) /\ OneFlow /\ LossIsFault
  BY DEF FinishInv, RunsInv
<1>2. /\ idle' = <<>> /\ view' = NewView(0)
      /\ runs' = [i \in Installs |-> IF runs[i].reader \in {"none", "done"} THEN runs[i]
                                     ELSE [runs[i] EXCEPT !.reader = "lost", !.pipe = <<>>]]
  BY DEF Gone
<1>3. ASSUME NEW i \in Installs
      PROVE  /\ runs'[i] \in RunRecords /\ RunOK(runs'[i]) /\ runs'[i].reader \notin {"launch", "read", "dead"}
             /\ runs'[i].reader = "lost" => left'.faults < MaxFaults
  <2>1. runs[i] \in RunRecords /\ RunOK(runs[i])
    BY <1>1 DEF RunsTypeOK
  <2>2. CASE runs[i].reader \in {"none", "done"}
    BY <1>2, <2>1, <2>2
  <2>3. CASE runs[i].reader \notin {"none", "done"}
    <3>1. PICK r : r = [runs[i] EXCEPT !.reader = "lost", !.pipe = <<>>]
      OBVIOUS
    <3>2. /\ r \in RunRecords /\ r.reader = "lost" /\ r.pc = runs[i].pc /\ r.step = runs[i].step
          /\ r.code = runs[i].code /\ r.lights = runs[i].lights
      <4>1. <<>> \in Seq(Lines)
        OBVIOUS
      <4>. QED  BY <2>1, <3>1, <4>1 DEF RunRecords
    <3>3. RunOK(r) /\ runs'[i] = r
      BY <1>2, <2>1, <2>3, <3>1, <3>2 DEF RunOK
    <3>4. runs[i].reader \in {"launch", "read", "dead", "lost"}
      BY <2>1, <2>3 DEF RunRecords
    <3>5. left'.faults < MaxFaults
      BY <1>1, <3>4 DEF OneFlow, LossIsFault
    <3>. QED  BY <3>2, <3>3, <3>5
  <2>. QED  BY <2>2, <2>3
<1>4. runs' \in [Installs -> RunRecords]
  BY <1>2, <1>3
<1>5. 0 \in 0..MaxInstalls
  BY FinishBounds
<1>6. /\ view' \in [id : 0..MaxInstalls, lights : AllLights, warnings : Nat, result : {"none", "complete", "failed"}]
      /\ view'.id = 0 /\ view'.lights = dark /\ view'.warnings = 0 /\ view'.result = "none"
  BY <1>2, <1>5, NewRun
<1>7. idle' \in Seq(Callbacks) /\ DOMAIN idle' = {}
  BY <1>2, EmptySequence
<1>8. OneFlow' /\ Watched'
  <2>1. OneFlow'
    BY <1>2, <1>3, <1>7 DEF OneFlow
  <2>. QED  BY <1>6, <2>1 DEF Watched
<1>9. Shown'
  BY <1>6, NewRun DEF Shown
<1>10. LossIsFault' /\ Unlaunched' /\ RunsTypeOK'
  BY <1>3, <1>4, <1>6, <1>7 DEF LossIsFault, Unlaunched, RunsTypeOK
<1>. QED  BY <1>3, <1>8, <1>9, <1>10 DEF RunsInv, RunOK

-----------------------------------------------------------------------------
(* The invariant *)

\* Whatever is done on a page, except to confirm, leaves the processes alone.
PageAction ==
  \/ TypeFullName \/ TypeUsername \/ TypeHostname \/ TypePasswords \/ ToggleOption \/ ChooseZone
  \/ NextFromUser \/ NextFromOptions \/ NextFromTimezone \/ PressInstall \/ AnswerSwap \/ CancelDialog
  \/ BackFromUser \/ GoBack \/ DeliverRecheck \/ NetworkChanges

LEMMA PageActionRuns ==
  ASSUME FinishInv, PageAction
  PROVE  RunsInv'
<1>1. UNCHANGED <<runs, idle, view>>
  BY DEF PageAction, TypeFullName, TypeUsername, TypeHostname, TypePasswords, ToggleOption, ChooseZone, NextFromUser,
     NextFromOptions, NextFromTimezone, PressInstall, AnswerSwap, CancelDialog, BackFromUser, GoBack, NetworkChanges, DeliverRecheck,
     processes
<1>2. Fault \/ OneEdit \/ OneBack \/ UNCHANGED left
  BY DEF PageAction, TypeFullName, TypeUsername, TypeHostname, TypePasswords, ToggleOption, ChooseZone, NextFromUser,
     NextFromOptions, NextFromTimezone, PressInstall, AnswerSwap, CancelDialog, BackFromUser, GoBack, NetworkChanges, DeliverRecheck
<1>3. window' = window \/ \E front : window' = [window EXCEPT !.front = front]
  <2>1. CASE NextFromUser \/ NextFromOptions \/ NextFromTimezone
    BY <2>1 DEF NextFromUser, NextFromOptions, NextFromTimezone
  <2>2. CASE GoBack
    BY <2>2 DEF GoBack
  <2>. QED  BY <2>1, <2>2 DEF PageAction, TypeFullName, TypeUsername, TypeHostname, TypePasswords, ToggleOption,
            ChooseZone, PressInstall, AnswerSwap, CancelDialog, BackFromUser, NetworkChanges, DeliverRecheck
<1>4. left \in LeftType /\ window \in [open : BOOLEAN, front : Pages, running : BOOLEAN] /\ RunsInv
  BY DEF FinishInv, PagesInv, PagesTypeOK, LeftType
<1>5. left.faults < MaxFaults => left'.faults < MaxFaults
  BY <1>2, <1>4, LeftShrinks
<1>6. window'.open = window.open /\ window'.running = window.running
  BY <1>3, <1>4
<1>. QED  BY <1>1, <1>4, <1>5, <1>6, RunsStutter

LEMMA PageActionPages ==
  ASSUME FinishInv, PageAction
  PROVE  PagesInv'
<1>1. PagesInv
  BY DEF FinishInv
<1>. QED  BY <1>1, TypeFullNameKeeps, TypeOthersKeep, NextFromUserKeeps, BackFromUserKeeps, OptionsKeep, NextPagesKeep,
          SummaryKeeps, GoBackPages, NetworkKeeps DEF PageAction

LEMMA FinishInit == Init => FinishInv
<1>. SUFFICES ASSUME Init PROVE FinishInv
  OBVIOUS
<1>. DEFINE dark == [s \in DOMAIN Steps |-> "pending"]
<1>1. window = [open |-> TRUE, front |-> "user", running |-> FALSE]
  BY DEF Init, NewWindow
<1>2. left \in LeftType /\ left.faults = MaxFaults
  BY FinishBounds DEF Init, LeftType
<1>3. PagesTypeOK /\ window.front = "user" /\ summary.stage = "none" /\ form.user = ""
  <2>1. form = NewForm(NewShared) /\ shared = NewShared /\ summary = NoSummary
    BY DEF Init
  <2>2. window \in [open : BOOLEAN, front : Pages, running : BOOLEAN] /\ window.front = "user"
    BY <1>1 DEF Pages
  <2>. QED  BY <1>2, <2>1, <2>2, NewPages DEF PagesTypeOK, LeftType
<1>4. PagesInv
  BY <1>3 DEF PagesInv, NameFollows, AccountSaved, SummaryShows, InProgress, PlanIsMade
<1>5. 0 \in 0..MaxInstalls
  BY FinishBounds
<1>6. /\ view \in [id : 0..MaxInstalls, lights : AllLights, warnings : Nat, result : {"none", "complete", "failed"}]
      /\ view.id = 0 /\ view.lights = dark /\ view.warnings = 0 /\ view.result = "none"
  BY <1>5, NewRun DEF Init
<1>7. idle = <<>> /\ idle \in Seq(Callbacks) /\ DOMAIN idle = {}
  BY EmptySequence DEF Init
<1>8. runs \in [Installs -> RunRecords] /\ \A i \in Installs : runs[i].reader = "none" /\ RunOK(runs[i])
  BY NewRun DEF Init
<1>9. OneFlow
  BY <1>7, <1>8 DEF OneFlow
<1>10. Watched /\ Unlaunched /\ LossIsFault
  BY <1>6, <1>8 DEF Watched, Unlaunched, LossIsFault
<1>11. Shown
  BY <1>6, NewRun DEF Shown
<1>12. RunsTypeOK
  BY <1>6, <1>7, <1>8 DEF RunsTypeOK
<1>. QED  BY <1>4, <1>8, <1>9, <1>10, <1>11, <1>12 DEF FinishInv, RunsInv

LEMMA FinishStep == FinishInv /\ [Next]_vars => FinishInv'
<1>. SUFFICES ASSUME FinishInv, [Next]_vars PROVE PagesInv' /\ RunsInv'
  BY DEF FinishInv
<1>1. left \in LeftType /\ PagesInv /\ RunsInv
  BY DEF FinishInv, PagesInv, PagesTypeOK, LeftType
<1>2. CASE PageAction
  BY <1>2, PageActionRuns, PageActionPages
<1>3. CASE Confirm
  BY <1>1, <1>3, ConfirmPages, ConfirmRuns
<1>4. CASE Closes
  <2>1. Gone /\ UNCHANGED left /\ ~window.running
    BY <1>4 DEF Closes, MayClose
  <2>. QED  BY <1>1, <2>1, GonePages, GoneRuns
<1>5. CASE Crashes
  <2>1. Gone /\ left' \in LeftType /\ left'.faults < MaxFaults
    BY <1>1, <1>5, LeftShrinks DEF Crashes
  <2>. QED  BY <1>1, <2>1, GonePages, GoneRuns
<1>6. CASE Restarts
  <2>1. UNCHANGED <<runs, idle, view>> /\ UNCHANGED left /\ ~window.open
    BY <1>6 DEF Restarts, processes
  <2>. QED  BY <1>1, <1>6, <2>1, RestartPages, RunsStutter
<1>7. CASE RunsCallback
  BY <1>1, <1>7, CallbackPages, CallbackRuns
<1>8. ASSUME NEW i \in Installs, Executor(i) \/ Killed(i) PROVE PagesInv' /\ RunsInv'
  <2>1. UNCHANGED <<window, form, shared, summary>> /\ left' \in LeftType
    BY <1>1, <1>8, ExecutorFrame
  <2>. QED  BY <1>1, <1>8, <2>1, PagesStutter, ExecutorRuns
<1>9. ASSUME NEW i \in Installs, Reader(i) PROVE PagesInv' /\ RunsInv'
  <2>1. UNCHANGED <<window, form, shared, summary>> /\ left' \in LeftType
    BY <1>9, ReaderFrame
  <2>2. RunsInv'
    BY <1>9, LaunchRuns, LineRuns, ResultRuns DEF Reader
  <2>. QED  BY <1>1, <2>1, <2>2, PagesStutter
<1>10. CASE UNCHANGED vars
  <2>1. UNCHANGED <<window, form, shared, summary>> /\ UNCHANGED <<runs, idle, view>> /\ UNCHANGED left
    BY <1>10 DEF vars
  <2>. QED  BY <1>1, <2>1, PagesStutter, RunsStutter
<1>11. CASE Next
  BY <1>2, <1>3, <1>4, <1>5, <1>6, <1>7, <1>8, <1>9, <1>11 DEF Next, Person, PageAction
<1>. QED  BY <1>10, <1>11

LEMMA FinishAlways == Spec => []FinishInv
BY FinishInit, FinishStep, PTL DEF Spec

-----------------------------------------------------------------------------
(* What it establishes *)

\* The plan that is confirmed is the one the summary shows (on_install,
\* _apply_recheck, _page_unmapped), however the person moves between the pages
\* while the disks are probed, except that the online choices may differ when the
\* network changed after the summary was built.
THEOREM PlanAlwaysReviewed == Spec => []PlanIsReviewed
<1>1. FinishInv => PlanIsReviewed
  <2>. SUFFICES ASSUME FinishInv, summary.stage = "dialog"
                PROVE  /\ window.front = "summary" /\ Agree(summary.plan, summary.shows, summary.late)
                       /\ ValidUsername(summary.plan[2]) /\ summary.plan[3][1] # "capitals"
                       /\ ~shared.hostEdited => summary.plan[3] = SuggestHostname(summary.plan[2])
    BY DEF PlanIsReviewed
  <2>1. /\ window.front = "summary" /\ Agree(summary.plan, SummaryRows(shared), summary.late)
        /\ Agree(summary.shows, SummaryRows(shared), summary.late)
    BY DEF FinishInv, PagesInv, InProgress, PlanIsMade, SummaryShows
  <2>2. /\ ValidUsername(shared.user) /\ shared.host[1] # "capitals"
        /\ ~shared.hostEdited => shared.host = SuggestHostname(shared.user)
    BY <2>1 DEF FinishInv, PagesInv, AccountSaved
  <2>3. summary.plan[2] = shared.user /\ summary.plan[3] = shared.host
    BY <2>1 DEF SummaryRows, Agree
  <2>4. Agree(summary.plan, summary.shows, summary.late)
    BY <2>1 DEF Agree
  <2>. QED  BY <2>1, <2>2, <2>3, <2>4
<1>. QED  BY <1>1, FinishAlways, PTL

\* One window runs one executor at a time and knows it (state["running"],
\* _protect_install); an executor loses its reader only by a crash.
THEOREM OneInstallationAlways == Spec => []OneInstallation
<1>1. FinishInv => OneInstallation
  <2>. SUFFICES ASSUME FinishInv PROVE OneInstallation
    OBVIOUS
  <2>1. OneFlow /\ LossIsFault
    BY DEF FinishInv, RunsInv
  <2>. QED  BY <2>1 DEF OneFlow, LossIsFault, OneInstallation, Reads
<1>. QED  BY <1>1, FinishAlways, PTL

\* What the progress page shows at the end is what the executor reported
\* (ExecutorClient.run, update_step_status, on_done), whatever was killed.
THEOREM ResultAlwaysReported == Spec => []ResultIsReported
<1>1. FinishInv => ResultIsReported
  <2>. SUFFICES ASSUME FinishInv, view.result # "none" PROVE ResultIsReported
    BY DEF ResultIsReported
  <2>. DEFINE r == runs[view.id]
  <2>1. /\ RunsTypeOK /\ (\A j \in Installs : RunOK(runs[j])) /\ Watched /\ Shown
    BY DEF FinishInv, RunsInv
  <2>2. /\ view.id # 0 /\ r.reader = "done" /\ idle = <<>> /\ r.pipe = <<>> /\ ~Alive(view.id)
        /\ InStep(r.pipe, idle, view.lights, r.lights)
        /\ view.result = "complete" => r.code = 0
    BY <2>1 DEF Shown, Watched
  <2>3. view.id \in Installs /\ r \in RunRecords /\ RunOK(r) /\ view.lights \in AllLights
    BY <2>1, <2>2, FinishBounds DEF RunsTypeOK, Installs
  <2>4. r.lights \in AllLights /\ (r.code = 0 => r.step = Len(Steps))
    BY <2>3 DEF RunRecords, RunOK, Place
  <2>5. ASSUME NEW s \in DOMAIN Steps PROVE view.lights[s] = r.lights[s]
    <3>1. Tells(<<>>, <<>>, view.lights, s, r.lights[s])
      BY <2>2 DEF InStep
    <3>2. ~EndsWith(<<>>, s, r.lights[s])
      BY DEF EndsWith
    <3>. QED  BY <3>1, <3>2 DEF Tells
  <2>6. view.lights = r.lights
    BY <2>3, <2>4, <2>5 DEF AllLights
  <2>7. view.warnings = Cardinality({s \in DOMAIN Steps : r.lights[s] = "warning"})
    BY <2>1, <2>6 DEF Shown, Warned
  <2>. QED  BY <2>2, <2>4, <2>6, <2>7 DEF ResultIsReported
<1>. QED  BY <1>1, FinishAlways, PTL

\* A process of its own, without a reader, dies of its first word.
LEMMA UnreadDies ==
  ASSUME NEW i \in Installs, runs \in [Installs -> RunRecords], ~Reads(i), NEW r, NEW l, Emit(i, r, l)
  PROVE  runs'[i].pc = "ended"
<1>1. runs' = [runs EXCEPT ![i] = Died(runs[i])] /\ runs[i] \in RunRecords
  BY DEF Emit, Became
<1>2. runs'[i] = Died(runs[i])
  BY <1>1
<1>. QED  BY <1>1, <1>2 DEF Died, RunRecords

\* An executor whose window is gone starts nothing more: emit's BrokenPipeError
\* passes every handler (executor_cli.py, StepRunner).
THEOREM NothingRunsUnwatched == Spec => NothingUnwatched
<1>1. ASSUME FinishInv, [Next]_vars
      PROVE  [\A i \in Installs :
                /\ Alive(i) /\ ~Reads(i)
                /\ runs'[i].pc \in {"begin", "work", "command", "cleanup", "cleanupAll"}
                => runs'[i].pc = runs[i].pc]_vars
  <2>. SUFFICES ASSUME Next, NEW i \in Installs, Alive(i), ~Reads(i),
                       runs'[i].pc \in {"begin", "work", "command", "cleanup", "cleanupAll"}
                PROVE  runs'[i].pc = runs[i].pc
    BY <1>1
  <2>1. runs \in [Installs -> RunRecords] /\ runs[i] \in RunRecords
    BY <1>1 DEF FinishInv, RunsInv, RunsTypeOK
  <2>2. CASE UNCHANGED runs
    BY <2>2
  <2>3. CASE Confirm
    <3>1. PICK j \in Installs : runs' = [runs EXCEPT ![j].reader = "launch", ![j].plan = summary.plan]
      BY <2>3 DEF Confirm
    <3>. QED  BY <2>1, <3>1 DEF RunRecords
  <2>4. CASE Gone
    <3>1. \/ runs'[i] = runs[i]
          \/ runs'[i] = [runs[i] EXCEPT !.reader = "lost", !.pipe = <<>>]
      BY <2>4 DEF Gone
    <3>. QED  BY <2>1, <3>1 DEF RunRecords
  <2>5. ASSUME NEW j \in Installs, Executor(j) \/ Killed(j) \/ Reader(j), j # i
        PROVE  runs'[i] = runs[i]
    <3>1. \E r : runs' = [runs EXCEPT ![j] = r]
      <4>1. CASE Reader(j)
        BY <4>1 DEF Reader, Launches, ReadsLine, ReadsResult, Became
      <4>2. CASE Killed(j)
        BY <4>2 DEF Killed, Became
      <4>3. CASE Executor(j)
        BY <4>3 DEF Executor, Begins, Preflights, BeginsStep, StartsCommand, CommandWrites, CommandEnds, EndsStep,
           FailsStep, CleansUp, Completes, Exits, Emit, Became
      <4>. QED  BY <2>5, <4>1, <4>2, <4>3
    <3>. QED  BY <2>1, <2>5, <3>1
  <2>6. ASSUME Reader(i) PROVE runs'[i].pc = runs[i].pc
    <3>1. window.open /\ runs[i].reader \in {"launch", "read"}
      BY <2>6 DEF Reader, Launches, ReadsLine, ReadsResult
    <3>. QED  BY <3>1 DEF Reads
  <2>7. ASSUME Killed(i) PROVE runs'[i].pc = runs[i].pc
    <3>1. CASE runs' = [runs EXCEPT ![i] = [runs[i] EXCEPT !.wrapper = FALSE]]
      BY <2>1, <3>1 DEF RunRecords
    <3>2. ASSUME NEW pipe, \/ runs' = [runs EXCEPT ![i] = Died(runs[i])]
                           \/ runs' = [runs EXCEPT ![i] = [Died(runs[i]) EXCEPT !.pipe = pipe]]
          PROVE  runs'[i].pc = "ended"
      <4>1. runs'[i] = Died(runs[i]) \/ runs'[i] = [Died(runs[i]) EXCEPT !.pipe = pipe]
        BY <2>1, <3>2
      <4>. QED  BY <2>1, <4>1 DEF Died, RunRecords
    <3>. QED  BY <2>7, <3>1, <3>2 DEF Killed, Became
  <2>8. ASSUME Executor(i) PROVE runs'[i].pc = runs[i].pc
    <3>1. CASE \E r, l : Emit(i, r, l)
      BY <2>1, <3>1, UnreadDies
    <3>2. CASE Begins(i)
      <4>1. CASE runs' = [runs EXCEPT ![i] = Died(runs[i])]
        BY <2>1, <4>1 DEF Died, RunRecords
      <4>2. ASSUME NEW pc \in {"preflight", "final"}, runs' = [runs EXCEPT ![i] = [runs[i] EXCEPT !.pc = pc]]
            PROVE  FALSE
        BY <2>1, <4>2 DEF RunRecords
      <4>. QED  BY <3>2, <4>1, <4>2 DEF Begins, Became
    <3>3. CASE CommandEnds(i)
      BY <2>1, <3>3 DEF CommandEnds, Became, RunRecords
    <3>4. CASE Exits(i)
      BY <2>1, <3>4 DEF Exits, Became, RunRecords
    <3>5. CASE Preflights(i) \/ BeginsStep(i) \/ StartsCommand(i) \/ CommandWrites(i) \/ EndsStep(i) \/ FailsStep(i)
               \/ CleansUp(i) \/ Completes(i)
      BY <3>1, <3>5 DEF Preflights, BeginsStep, StartsCommand, CommandWrites, EndsStep, FailsStep, CleansUp, Completes
    <3>. QED  BY <2>8, <3>2, <3>3, <3>4, <3>5 DEF Executor
  <2>9. CASE PageAction \/ Restarts \/ RunsCallback
    BY <2>2, <2>9 DEF PageAction, TypeFullName, TypeUsername, TypeHostname, TypePasswords, ToggleOption, ChooseZone,
       NextFromUser, NextFromOptions, NextFromTimezone, PressInstall, AnswerSwap, CancelDialog, BackFromUser, GoBack,
       NetworkChanges, DeliverRecheck, processes, Restarts, RunsCallback
  <2>. QED  BY <2>3, <2>4, <2>5, <2>6, <2>7, <2>8, <2>9 DEF Next, Person, PageAction, Closes, Crashes
<1>. QED  BY <1>1, FinishAlways, PTL DEF Spec, NothingUnwatched
=============================================================================
