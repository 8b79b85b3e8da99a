---------------------------- MODULE FilesProofs ----------------------------
(***************************************************************************)
(* What holds of io::fs for any callers, any paths and settings, and any   *)
(* number of calls, whatever other programs do to the tree meanwhile.      *)
(***************************************************************************)
EXTENDS Files, DataLemmas

-----------------------------------------------------------------------------
(* The kernel's tree.  The current directory is at the empty path, and     *)
(* nowhere else.                                                           *)
IsSequence(s) == \E S : s \in Seq(S)

Names == {"removed"} \cup UNION {ToSet(p) : p \in AllPaths}
Paths == Seq(Names) \ {<<>>}

FileSystemInv(f) ==
    /\ DOMAIN f = {"tree", "inodes"}
    /\ IsSequence(f.inodes) /\ f.inodes # <<>>
    /\ DOMAIN f.tree \subseteq Seq(Names)
    /\ \A p \in DOMAIN f.tree : f.tree[p] \in Nat
    /\ <<>> \in DOMAIN f.tree
    /\ \A p \in DOMAIN f.tree : f.tree[p] = Cwd <=> p = <<>>

LEMMA NamesAre == "removed" \in Names /\ Names \cap Dots = {}
<1>1. \A p \in AllPaths : ToSet(p) \cap Dots = {}
  BY FilesAssumption
<1>2. "removed" \notin Dots
  BY DEF Dots
<1>3. QED
  BY <1>1, <1>2 DEF Names

LEMMA PathsAre == AllPaths \subseteq Paths
<1> SUFFICES ASSUME NEW p \in AllPaths PROVE p \in Paths
  OBVIOUS
<1>1. p \in Seq(STRING) /\ p # <<>>
  BY FilesAssumption
<1>2. \A i \in 1 .. Len(p) : p[i] \in Names
  BY <1>1 DEF Names, ToSet
<1>3. p \in Seq(Names)
  BY <1>1, <1>2
<1>4. QED
  BY <1>1, <1>3 DEF Paths

LEMMA LengthOf ==
    ASSUME NEW s, IsSequence(s)
    PROVE  /\ Len(s) \in Nat /\ DOMAIN s = 1 .. Len(s)
           /\ s # <<>> => Len(s) >= 1
  BY DEF IsSequence

LEMMA AppendIs ==
    ASSUME NEW s, IsSequence(s), NEW e, NEW t, t = Append(s, e)
    PROVE  /\ IsSequence(t) /\ t # <<>> /\ Len(t) = Len(s) + 1
           /\ t[Len(s) + 1] = e /\ \A i \in 1 .. Len(s) : t[i] = s[i]
<1>1. PICK S : s \in Seq(S)
  BY DEF IsSequence
<1>2. s \in Seq(S \cup {e})
  BY <1>1
<1>3. t \in Seq(S \cup {e}) /\ Len(t) = Len(s) + 1 /\ Len(s) \in Nat
  BY <1>2
<1>4. t[Len(s) + 1] = e /\ \A i \in 1 .. Len(s) : t[i] = s[i]
  BY <1>2
<1>5. Len(<<>>) = 0
  OBVIOUS
<1>6. QED
  BY <1>3, <1>4, <1>5 DEF IsSequence

LEMMA ExceptIs ==
    ASSUME NEW s, IsSequence(s), NEW i, NEW e, NEW t, t = [s EXCEPT ![i] = e]
    PROVE  IsSequence(t) /\ Len(t) = Len(s) /\ (s # <<>> => t # <<>>)
<1>1. PICK S : s \in Seq(S)
  BY DEF IsSequence
<1>2. s \in Seq(S \cup {e}) /\ e \in S \cup {e}
  BY <1>1
<1>3. t \in Seq(S \cup {e}) /\ Len(t) = Len(s) /\ Len(s) \in Nat
  <2>1. CASE i \in 1 .. Len(s)
    BY <1>2, <2>1
  <2>2. CASE i \notin 1 .. Len(s)
    <3>1. DOMAIN s = 1 .. Len(s) /\ s = [j \in DOMAIN s |-> s[j]] /\ Len(s) \in Nat
      BY <1>2
    <3>2. t = [j \in DOMAIN s |-> IF j = i THEN e ELSE s[j]]
      OBVIOUS
    <3>3. t = s
      BY <2>2, <3>1, <3>2
    <3>4. QED
      BY <1>2, <3>1, <3>3
  <2>3. QED
    BY <2>1, <2>2
<1>4. IsSequence(t) /\ Len(t) = Len(s)
  BY <1>3 DEF IsSequence
<1>5. s # <<>> => t # <<>>
  <2>1. s # <<>> => Len(t) >= 1
    BY <1>4, LengthOf
  <2>2. Len(<<>>) = 0
    OBVIOUS
  <2>3. QED
    BY <2>1, <2>2
<1>6. QED
  BY <1>4, <1>5

LEMMA WithIs ==
    ASSUME NEW f, FileSystemInv(f), NEW place \in Seq(Names), ~ Exists(f, place), NEW inode,
           NEW g, g = With(f, place, inode)
    PROVE  /\ FileSystemInv(g) /\ DOMAIN g.tree = DOMAIN f.tree \cup {place}
           /\ \A p \in DOMAIN f.tree : g.tree[p] = f.tree[p]
           /\ g.inodes = Append(f.inodes, inode)
<1>1. PICK n \in Nat : n = Len(f.inodes) /\ n >= 1
  BY LengthOf DEF FileSystemInv
<1>2. g = [tree |-> Put(f.tree, place, n + 1), inodes |-> Append(f.inodes, inode)]
  BY <1>1 DEF With
<1>3. g.inodes = Append(f.inodes, inode) /\ IsSequence(g.inodes) /\ g.inodes # <<>>
  <2>1. PICK t : t = Append(f.inodes, inode)
    OBVIOUS
  <2>2. IsSequence(t) /\ t # <<>>
    BY <2>1, AppendIs DEF FileSystemInv
  <2>3. QED
    BY <1>2, <2>1, <2>2
<1>4. g.tree = [p \in {place} \cup DOMAIN f.tree |-> IF p \in {place} THEN n + 1 ELSE f.tree[p]]
  BY <1>2 DEF Put
<1>5. DOMAIN g = {"tree", "inodes"}
  BY <1>2
<1>6. place # <<>> /\ place \notin DOMAIN f.tree
  BY DEF FileSystemInv, Exists
<1>7. /\ DOMAIN g.tree = DOMAIN f.tree \cup {place} /\ g.tree[place] = n + 1
      /\ \A p \in DOMAIN f.tree : g.tree[p] = f.tree[p]
  BY <1>4, <1>6
<1>8. n + 1 \in Nat /\ n + 1 # Cwd
  BY <1>1 DEF Cwd
<1>9. \A p \in DOMAIN g.tree : g.tree[p] \in Nat /\ (g.tree[p] = Cwd <=> p = <<>>)
  BY <1>6, <1>7, <1>8 DEF FileSystemInv
<1>10. DOMAIN g.tree \subseteq Seq(Names) /\ <<>> \in DOMAIN g.tree
  BY <1>7 DEF FileSystemInv
<1>11. QED
  BY <1>3, <1>5, <1>7, <1>9, <1>10 DEF FileSystemInv

(* A change of one inode. *)
LEMMA WrittenIs ==
    ASSUME NEW f, FileSystemInv(f), NEW i, NEW n \in Nat,
           NEW g, g = [f EXCEPT !.inodes[i].len = n]
    PROVE  FileSystemInv(g) /\ g.tree = f.tree
<1>1. IsSequence(f.inodes) /\ f.inodes # <<>> /\ DOMAIN f = {"tree", "inodes"}
  BY DEF FileSystemInv
<1>2. g.inodes = [f.inodes EXCEPT ![i].len = n] /\ g.tree = f.tree /\ DOMAIN g = {"tree", "inodes"}
  BY <1>1
<1>3. PICK e : e = [f.inodes[i] EXCEPT !.len = n]
  OBVIOUS
<1>4. g.inodes = [f.inodes EXCEPT ![i] = e]
  BY <1>2, <1>3
<1>5. IsSequence(g.inodes) /\ g.inodes # <<>>
  BY <1>1, <1>4, ExceptIs
<1>6. QED
  BY <1>2, <1>5 DEF FileSystemInv

LEMMA WithoutIs ==
    ASSUME NEW f, FileSystemInv(f), NEW place, place # <<>>, NEW g, g = Without(f, place)
    PROVE  /\ FileSystemInv(g) /\ g.inodes = f.inodes /\ DOMAIN g.tree = DOMAIN f.tree \ {place}
           /\ \A p \in DOMAIN g.tree : g.tree[p] = f.tree[p]
<1>1. /\ DOMAIN g = {"tree", "inodes"} /\ g.inodes = f.inodes
      /\ g.tree = [p \in DOMAIN f.tree \ {place} |-> f.tree[p]]
  BY DEF FileSystemInv, Without
<1>2. QED
  BY <1>1 DEF FileSystemInv

(* What mkdirat, openat2 and renameat leave. *)
LEMMA MkdirIs ==
    ASSUME NEW f, FileSystemInv(f), NEW place \in Seq(Names), NEW mode,
           NEW r, r = MkdirAt(f, place, mode)
    PROVE  FileSystemInv(r.fs) /\ (r.error # "Ok" => r.fs = f)
<1> DEFINE inode == [type |-> "DIRECTORY", perm |-> mode, len |-> 0]
           walk == Walk(f, <<>>, place)
<1>2. CASE walk # "Ok"
  BY <1>2 DEF MkdirAt, Failed
<1>3. CASE walk = "Ok" /\ Exists(f, place)
  BY <1>3 DEF MkdirAt, Failed
<1>4. CASE walk = "Ok" /\ ~ Exists(f, place) /\ ~ MayWrite(f, Parent(place))
  BY <1>4 DEF MkdirAt, Failed
<1>5. CASE walk = "Ok" /\ ~ Exists(f, place) /\ MayWrite(f, Parent(place))
  <2>1. r = Done(With(f, place, inode))
    BY <1>5 DEF MkdirAt
  <2>2. PICK g : g = With(f, place, inode)
    OBVIOUS
  <2>3. FileSystemInv(g)
    BY <1>5, <2>2, WithIs
  <2>4. QED
    BY <2>1, <2>2, <2>3 DEF Done
<1>6. QED
  BY <1>2, <1>3, <1>4, <1>5

LEMMA OpenExistingIs ==
    ASSUME NEW f, FileSystemInv(f), NEW place, NEW how, NEW r, r = OpenExisting(f, place, how)
    PROVE  FileSystemInv(r.fs) /\ r.fs.tree = f.tree /\ (r.error # "Ok" => r.fs = f)
<1> DEFINE g == IF "TRUNCATE" \in how.flags THEN [f EXCEPT !.inodes[f.tree[place]].len = 0] ELSE f
<1>1. r = Done(g) \/ \E e : r = Failed(f, e)
  BY DEF OpenExisting
<1>2. FileSystemInv(g) /\ g.tree = f.tree
  <2>1. PICK k : k = [f EXCEPT !.inodes[f.tree[place]].len = 0]
    OBVIOUS
  <2>2. FileSystemInv(k) /\ k.tree = f.tree
    BY <2>1, WrittenIs, SMTT(30)
  <2>3. QED
    BY <2>1, <2>2
<1>3. ASSUME NEW e, r = Failed(f, e) PROVE r.fs = f
  BY <1>3 DEF Failed
<1>4. r = Done(g) => r.fs = g /\ r.error = "Ok"
  BY DEF Done
<1>5. QED
  BY <1>1, <1>2, <1>3, <1>4

LEMMA OpenIs ==
    ASSUME NEW f, FileSystemInv(f), NEW base, NEW place \in Seq(Names), NEW how,
           NEW r, r = OpenAt2(f, base, place, how)
    PROVE  /\ FileSystemInv(r.fs)
           /\ r.error = "Ok" => place \in DOMAIN r.fs.tree
           /\ r.error # "Ok" => r.fs = f
<1> DEFINE inode == [type |-> "FILE", perm |-> how.mode, len |-> 0]
           walk == IF base = Removed THEN "NotFound" ELSE Walk(f, base, place)
<1>2. CASE IsDir(how) /\ Creates(how)
  BY <1>2 DEF OpenAt2, Failed
<1>3. CASE ~ (IsDir(how) /\ Creates(how)) /\ walk # "Ok"
  BY <1>3 DEF OpenAt2, Failed
<1> DEFINE reached == ~ (IsDir(how) /\ Creates(how)) /\ walk = "Ok"
<1>4. CASE reached /\ Exists(f, place)
  <2>1. r = OpenExisting(f, place, how)
    BY <1>4 DEF OpenAt2
  <2>2. QED
    BY <1>4, <2>1, OpenExistingIs DEF Exists
<1>5. CASE reached /\ ~ Exists(f, place) /\ ~ Creates(how)
  BY <1>5 DEF OpenAt2, Failed
<1>6. CASE reached /\ ~ Exists(f, place) /\ Creates(how) /\ ~ MayWrite(f, Parent(place))
  BY <1>6 DEF OpenAt2, Failed
<1>7. CASE reached /\ ~ Exists(f, place) /\ Creates(how) /\ MayWrite(f, Parent(place))
  <2>1. r = Done(With(f, place, inode))
    BY <1>7 DEF OpenAt2
  <2>2. PICK g : g = With(f, place, inode)
    OBVIOUS
  <2>3. FileSystemInv(g) /\ place \in DOMAIN g.tree
    BY <1>7, <2>2, WithIs
  <2>4. QED
    BY <2>1, <2>2, <2>3 DEF Done
<1>8. QED
  BY <1>2, <1>3, <1>4, <1>5, <1>6, <1>7

LEMMA WalksAway == ASSUME NEW f, NEW place, Walk(f, place, place) = "Ok" PROVE FALSE
  BY DEF Walk

LEMMA RenameIs ==
    ASSUME NEW f, FileSystemInv(f), NEW old \in Seq(Names), NEW new \in Seq(Names),
           NEW r, r = RenameAt(f, old, new)
    PROVE  /\ FileSystemInv(r.fs)
           /\ r.error = "Ok" => /\ old \in DOMAIN f.tree /\ new \in DOMAIN r.fs.tree
                               /\ r.fs.tree[new] = f.tree[old]
           /\ r.error # "Ok" => r.fs = f
<1> DEFINE walks == {Walk(f, <<>>, old), Walk(f, <<>>, new)} \ {"Ok"}
           g == Without(f, old)
           h == [f EXCEPT !.tree = Put(g.tree, new, f.tree[old])]
<1>1. \/ r = Done(h) /\ walks = {} /\ Exists(f, old)
      \/ \E e : e # "Ok" /\ r = Failed(f, e)
  <2>1. CASE walks # {}
    <3>1. r = Failed(f, CHOOSE e \in walks : TRUE)
      BY <2>1 DEF RenameAt
    <3>2. QED
      BY <2>1, <3>1
  <2>2. CASE walks = {}
    <3>1. \/ r = Done(h) /\ Exists(f, old)
          \/ r = Failed(f, "NotFound") \/ r = Failed(f, "PermissionDenied")
          \/ r = Failed(f, "IsADirectory")
      <4>1. CASE ~ Exists(f, old)
        BY <2>2, <4>1 DEF RenameAt
      <4>2. CASE Exists(f, old)
        BY <2>2, <4>2 DEF RenameAt
      <4>3. QED
        BY <4>1, <4>2
    <3>2. QED
      BY <2>2, <3>1
  <2>3. QED
    BY <2>1, <2>2
<1>2. ASSUME NEW e, r = Failed(f, e), e # "Ok" PROVE r.fs = f /\ r.error # "Ok"
  BY <1>2 DEF Failed
<1>3. ASSUME r = Done(h), walks = {}, Exists(f, old)
      PROVE  /\ r.error = "Ok"
             /\ FileSystemInv(r.fs) /\ old \in DOMAIN f.tree /\ new \in DOMAIN r.fs.tree
             /\ r.fs.tree[new] = f.tree[old]
  <2>1. r.fs = h /\ r.error = "Ok"
    BY <1>3 DEF Done
  <2>2. old # <<>> /\ new # <<>>
    <3>1. Walk(f, <<>>, old) = "Ok" /\ Walk(f, <<>>, new) = "Ok"
      BY <1>3
    <3>2. QED
      BY <3>1, WalksAway
  <2>3. PICK w : w = Without(f, old)
    OBVIOUS
  <2>4. FileSystemInv(w) /\ DOMAIN w.tree \subseteq DOMAIN f.tree
    BY <2>2, <2>3, WithoutIs
  <2>5. PICK t : t = Put(w.tree, new, f.tree[old])
    OBVIOUS
  <2>6. /\ DOMAIN t = DOMAIN w.tree \cup {new} /\ t[new] = f.tree[old]
        /\ \A p \in DOMAIN w.tree : p # new => t[p] = w.tree[p]
    BY <2>5 DEF Put
  <2>7. h.tree = t /\ h.inodes = f.inodes /\ DOMAIN h = {"tree", "inodes"}
    BY <2>3, <2>5 DEF FileSystemInv
  <2>8. f.tree[old] \in Nat /\ f.tree[old] # Cwd
    BY <1>3, <2>2 DEF FileSystemInv, Exists
  <2>9. \A p \in DOMAIN t : t[p] \in Nat /\ (t[p] = Cwd <=> p = <<>>)
    BY <2>2, <2>4, <2>6, <2>8 DEF FileSystemInv
  <2>10. DOMAIN t \subseteq Seq(Names) /\ <<>> \in DOMAIN t
    BY <2>4, <2>6 DEF FileSystemInv
  <2>11. FileSystemInv(h)
    BY <2>7, <2>9, <2>10 DEF FileSystemInv
  <2>12. QED
    BY <1>3, <2>1, <2>6, <2>7, <2>11 DEF Exists
<1>4. QED
  BY <1>1, <1>2, <1>3

(* Where a path leads. *)
LEMMA PlaceOfCwd == ASSUME NEW f, FileSystemInv(f) PROVE PlaceOf(f, Cwd) = <<>>
<1>1. <<>> \in DOMAIN f.tree /\ \A p \in DOMAIN f.tree : f.tree[p] = Cwd <=> p = <<>>
  BY DEF FileSystemInv
<1>2. (CHOOSE p \in DOMAIN f.tree : f.tree[p] = Cwd) = <<>>
  BY <1>1
<1>3. QED
  BY <1>1, <1>2 DEF PlaceOf

LEMMA PlaceOfIs == ASSUME NEW f, FileSystemInv(f), NEW ino PROVE PlaceOf(f, ino) \in Seq(Names)
<1>1. Removed \in Seq(Names)
  BY NamesAre DEF Removed
<1>2. CASE \E p \in DOMAIN f.tree : f.tree[p] = ino
  <2>1. (CHOOSE p \in DOMAIN f.tree : f.tree[p] = ino) \in DOMAIN f.tree
    BY <1>2
  <2>2. QED
    BY <1>2, <2>1 DEF PlaceOf, FileSystemInv
<1>3. CASE ~ \E p \in DOMAIN f.tree : f.tree[p] = ino
  BY <1>1, <1>3 DEF PlaceOf
<1>4. QED
  BY <1>2, <1>3

LEMMA ConcatPaths ==
    ASSUME NEW S, NEW p \in Seq(S), NEW q \in Seq(S)
    PROVE  p \o q \in Seq(S) /\ <<>> \o q = q
  OBVIOUS

LEMMA PlaceIs ==
    ASSUME NEW f, FileSystemInv(f), NEW x, x.path \in Seq(Names)
    PROVE  Place(f, x) \in Seq(Names) /\ (x.base = Cwd => Place(f, x) = x.path)
<1>1. PlaceOf(f, x.base) \in Seq(Names) /\ PlaceOf(f, Cwd) = <<>>
  BY PlaceOfCwd, PlaceOfIs
<1>2. QED
  BY <1>1, ConcatPaths DEF Place

(* The names of a path but the last. *)
LEMMA ParentIs ==
    ASSUME NEW S, NEW p \in Seq(S), p # <<>>
    PROVE  Parent(p) \in Seq(S) /\ Len(Parent(p)) = Len(p) - 1
<1>1. PICK n \in Nat : n = Len(p) /\ n >= 1
  BY LengthOf
<1>2. n - 1 \in Nat /\ n - 1 <= n
  BY <1>1
<1>3. SubSeq(p, 1, n - 1) \in Seq(S) /\ Len(SubSeq(p, 1, n - 1)) = n - 1
  BY <1>1, <1>2
<1>4. QED
  BY <1>1, <1>3 DEF Parent

(* One name more of a path. *)
LEMMA PrefixIs ==
    ASSUME NEW S, NEW p \in Seq(S), NEW n \in 1 .. Len(p)
    PROVE  /\ SubSeq(p, 1, n) \in Seq(S) /\ Len(SubSeq(p, 1, n)) = n
           /\ n = Len(p) => SubSeq(p, 1, n) = p
<1>1. Len(p) \in Nat /\ n \in Nat /\ n <= Len(p)
  OBVIOUS
<1>2. SubSeq(p, 1, n) \in Seq(S) /\ Len(SubSeq(p, 1, n)) = n
  BY <1>1
<1>3. ASSUME n = Len(p) PROVE SubSeq(p, 1, n) = p
  <2>1. \A i \in 1 .. n : SubSeq(p, 1, n)[i] = p[i]
    BY <1>1
  <2>2. QED
    BY <1>1, <1>2, <1>3, <2>1
<1>4. QED
  BY <1>2, <1>3

(* A path is a prefix of another if it has the same names as far as it goes. *)
LEMMA PrefixByNames ==
    ASSUME NEW S, NEW p \in Seq(S), NEW q \in Seq(S)
    PROVE  IsPrefix(p, q) <=> (Len(p) <= Len(q) /\ \A i \in 1 .. Len(p) : p[i] = q[i])
<1>1. PICK n \in Nat : n = Len(p)
  BY LengthOf
<1>2. PICK k \in Nat : k = Len(q)
  BY LengthOf
<1>3. SubSeq(p, 1, n) \in Seq(S) /\ Len(SubSeq(p, 1, n)) = n /\ \A i \in 1 .. n : SubSeq(p, 1, n)[i] = p[i]
  BY <1>1
<1>4. ASSUME n <= k
      PROVE  SubSeq(q, 1, n) \in Seq(S) /\ Len(SubSeq(q, 1, n)) = n /\ \A i \in 1 .. n : SubSeq(q, 1, n)[i] = q[i]
  BY <1>2, <1>4
<1>5. ASSUME n <= k
      PROVE  SubSeq(p, 1, n) = SubSeq(q, 1, n) <=> \A i \in 1 .. n : p[i] = q[i]
  BY <1>3, <1>4, <1>5
<1>6. QED
  BY <1>1, <1>2, <1>5 DEF IsPrefix

-----------------------------------------------------------------------------
(* What a call is at each of its steps. *)
CallFields == {"op", "base", "path", "settings", "step", "goal", "cur", "up", "retried",
               "size", "made", "alone", "torn"}

(* The step an operation may be at. *)
AtStep(op, step) ==
    \/ op \in {"file", "directory"} /\ step \in {"open", "open_sync", "mkdir", "stat"}
    \/ op = "mkdir" /\ step \in {"mkdir", "stat"}
    \/ op = "rename" /\ step = "rename"
    \/ op = "read" /\ step \in {"size", "read"}

(* The directory a call asks mkdir_recursive for: the one its file is to be *)
(* in, or the one it is to open or make.                                    *)
Asked(x) == IF x.op = "file" THEN Parent(x.path) ELSE x.path

(* mkdir_recursive is at the goal or above it. *)
Within(cur, goal) == cur \in Seq(Names) /\ goal \in Seq(Names) /\ IsPrefix(cur, goal)

GoodCall(x) ==
    /\ DOMAIN x = CallFields
    /\ AtStep(x.op, x.step)
    /\ x.path \in Seq(Names)
    /\ x.op \in {"file", "directory", "rename"} => x.path # <<>>
    /\ Within(x.cur, x.goal)
    /\ x.step \in {"mkdir", "stat"} => x.goal = Asked(x)
    /\ \A p \in x.made : Within(p, Asked(x))

FileFields == {"d", "path", "rel"}
GoodFile(x) == DOMAIN x = FileFields /\ x.path \in Paths

Calls ==
    /\ DOMAIN call = Callers
    /\ \A c \in Callers : call[c] # None =>
         /\ GoodCall(call[c])
         /\ call[c].op = "file" => file[c] = None
         /\ call[c].op = "directory" => dir[c] = None
         /\ call[c].op = "rename" => file[c] # None

NamedFiles ==
    /\ DOMAIN file = Callers /\ DOMAIN dir = Callers
    /\ \A c \in Callers : file[c] # None => GoodFile(file[c])

CInv == FileSystemInv(fs) /\ Calls /\ NamedFiles
(* The kinds of steps.  A call goes on or ends, and nothing is opened.     *)
GoesOn(c, x) ==
    /\ call[c] # None
    /\ x = None \/ (GoodCall(x) /\ x.op = call[c].op)
    /\ FileSystemInv(fs')
    /\ Settle(c, x, FALSE)
    /\ UNCHANGED Handles

(* It ends with a handle. *)
EndsOpen(c, x, how) ==
    /\ call[c] # None
    /\ GoodCall(x) /\ x.op = call[c].op /\ x.op \in {"file", "directory"}
    /\ FileSystemInv(fs')
    /\ x.base = Cwd => x.path \in DOMAIN fs'.tree
    /\ Opened(c, x, fs', how)

(* It was given up, and the kernel opens all the same. *)
OpensForNobody(c, x, how) ==
    /\ call[c] # None
    /\ FileSystemInv(fs')
    /\ Settle(c, None, FALSE)
    /\ desc' = Append(desc, NewDescription(fs', x, how))
    /\ dropped' = dropped \cup {Len(desc) + 1}
    /\ UNCHANGED <<file, dir, closing>>

(* A file is renamed, and its File told. *)
EndsRenamed(c) ==
    LET x == call[c]
    IN /\ x # None /\ GoodCall(x) /\ x.op = "rename" /\ file[c] # None /\ x.path \in Paths
       /\ FileSystemInv(fs')
       /\ file[c].path \in DOMAIN fs.tree /\ x.path \in DOMAIN fs'.tree
       /\ fs'.tree[x.path] = fs.tree[file[c].path]
       /\ Settle(c, None, TRUE)
       /\ file' = [file EXCEPT ![c].path = x.path]
       /\ UNCHANGED <<desc, dir, closing, dropped>>

(* A call begins. *)
Begins(c, x) ==
    /\ call[c] = None
    /\ GoodCall(x)
    /\ x.op = "file" => file[c] = None
    /\ x.op = "directory" => dir[c] = None
    /\ x.op = "rename" => file[c] # None
    /\ call' = [call EXCEPT ![c] = x]
    /\ UNCHANGED <<fs, Handles, stream, astray>>

LEMMA NoneIsNoCall == ASSUME NEW x, DOMAIN x = CallFields PROVE x # None
  BY DEF CallFields, None

LEMMA NoneIsNoFile == ASSUME NEW x, DOMAIN x = FileFields PROVE x # None
  BY DEF FileFields, None

(* What Call makes is a good call if its parts are. *)
LEMMA CallIs ==
    ASSUME NEW op, NEW base, NEW path \in Seq(Names), NEW settings, NEW step,
           NEW x, x = Call(op, base, path, settings, step)
    PROVE  /\ DOMAIN x = CallFields /\ x.op = op /\ x.base = base /\ x.path = path
           /\ x.settings = settings /\ x.step = step /\ x.goal = <<>> /\ x.cur = <<>>
           /\ Within(x.cur, x.goal) /\ x.made = {}
<1>1. DOMAIN x = CallFields
  BY DEF Call, CallFields
<1>2. /\ x.op = op /\ x.base = base /\ x.path = path
      /\ x.settings = settings /\ x.step = step /\ x.goal = <<>> /\ x.cur = <<>> /\ x.made = {}
  BY DEF Call
<1>3. Within(<<>>, <<>>)
  BY DEF Within, IsPrefix
<1>4. QED
  BY <1>1, <1>2, <1>3

LEMMA WithinItself == ASSUME NEW p \in Seq(Names) PROVE Within(p, p)
  BY DEF Within, IsPrefix

(* A call that begins with something else than a directory. *)
LEMMA NewCallIs ==
    ASSUME NEW op, NEW base, NEW path \in Seq(Names), NEW settings, NEW step, AtStep(op, step),
           step \notin {"mkdir", "stat"}, op \in {"file", "directory", "rename"} => path # <<>>,
           NEW x, x = Call(op, base, path, settings, step)
    PROVE  GoodCall(x) /\ x.op = op
<1>1. /\ DOMAIN x = CallFields /\ x.op = op /\ x.path = path /\ x.step = step
      /\ Within(x.cur, x.goal) /\ x.made = {}
  BY CallIs
<1>2. QED
  BY <1>1 DEF GoodCall

LEMMA OpenFileIs == ASSUME CInv, NEW c \in Callers, OpenFile(c) PROVE \E x : Begins(c, x)
<1>1. file[c] = None
  BY DEF OpenFile
<1>2. ASSUME NEW o \in FileOpens \cup RelOpens, NEW base, Begin(c, Call("file", base, o[1], o[2], "open"))
      PROVE  \E x : Begins(c, x)
  <2>1. o[1] \in Seq(Names) /\ o[1] # <<>>
    BY PathsAre DEF AllPaths, Paths
  <2>2. PICK x : x = Call("file", base, o[1], o[2], "open")
    OBVIOUS
  <2>3. GoodCall(x) /\ x.op = "file"
    BY <2>1, <2>2, NewCallIs DEF AtStep
  <2>4. Begins(c, x)
    BY <1>1, <1>2, <2>2, <2>3 DEF Begin, Begins
  <2>5. QED
    BY <2>4
<1>3. QED
  BY <1>2 DEF OpenFile

LEMMA CallOpenSyncIs == ASSUME CInv, NEW c \in Callers, CallOpenSync(c) PROVE \E x : Begins(c, x)
<1>1. ASSUME file[c] = None, NEW o \in FileOpens, Begin(c, Call("file", Cwd, o[1], o[2], "open_sync"))
      PROVE  \E x : Begins(c, x)
  <2>1. o[1] \in Seq(Names) /\ o[1] # <<>>
    BY PathsAre DEF AllPaths, Paths
  <2>2. PICK x : x = Call("file", Cwd, o[1], o[2], "open_sync")
    OBVIOUS
  <2>3. GoodCall(x) /\ x.op = "file"
    BY <2>1, <2>2, NewCallIs DEF AtStep
  <2>4. Begins(c, x)
    BY <1>1, <2>2, <2>3 DEF Begin, Begins
  <2>5. QED
    BY <2>4
<1>2. ASSUME dir[c] = None, NEW o \in DirOpens,
             Begin(c, Call("directory", Cwd, o[1], DirSettings(o[2]), "open_sync"))
      PROVE  \E x : Begins(c, x)
  <2>1. o[1] \in Seq(Names) /\ o[1] # <<>>
    BY PathsAre DEF AllPaths, Paths
  <2>3. PICK x : x = Call("directory", Cwd, o[1], DirSettings(o[2]), "open_sync")
    OBVIOUS
  <2>4. GoodCall(x) /\ x.op = "directory"
    BY <2>1, <2>3, NewCallIs DEF AtStep
  <2>5. Begins(c, x)
    BY <1>2, <2>3, <2>4 DEF Begin, Begins
  <2>6. QED
    BY <2>5
<1>3. QED
  BY <1>1, <1>2 DEF CallOpenSync

(* A call that makes directories starts with the whole path. *)
LEMMA GoalIs ==
    ASSUME NEW y, DOMAIN y = CallFields, AtStep(y.op, y.step), y.path \in Seq(Names), y.path # <<>>,
           y.goal = Asked(y), y.cur = Asked(y), \A p \in y.made : Within(p, Asked(y))
    PROVE  GoodCall(y)
<1>1. Asked(y) \in Seq(Names)
  BY ParentIs DEF Asked
<1>2. Within(y.cur, y.goal)
  BY <1>1, WithinItself
<1>3. QED
  BY <1>2 DEF GoodCall

LEMMA OpenDirectoryIs == ASSUME CInv, NEW c \in Callers, OpenDirectory(c) PROVE \E x : Begins(c, x)
<1>1. PICK o \in DirOpens :
        LET x == Call("directory", Cwd, o[1], DirSettings(o[2]), "mkdir")
        IN \/ \E m \in DirMakes : m[1] = o[1] /\
                Begin(c, [x EXCEPT !.goal = m[1], !.cur = m[1], !.settings.mode = m[2]])
           \/ Begin(c, [x EXCEPT !.step = "open", !.retried = TRUE])
  BY Zenon DEF OpenDirectory
<1>2. PICK x : x = Call("directory", Cwd, o[1], DirSettings(o[2]), "mkdir")
  OBVIOUS
<1>3. o[1] \in Seq(Names) /\ o[1] # <<>>
  BY PathsAre DEF AllPaths, Paths
<1>4. /\ DOMAIN x = CallFields /\ x.op = "directory" /\ x.path = o[1] /\ x.step = "mkdir"
      /\ Within(x.cur, x.goal) /\ x.made = {}
  BY <1>2, <1>3, CallIs
<1>5. PICK y : Begin(c, y) /\ GoodCall(y) /\ y.op = "directory"
  <2>1. CASE Begin(c, [x EXCEPT !.step = "open", !.retried = TRUE])
    <3>1. PICK y : y = [x EXCEPT !.step = "open", !.retried = TRUE]
      OBVIOUS
    <3>2. /\ DOMAIN y = CallFields /\ y.op = x.op /\ y.path = x.path /\ y.step = "open"
          /\ y.goal = x.goal /\ y.cur = x.cur /\ y.made = x.made
      BY <1>4, <3>1 DEF CallFields
    <3>3. GoodCall(y)
      BY <1>3, <1>4, <3>2 DEF GoodCall, AtStep
    <3>4. QED
      BY <1>4, <2>1, <3>1, <3>2, <3>3
  <2>2. ASSUME NEW m \in DirMakes, m[1] = o[1],
               Begin(c, [x EXCEPT !.goal = m[1], !.cur = m[1], !.settings.mode = m[2]])
        PROVE  \E y : Begin(c, y) /\ GoodCall(y) /\ y.op = "directory"
    <3>1. PICK y : y = [x EXCEPT !.goal = m[1], !.cur = m[1], !.settings.mode = m[2]]
      OBVIOUS
    <3>2. PICK z : z = [x.settings EXCEPT !.mode = m[2]]
      OBVIOUS
    <3>3. y = [x EXCEPT !.goal = o[1], !.cur = o[1], !.settings = z]
      BY <2>2, <3>1, <3>2
    <3>4. /\ DOMAIN y = CallFields /\ y.op = x.op /\ y.path = x.path /\ y.step = x.step
          /\ y.goal = o[1] /\ y.cur = o[1] /\ y.made = x.made
      BY <1>4, <3>3 DEF CallFields
    <3>5. Asked(y) = o[1] /\ AtStep(y.op, y.step)
      BY <1>4, <3>4 DEF Asked, AtStep
    <3>6. GoodCall(y) /\ y.op = "directory"
      BY <1>3, <1>4, <3>4, <3>5, GoalIs
    <3>7. QED
      BY <2>2, <3>1, <3>6
  <2>3. QED
    BY <1>1, <1>2, <2>1, <2>2, Zenon
<1>6. dir[c] = None
  BY Zenon DEF OpenDirectory
<1>7. Begins(c, y)
  BY <1>5, <1>6 DEF Begin, Begins
<1>8. QED
  BY <1>7

LEMMA MkdirRecursiveIs == ASSUME CInv, NEW c \in Callers, MkdirRecursive(c) PROVE \E x : Begins(c, x)
<1>1. PICK m \in DirMakes :
        Begin(c, [Call("mkdir", Cwd, m[1], Settings({}, {}, m[2]), "mkdir")
                    EXCEPT !.goal = m[1], !.cur = m[1]])
  BY Zenon DEF MkdirRecursive
<1>2. m[1] \in Seq(Names) /\ m[1] # <<>>
  BY PathsAre DEF AllPaths, Paths
<1>3. PICK x : x = Call("mkdir", Cwd, m[1], Settings({}, {}, m[2]), "mkdir")
  OBVIOUS
<1>4. PICK y : y = [x EXCEPT !.goal = m[1], !.cur = m[1]]
  OBVIOUS
<1>5. DOMAIN x = CallFields /\ x.op = "mkdir" /\ x.path = m[1] /\ x.step = "mkdir" /\ x.made = {}
  BY <1>2, <1>3, CallIs
<1>6. GoodCall(y) /\ y.op = "mkdir"
  <2>1. /\ DOMAIN y = CallFields /\ y.op = x.op /\ y.path = x.path /\ y.step = x.step
        /\ y.goal = m[1] /\ y.cur = m[1] /\ y.made = x.made
    BY <1>4, <1>5 DEF CallFields
  <2>2. Asked(y) = m[1] /\ AtStep(y.op, y.step)
    BY <1>5, <2>1 DEF Asked, AtStep
  <2>3. QED
    BY <1>2, <1>5, <2>1, <2>2, GoalIs
<1>7. Begins(c, y)
  BY <1>1, <1>3, <1>4, <1>6 DEF Begin, Begins
<1>8. QED
  BY <1>7

LEMMA SetPathIs == ASSUME CInv, NEW c \in Callers, SetPath(c) PROVE \E x : Begins(c, x)
<1>1. PICK p \in NewPaths : Begin(c, Call("rename", Cwd, p, None, "rename"))
  BY DEF SetPath
<1>2. p \in Seq(Names) /\ p # <<>> /\ file[c] # None
  BY PathsAre DEF AllPaths, Paths, SetPath
<1>3. PICK x : x = Call("rename", Cwd, p, None, "rename")
  OBVIOUS
<1>4. GoodCall(x) /\ x.op = "rename"
  BY <1>2, <1>3, NewCallIs DEF AtStep
<1>5. Begins(c, x)
  BY <1>1, <1>2, <1>3, <1>4 DEF Begin, Begins
<1>6. QED
  BY <1>5

LEMMA ReadAllIs == ASSUME CInv, NEW c \in Callers, ReadAll(c) PROVE \E x : Begins(c, x)
<1>1. Begin(c, Call("read", Cwd, <<>>, None, "size"))
  BY DEF ReadAll
<1>2. PICK x : x = Call("read", Cwd, <<>>, None, "size")
  OBVIOUS
<1>3. <<>> \in Seq(Names)
  OBVIOUS
<1>4. GoodCall(x) /\ x.op = "read"
  <2>1. PICK p : p = <<>>
    OBVIOUS
  <2>2. p \in Seq(Names) /\ x = Call("read", Cwd, p, None, "size")
    BY <1>2, <1>3, <2>1
  <2>3. QED
    BY <2>2, NewCallIs DEF AtStep
<1>5. Begins(c, x)
  BY <1>1, <1>2, <1>4 DEF Begin, Begins
<1>6. QED
  BY <1>5

(* Calls that go on, or fail. *)
LEMMA ContinueIs ==
    ASSUME NEW c \in Callers, call[c] # None, NEW f, FileSystemInv(f),
           NEW x, x = None \/ (GoodCall(x) /\ x.op = call[c].op), Continue(c, f, x)
    PROVE  GoesOn(c, x)
  BY DEF Continue, GoesOn

LEMMA ReturnIs ==
    ASSUME NEW c \in Callers, call[c] # None, NEW f, FileSystemInv(f), NEW x, NEW result,
           Return(c, f, x, result)
    PROVE  GoesOn(c, None)
  BY DEF Return, GoesOn

LEMMA CallIsGood ==
    ASSUME CInv, NEW c \in Callers, call[c] # None
    PROVE  GoodCall(call[c]) /\ FileSystemInv(fs)
  BY DEF CInv, Calls

(* A change that leaves alone what makes a call good. *)
LEMMA StillGood ==
    ASSUME NEW x, GoodCall(x), NEW y, DOMAIN y = CallFields, y.op = x.op, y.path = x.path,
           AtStep(y.op, y.step), y.goal = x.goal, y.cur = x.cur, y.made = x.made,
           y.step \in {"mkdir", "stat"} => x.step \in {"mkdir", "stat"}
    PROVE  GoodCall(y)
  BY DEF GoodCall, Asked

LEMMA OpenFailsIs ==
    ASSUME CInv, NEW c \in Callers, call[c] # None, NEW x, GoodCall(x), x.op = call[c].op,
           NEW error, OpenFails(c, x, error)
    PROVE  \E y : GoesOn(c, y)
<1>1. CASE Return(c, fs, x, error)
  BY <1>1, CallIsGood, ReturnIs
<1>2. CASE /\ x.op = "file"
           /\ Continue(c, fs, [x EXCEPT !.step = "mkdir", !.goal = Parent(x.path), !.cur = Parent(x.path)])
  <2>1. PICK p : p = Parent(x.path)
    OBVIOUS
  <2>2. PICK y : y = [x EXCEPT !.step = "mkdir", !.goal = p, !.cur = p]
    OBVIOUS
  <2>3. /\ DOMAIN y = CallFields /\ y.op = x.op /\ y.path = x.path
        /\ y.step = "mkdir" /\ y.goal = p /\ y.cur = p /\ y.made = x.made
    BY <2>2 DEF GoodCall, CallFields
  <2>4. /\ y.path \in Seq(Names) /\ y.path # <<>> /\ AtStep(y.op, y.step)
        /\ Asked(y) = p /\ \A q \in y.made : Within(q, Asked(y))
    BY <1>2, <2>1, <2>3 DEF GoodCall, AtStep, Asked
  <2>5. GoodCall(y)
    BY <2>3, <2>4, GoalIs
  <2>6. GoesOn(c, y)
    BY <1>2, <2>1, <2>2, <2>3, <2>5, CallIsGood, ContinueIs
  <2>7. QED
    BY <2>6
<1>3. QED
  BY <1>1, <1>2 DEF OpenFails

(* What the kernel makes of an open. *)
LEMMA KernelOpens ==
    ASSUME CInv, NEW x, GoodCall(x), x.step \in {"open", "open_sync"}, NEW how, NEW r, r = Kernel(x, how)
    PROVE  /\ FileSystemInv(r.fs)
           /\ r.error = "Ok" /\ x.base = Cwd => x.path \in DOMAIN r.fs.tree
           /\ r.error # "Ok" => r.fs = fs
<1>1. r = OpenAt2(fs, PlaceOf(fs, x.base), Place(fs, x), how)
  BY DEF Kernel
<1>2. Place(fs, x) \in Seq(Names) /\ (x.base = Cwd => Place(fs, x) = x.path)
  BY PlaceIs DEF CInv, GoodCall
<1>3. QED
  BY <1>1, <1>2, OpenIs DEF CInv

LEMMA OpenedIs ==
    ASSUME CInv, NEW c \in Callers, call[c] # None, NEW x, GoodCall(x), x.op = call[c].op,
           x.step \in {"open", "open_sync"}, NEW how, Kernel(x, how).error = "Ok",
           Opened(c, x, Kernel(x, how).fs, how)
    PROVE  EndsOpen(c, x, how)
<1>1. PICK r : r = Kernel(x, how)
  OBVIOUS
<1>2. FileSystemInv(r.fs) /\ (x.base = Cwd => x.path \in DOMAIN r.fs.tree)
  BY <1>1, KernelOpens
<1>3. fs' = r.fs
  BY <1>1 DEF Opened
<1>4. x.op \in {"file", "directory"}
  BY DEF GoodCall, AtStep
<1>5. Opened(c, x, fs', how)
  BY <1>1, <1>3
<1>6. QED
  BY <1>2, <1>3, <1>4, <1>5 DEF EndsOpen

LEMMA TornIs ==
    ASSUME CInv, NEW c \in Callers, call[c] # None, NEW t, NEW x, x = [call[c] EXCEPT !.torn = t]
    PROVE  GoodCall(x) /\ x.op = call[c].op /\ x.step = call[c].step
<1>1. GoodCall(call[c])
  BY CallIsGood
<1>2. /\ DOMAIN x = CallFields /\ x.op = call[c].op /\ x.path = call[c].path
      /\ x.step = call[c].step /\ x.goal = call[c].goal /\ x.cur = call[c].cur /\ x.made = call[c].made
  BY <1>1 DEF GoodCall, CallFields
<1>3. QED
  BY <1>1, <1>2, StillGood DEF GoodCall

LEMMA OpenKind ==
    ASSUME CInv, NEW c \in Callers, Open(c)
    PROVE  (\E x : GoesOn(c, x)) \/ (\E x, how : EndsOpen(c, x, how))
<1>1. call[c] # None /\ call[c].step = "open"
  BY DEF Open, Opening
<1>2. CASE OpenFails(c, [call[c] EXCEPT !.torn = TRUE], "InvalidInput")
  <2>1. PICK x : x = [call[c] EXCEPT !.torn = TRUE]
    OBVIOUS
  <2>2. QED
    BY <1>1, <1>2, <2>1, TornIs, OpenFailsIs
<1>3. ASSUME NEW how \in Frames(c),
             LET x == [call[c] EXCEPT !.torn = (@ \/ how # How(call[c]))]
                 r == Kernel(x, how)
             IN IF r.error = "Ok" THEN Opened(c, x, r.fs, how) ELSE OpenFails(c, x, r.error)
      PROVE  (\E x : GoesOn(c, x)) \/ (\E x, y : EndsOpen(c, x, y))
  <2>1. PICK x : x = [call[c] EXCEPT !.torn = (@ \/ how # How(call[c]))]
    OBVIOUS
  <2>2. GoodCall(x) /\ x.op = call[c].op /\ x.step = "open"
    BY <1>1, <2>1, TornIs
  <2>3. IF Kernel(x, how).error = "Ok" THEN Opened(c, x, Kernel(x, how).fs, how)
        ELSE OpenFails(c, x, Kernel(x, how).error)
    BY <1>3, <2>1
  <2>4. CASE Kernel(x, how).error = "Ok"
    BY <1>1, <2>2, <2>3, <2>4, OpenedIs
  <2>5. CASE Kernel(x, how).error # "Ok"
    BY <1>1, <2>2, <2>3, <2>5, OpenFailsIs
  <2>6. QED
    BY <2>4, <2>5
<1>4. QED
  BY <1>2, <1>3 DEF Open

LEMMA OpenSyncKind ==
    ASSUME CInv, NEW c \in Callers, OpenSync(c)
    PROVE  (\E x : GoesOn(c, x)) \/ (\E x, how : EndsOpen(c, x, how))
<1>1. PICK x : x = call[c]
  OBVIOUS
<1>2. call[c] # None /\ GoodCall(x) /\ x.step = "open_sync" /\ FileSystemInv(fs)
  BY <1>1, CallIsGood DEF OpenSync
<1>3. PICK how : how = How(x)
  OBVIOUS
<1>4. IF Kernel(x, how).error = "Ok" THEN Opened(c, x, Kernel(x, how).fs, how)
      ELSE Return(c, fs, x, Kernel(x, how).error)
  BY <1>1, <1>3 DEF OpenSync
<1>5. CASE Kernel(x, how).error = "Ok"
  BY <1>1, <1>2, <1>4, <1>5, OpenedIs
<1>6. CASE Kernel(x, how).error # "Ok"
  BY <1>2, <1>4, <1>6, ReturnIs
<1>7. QED
  BY <1>5, <1>6

(* One directory further down. *)
LEMMA DeeperIs ==
    ASSUME NEW cur, NEW goal, Within(cur, goal), cur # goal
    PROVE  Within(SubSeq(goal, 1, Len(cur) + 1), goal)
<1>1. cur \in Seq(Names) /\ goal \in Seq(Names)
  BY DEF Within
<1>2. Len(cur) <= Len(goal) /\ \A i \in 1 .. Len(cur) : cur[i] = goal[i]
  BY <1>1, PrefixByNames DEF Within
<1>3. Len(cur) \in Nat /\ Len(goal) \in Nat
  BY <1>1, LengthOf
<1>4. Len(cur) # Len(goal)
  BY <1>1, <1>2, <1>3
<1>5. PICK n \in 1 .. Len(goal) : n = Len(cur) + 1
  BY <1>2, <1>3, <1>4
<1>6. PICK p : p = SubSeq(goal, 1, n)
  OBVIOUS
<1>7. p \in Seq(Names) /\ Len(p) = n /\ \A i \in 1 .. n : p[i] = goal[i]
  BY <1>1, <1>5, <1>6
<1>8. IsPrefix(p, goal)
  BY <1>1, <1>3, <1>5, <1>7, PrefixByNames
<1>9. QED
  BY <1>1, <1>5, <1>6, <1>7, <1>8 DEF Within

(* One directory further up. *)
LEMMA ParentWithin ==
    ASSUME NEW cur, NEW goal, Within(cur, goal), cur # <<>>
    PROVE  Within(Parent(cur), goal)
<1>1. cur \in Seq(Names) /\ goal \in Seq(Names)
  BY DEF Within
<1>2. Len(cur) <= Len(goal) /\ \A i \in 1 .. Len(cur) : cur[i] = goal[i]
  BY <1>1, PrefixByNames DEF Within
<1>3. PICK n \in Nat : n = Len(cur) /\ n >= 1
  BY <1>1, LengthOf
<1>4. PICK p : p = SubSeq(cur, 1, n - 1)
  OBVIOUS
<1>5. p \in Seq(Names) /\ Len(p) = n - 1 /\ \A i \in 1 .. n - 1 : p[i] = cur[i]
  BY <1>1, <1>3, <1>4
<1>6. Len(goal) \in Nat
  BY <1>1, LengthOf
<1>7. IsPrefix(p, goal)
  BY <1>1, <1>2, <1>3, <1>5, <1>6, PrefixByNames
<1>8. QED
  BY <1>1, <1>3, <1>4, <1>5, <1>7 DEF Within, Parent

LEMMA MadeIs ==
    ASSUME CInv, NEW c \in Callers, call[c] # None, NEW f, FileSystemInv(f),
           NEW x, GoodCall(x), x.op = call[c].op, x.step \in {"mkdir", "stat"}, Made(c, f, x)
    PROVE  \E y : GoesOn(c, y)
<1>0. DOMAIN x = CallFields /\ x.op \in {"file", "directory", "mkdir"} /\ Within(x.cur, x.goal)
  BY DEF GoodCall, AtStep
<1>1. CASE /\ x.cur # x.goal
           /\ Continue(c, f, [x EXCEPT !.cur = SubSeq(x.goal, 1, Len(x.cur) + 1),
                                       !.up = TRUE, !.step = "mkdir"])
  <2>1. PICK p : p = SubSeq(x.goal, 1, Len(x.cur) + 1)
    OBVIOUS
  <2>2. PICK y : y = [x EXCEPT !.cur = p, !.up = TRUE, !.step = "mkdir"]
    OBVIOUS
  <2>3. Within(p, x.goal)
    BY <1>0, <1>1, <2>1, DeeperIs
  <2>4. /\ DOMAIN y = CallFields /\ y.op = x.op /\ y.path = x.path
        /\ y.step = "mkdir" /\ y.goal = x.goal /\ y.cur = p /\ y.made = x.made
    BY <1>0, <2>2 DEF CallFields
  <2>5. AtStep(y.op, y.step)
    BY <1>0, <2>4 DEF AtStep
  <2>6. GoodCall(y)
    BY <2>3, <2>4, <2>5 DEF GoodCall, Asked
  <2>7. GoesOn(c, y)
    BY <1>1, <2>1, <2>2, <2>4, <2>6, ContinueIs
  <2>8. QED
    BY <2>7
<1>2. CASE Return(c, f, x, "Ok")
  BY <1>2, ReturnIs
<1>3. CASE x.op # "mkdir" /\ Continue(c, f, [x EXCEPT !.step = "open", !.retried = TRUE])
  <2>1. PICK y : y = [x EXCEPT !.step = "open", !.retried = TRUE]
    OBVIOUS
  <2>2. /\ DOMAIN y = CallFields /\ y.op = x.op /\ y.path = x.path
        /\ y.step = "open" /\ y.goal = x.goal /\ y.cur = x.cur /\ y.made = x.made
    BY <1>0, <2>1 DEF CallFields
  <2>3. AtStep(y.op, y.step)
    BY <1>0, <1>3, <2>2 DEF AtStep
  <2>4. GoodCall(y)
    BY <2>2, <2>3, StillGood
  <2>5. GoesOn(c, y)
    BY <1>3, <2>1, <2>2, <2>4, ContinueIs
  <2>6. QED
    BY <2>5
<1>4. QED
  BY <1>1, <1>2, <1>3 DEF Made

(* It goes up, or fails. *)
LEMMA MkdirFailsIs ==
    ASSUME CInv, NEW c \in Callers, call[c] # None, NEW x, x = call[c],
           x.step \in {"mkdir", "stat"}, NEW error, MkdirFails(c, x, error)
    PROVE  \E y : GoesOn(c, y)
<1>1. GoodCall(x) /\ FileSystemInv(fs)
  BY CallIsGood
<1>2. CASE Return(c, fs, x, error)
  BY <1>1, <1>2, ReturnIs
<1>3. CASE Len(x.cur) > 1 /\ Continue(c, fs, [x EXCEPT !.cur = Parent(@), !.step = "mkdir"])
  <2>1. PICK p : p = Parent(x.cur)
    OBVIOUS
  <2>2. PICK y : y = [x EXCEPT !.cur = p, !.step = "mkdir"]
    OBVIOUS
  <2>3. /\ DOMAIN y = CallFields /\ y.op = x.op /\ y.path = x.path /\ y.step = "mkdir"
        /\ y.goal = x.goal /\ y.cur = p /\ y.made = x.made
    BY <1>1, <2>2 DEF GoodCall, CallFields
  <2>4. x.cur # <<>>
    <3>1. Len(<<>>) = 0
      OBVIOUS
    <3>2. QED
      BY <1>3, <3>1
  <2>5. Within(p, x.goal)
    BY <1>1, <2>1, <2>4, ParentWithin DEF GoodCall
  <2>6. AtStep(y.op, y.step)
    BY <1>1, <2>3 DEF GoodCall, AtStep
  <2>7. GoodCall(y)
    BY <1>1, <2>3, <2>5, <2>6 DEF GoodCall, Asked
  <2>8. GoesOn(c, y)
    BY <1>1, <1>3, <2>1, <2>2, <2>3, <2>7, ContinueIs
  <2>9. QED
    BY <2>8
<1>4. QED
  BY <1>2, <1>3 DEF MkdirFails

LEMMA MkdirKind == ASSUME CInv, NEW c \in Callers, Mkdir(c) PROVE \E x : GoesOn(c, x)
<1>1. PICK x : x = call[c]
  OBVIOUS
<1>2. call[c] # None /\ GoodCall(x) /\ x.step = "mkdir" /\ FileSystemInv(fs)
  BY <1>1, CallIsGood DEF Mkdir
<1>3. PICK r : r = Kernel(x, None)
  OBVIOUS
<1>4. /\ DOMAIN x = CallFields /\ x.op \in {"file", "directory", "mkdir"} /\ Within(x.cur, x.goal)
      /\ x.cur \in Seq(Names)
  BY <1>2 DEF GoodCall, AtStep, Within
<1>5. FileSystemInv(r.fs)
  BY <1>2, <1>3, <1>4, MkdirIs DEF Kernel
<1>6. \/ Made(c, r.fs, [x EXCEPT !.made = @ \cup {x.cur}])
      \/ Continue(c, fs, [x EXCEPT !.step = "stat"])
      \/ MkdirFails(c, x, r.error)
  BY <1>1, <1>3 DEF Mkdir
<1>7. CASE Made(c, r.fs, [x EXCEPT !.made = @ \cup {x.cur}])
  <2>1. PICK y : y = [x EXCEPT !.made = @ \cup {x.cur}]
    OBVIOUS
  <2>2. /\ DOMAIN y = CallFields /\ y.op = x.op /\ y.path = x.path /\ y.step = x.step
        /\ y.goal = x.goal /\ y.cur = x.cur /\ y.made = x.made \cup {x.cur}
    BY <1>4, <2>1 DEF CallFields
  <2>3. GoodCall(y)
    <3>1. x.goal = Asked(x) /\ Asked(y) = Asked(x)
      BY <1>2, <2>2 DEF GoodCall, Asked
    <3>2. \A p \in y.made : Within(p, Asked(y))
      BY <1>2, <1>4, <2>2, <3>1 DEF GoodCall
    <3>3. QED
      BY <1>2, <2>2, <3>1, <3>2 DEF GoodCall
  <2>4. QED
    BY <1>1, <1>2, <1>5, <1>7, <2>1, <2>2, <2>3, MadeIs
<1>8. CASE Continue(c, fs, [x EXCEPT !.step = "stat"])
  <2>1. PICK y : y = [x EXCEPT !.step = "stat"]
    OBVIOUS
  <2>2. /\ DOMAIN y = CallFields /\ y.op = x.op /\ y.path = x.path /\ y.step = "stat"
        /\ y.goal = x.goal /\ y.cur = x.cur /\ y.made = x.made
    BY <1>4, <2>1 DEF CallFields
  <2>3. AtStep(y.op, y.step)
    BY <1>4, <2>2 DEF AtStep
  <2>4. GoodCall(y)
    BY <1>2, <2>2, <2>3, StillGood
  <2>5. GoesOn(c, y)
    BY <1>1, <1>2, <1>8, <2>1, <2>2, <2>4, ContinueIs
  <2>6. QED
    BY <2>5
<1>9. CASE MkdirFails(c, x, r.error)
  BY <1>1, <1>2, <1>9, MkdirFailsIs
<1>10. QED
  BY <1>6, <1>7, <1>8, <1>9

LEMMA StatKind == ASSUME CInv, NEW c \in Callers, Stat(c) PROVE \E x : GoesOn(c, x)
<1>1. PICK x : x = call[c]
  OBVIOUS
<1>2. call[c] # None /\ GoodCall(x) /\ x.step = "stat" /\ FileSystemInv(fs)
  BY <1>1, CallIsGood DEF Stat
<1>3. Made(c, fs, x) \/ (\E e : MkdirFails(c, x, e)) \/ (\E e : Return(c, fs, x, e))
  BY <1>1 DEF Stat
<1>4. CASE Made(c, fs, x)
  BY <1>1, <1>2, <1>4, MadeIs
<1>5. ASSUME NEW e, Return(c, fs, x, e) PROVE GoesOn(c, None)
  BY <1>2, <1>5, ReturnIs
<1>6. ASSUME NEW e, MkdirFails(c, x, e) PROVE \E y : GoesOn(c, y)
  BY <1>1, <1>2, <1>6, MkdirFailsIs
<1>7. QED
  BY <1>3, <1>4, <1>5, <1>6

LEMMA RenameKind ==
    ASSUME CInv, NEW c \in Callers, Rename(c)
    PROVE  (\E x : GoesOn(c, x)) \/ EndsRenamed(c)
<1>1. PICK x : x = call[c]
  OBVIOUS
<1>2. call[c] # None /\ GoodCall(x) /\ x.step = "rename" /\ FileSystemInv(fs)
  BY <1>1, CallIsGood DEF Rename
<1>3. x.op = "rename" /\ x.path \in Seq(Names) /\ x.path # <<>>
  BY <1>2 DEF GoodCall, AtStep
<1>4. file[c] # None /\ file[c].path \in Seq(Names)
  BY <1>1, <1>2, <1>3 DEF CInv, Calls, NamedFiles, GoodFile, Paths
<1>5. PICK r : r = RenameAt(fs, file[c].path, x.path)
  OBVIOUS
<1>6. /\ FileSystemInv(r.fs)
      /\ r.error = "Ok" => /\ file[c].path \in DOMAIN fs.tree /\ x.path \in DOMAIN r.fs.tree
                          /\ r.fs.tree[x.path] = fs.tree[file[c].path]
  <2>1. PICK old : old = file[c].path
    OBVIOUS
  <2>2. PICK new : new = x.path
    OBVIOUS
  <2>3. FileSystemInv(fs) /\ old \in Seq(Names) /\ new \in Seq(Names) /\ r = RenameAt(fs, old, new)
    BY <1>2, <1>3, <1>4, <1>5, <2>1, <2>2
  <2>4. FileSystemInv(r.fs)
    BY <2>3, RenameIs
  <2>5. r.error = "Ok" => /\ old \in DOMAIN fs.tree /\ new \in DOMAIN r.fs.tree
                         /\ r.fs.tree[new] = fs.tree[old]
    BY <2>3, RenameIs, SMTT(30)
  <2>6. QED
    BY <2>1, <2>2, <2>4, <2>5
<1>7. /\ fs' = r.fs /\ Settle(c, None, r.error = "Ok")
      /\ IF r.error = "Ok" THEN Renamed(c, x) ELSE UNCHANGED file
      /\ UNCHANGED <<desc, dir, closing, dropped>>
  BY <1>1, <1>5 DEF Rename
<1>8. CASE r.error = "Ok"
  <2>1. Settle(c, None, TRUE)
    BY <1>7, <1>8 DEF Settle, Touched
  <2>2. EndsRenamed(c)
    BY <1>1, <1>2, <1>3, <1>4, <1>6, <1>7, <1>8, <2>1 DEF EndsRenamed, Renamed, Paths
  <2>3. QED
    BY <2>2
<1>9. CASE r.error # "Ok"
  <2>1. Settle(c, None, FALSE)
    BY <1>7, <1>9 DEF Settle, Touched
  <2>2. GoesOn(c, None)
    BY <1>2, <1>6, <1>7, <1>9, <2>1 DEF GoesOn, Handles
  <2>3. QED
    BY <2>2
<1>10. QED
  BY <1>8, <1>9

LEMMA MeasureFileKind == ASSUME CInv, NEW c \in Callers, MeasureFile(c) PROVE \E x : GoesOn(c, x)
<1>1. PICK x : x = call[c]
  OBVIOUS
<1>2. call[c] # None /\ GoodCall(x) /\ x.step = "size" /\ FileSystemInv(fs)
  BY <1>1, CallIsGood DEF MeasureFile
<1>3. PICK n : n = Stats(fs.inodes[desc[file[c].d].ino], SizeMask).size
  OBVIOUS
<1>4. PICK y : y = [x EXCEPT !.step = "read", !.size = n]
  OBVIOUS
<1>5. /\ DOMAIN y = CallFields /\ y.op = x.op /\ y.path = x.path
      /\ y.step = "read" /\ y.goal = x.goal /\ y.cur = x.cur /\ y.made = x.made
  BY <1>2, <1>4 DEF GoodCall, CallFields
<1>6. AtStep(y.op, y.step)
  BY <1>2, <1>5 DEF GoodCall, AtStep
<1>7. GoodCall(y)
  BY <1>2, <1>5, <1>6, StillGood
<1>8. Continue(c, fs, y)
  BY <1>1, <1>3, <1>4, Zenon DEF MeasureFile
<1>9. QED
  BY <1>1, <1>2, <1>5, <1>7, <1>8, ContinueIs

LEMMA ReadFileKind == ASSUME CInv, NEW c \in Callers, ReadFile(c) PROVE GoesOn(c, None)
  BY CallIsGood DEF ReadFile, GoesOn

LEMMA AbandonKind ==
    ASSUME CInv, NEW c \in Callers, Abandon(c)
    PROVE  (\E x : GoesOn(c, x)) \/ (\E x, how : OpensForNobody(c, x, how))
<1>1. PICK x : x = call[c]
  OBVIOUS
<1>2. call[c] # None /\ GoodCall(x) /\ FileSystemInv(fs)
  BY <1>1, CallIsGood DEF Abandon
<1>3. CASE Continue(c, fs, None)
  BY <1>2, <1>3, ContinueIs
<1>4. CASE x.step = "mkdir" /\ Continue(c, Kernel(x, None).fs, None)
  <2>1. PICK r : r = MkdirAt(fs, x.cur, ToDirectorySafe(x.settings.mode))
    OBVIOUS
  <2>2. FileSystemInv(r.fs)
    BY <1>2, <2>1, MkdirIs DEF GoodCall, Within
  <2>3. Continue(c, r.fs, None)
    BY <1>4, <2>1 DEF Kernel
  <2>4. QED
    BY <1>2, <2>2, <2>3, ContinueIs
<1>5. CASE x.step = "rename" /\ Continue(c, RenameAt(fs, file[c].path, x.path).fs, None)
  <2>1. PICK r : r = RenameAt(fs, file[c].path, x.path)
    OBVIOUS
  <2>2. x.op = "rename" /\ x.path \in Seq(Names)
    BY <1>2, <1>5 DEF GoodCall, AtStep
  <2>3. file[c].path \in Seq(Names)
    BY <1>1, <1>2, <2>2 DEF CInv, Calls, NamedFiles, GoodFile, Paths
  <2>4. FileSystemInv(r.fs)
    BY <1>2, <2>1, <2>2, <2>3, RenameIs
  <2>5. QED
    BY <1>2, <1>5, <2>1, <2>4, ContinueIs
<1>6. ASSUME NEW how, NEW r, r = Kernel(x, how), x.step = "open", fs' = r.fs, Settle(c, None, FALSE),
             desc' = Append(desc, NewDescription(r.fs, x, how)),
             dropped' = dropped \cup {Len(desc) + 1}, UNCHANGED <<file, dir, closing>>
      PROVE  OpensForNobody(c, x, how)
  BY <1>2, <1>6, KernelOpens DEF OpensForNobody
<1>7. \/ Continue(c, fs, None)
      \/ x.step = "mkdir" /\ Continue(c, Kernel(x, None).fs, None)
      \/ x.step = "rename" /\ Continue(c, RenameAt(fs, file[c].path, x.path).fs, None)
      \/ \E how, r : /\ r = Kernel(x, how) /\ x.step = "open" /\ fs' = r.fs /\ Settle(c, None, FALSE)
                     /\ desc' = Append(desc, NewDescription(r.fs, x, how))
                     /\ dropped' = dropped \cup {Len(desc) + 1} /\ UNCHANGED <<file, dir, closing>>
  BY <1>1 DEF Abandon
<1>8. QED
  BY <1>3, <1>4, <1>5, <1>6, <1>7

LEMMA OutsiderIs ==
    ASSUME CInv, NEW p \in Paths, Outsider(p)
    PROVE  FileSystemInv(fs')
<1>1. PICK w : w = With(fs, p, [type |-> "FILE", perm |-> Private, len |-> 1])
  OBVIOUS
<1>2. p \in Seq(Names) /\ p # <<>> /\ FileSystemInv(fs)
  BY DEF Paths, CInv
<1>3. PICK g : g = fs'
  OBVIOUS
<1>4. ~ Exists(fs, p) => FileSystemInv(w)
  BY <1>1, <1>2, WithIs
<1>5. \/ ~ Exists(fs, p) /\ g = w
      \/ /\ ~ Exists(fs, p)
         /\ g = [w EXCEPT !.inodes[Len(w.inodes)] = [type |-> "DIRECTORY", perm |-> {"read"}, len |-> 0]]
      \/ g = Without(fs, p)
      \/ g = [fs EXCEPT !.inodes[fs.tree[p]].len = 1]
  BY <1>1, <1>3 DEF Outsider
<1>6. CASE /\ ~ Exists(fs, p)
           /\ g = [w EXCEPT !.inodes[Len(w.inodes)] = [type |-> "DIRECTORY", perm |-> {"read"}, len |-> 0]]
  <2>1. PICK e : e = [type |-> "DIRECTORY", perm |-> {"read"}, len |-> 0]
    OBVIOUS
  <2>2. PICK s : s = [w.inodes EXCEPT ![Len(w.inodes)] = e]
    OBVIOUS
  <2>3. FileSystemInv(w)
    BY <1>4, <1>6
  <2>4. g = [w EXCEPT !.inodes = s]
    BY <1>6, <2>1, <2>2
  <2>5. DOMAIN g = {"tree", "inodes"} /\ g.tree = w.tree /\ g.inodes = s
    BY <2>3, <2>4 DEF FileSystemInv
  <2>6. IsSequence(s) /\ s # <<>>
    <3>1. PICK t : t = w.inodes
      OBVIOUS
    <3>2. IsSequence(t) /\ t # <<>> /\ s = [t EXCEPT ![Len(t)] = e]
      BY <2>2, <2>3, <3>1 DEF FileSystemInv
    <3>3. QED
      BY <3>2, ExceptIs
  <2>7. FileSystemInv(g)
    BY <2>3, <2>5, <2>6 DEF FileSystemInv
  <2>8. QED
    BY <1>3, <2>7
<1>7. CASE g = Without(fs, p)
  BY <1>2, <1>3, <1>7, WithoutIs
<1>8. CASE g = [fs EXCEPT !.inodes[fs.tree[p]].len = 1]
  <2>1. PICK i : i = fs.tree[p]
    OBVIOUS
  <2>2. PICK n \in Nat : n = 1
    OBVIOUS
  <2>3. g = [fs EXCEPT !.inodes[i].len = n]
    BY <1>8, <2>1, <2>2
  <2>4. FileSystemInv(fs)
    BY <1>2
  <2>5. FileSystemInv(g)
    BY <2>3, <2>4, WrittenIs
  <2>6. QED
    BY <1>3, <2>5
<1>9. QED
  <2>1. CASE ~ Exists(fs, p) /\ g = w
    BY <1>3, <1>4, <2>1
  <2>2. QED
    BY <1>5, <1>6, <1>7, <1>8, <2>1

-----------------------------------------------------------------------------
(* What each step does to the calls, and to who has a File. *)
Kinds ==
    \/ \E c \in Callers : \E x : GoesOn(c, x)
    \/ \E c \in Callers : \E x, how : EndsOpen(c, x, how)
    \/ \E c \in Callers : \E x, how : OpensForNobody(c, x, how)
    \/ \E c \in Callers : EndsRenamed(c)
    \/ \E c \in Callers : \E x : Begins(c, x)
    \/ \E c \in Callers : DropFile(c) \/ DropDirectory(c) \/ \E u \in Callers : CloneFile(c, u)
    \/ \E c \in Callers : Iter(c) \/ NextEntry(c) \/ DropStream(c)
    \/ \E d \in closing : Close(d)
    \/ \E p \in Paths : Outsider(p)
    \/ UNCHANGED <<fs, Handles, stream, call, astray>>

LEMMA StepKinds == ASSUME CInv, [Next]_vars PROVE Kinds
<1>1. ASSUME NEW c \in Callers, OpenFile(c) \/ CallOpenSync(c) \/ OpenDirectory(c)
                                    \/ MkdirRecursive(c) \/ SetPath(c) \/ ReadAll(c)
      PROVE  \E x : Begins(c, x)
  BY <1>1, OpenFileIs, CallOpenSyncIs, OpenDirectoryIs, MkdirRecursiveIs, SetPathIs, ReadAllIs
<1>2. ASSUME NEW c \in Callers, Open(c) \/ OpenSync(c)
      PROVE  (\E x : GoesOn(c, x)) \/ (\E x, how : EndsOpen(c, x, how))
  BY <1>2, OpenKind, OpenSyncKind
<1>3. ASSUME NEW c \in Callers, Mkdir(c) \/ Stat(c) \/ MeasureFile(c) \/ ReadFile(c)
      PROVE  \E x : GoesOn(c, x)
  BY <1>3, MkdirKind, StatKind, MeasureFileKind, ReadFileKind
<1>4. ASSUME NEW c \in Callers, Rename(c) PROVE (\E x : GoesOn(c, x)) \/ EndsRenamed(c)
  BY <1>4, RenameKind
<1>5. ASSUME NEW c \in Callers, Abandon(c) PROVE (\E x : GoesOn(c, x)) \/ (\E x, how : OpensForNobody(c, x, how))
  BY <1>5, AbandonKind
<1>6. ASSUME NEW c \in Callers, RefuseOpen(c) \/ IterFails(c)
      PROVE  UNCHANGED <<fs, Handles, stream, call, astray>>
  BY <1>6 DEF RefuseOpen, IterFails, Handles
<1>7. ASSUME NEW p \in {o[1] : o \in FileOpens \cup DirMakes} PROVE p \in Paths
  BY PathsAre DEF AllPaths
<1>8. ASSUME UNCHANGED vars PROVE UNCHANGED <<fs, Handles, stream, call, astray>>
  BY <1>8 DEF vars, Handles
<1>9. QED
  BY <1>1, <1>2, <1>3, <1>4, <1>5, <1>6, <1>7, <1>8, Zenon DEF Next, Kinds

-----------------------------------------------------------------------------
(* The calls of the others are the same calls, whoever changes the tree.   *)
SameCall(y, x) == (y # None => x # None) /\ (x # None => GoodCall(y) /\ y.op = x.op)

LEMMA AloneIs ==
    ASSUME NEW x, GoodCall(x), NEW y, y = [x EXCEPT !.alone = FALSE]
    PROVE  GoodCall(y) /\ y.op = x.op
<1>1. /\ DOMAIN y = CallFields /\ y.op = x.op /\ y.path = x.path /\ y.step = x.step
      /\ y.goal = x.goal /\ y.cur = x.cur /\ y.made = x.made
  BY DEF GoodCall, CallFields
<1>2. QED
  BY <1>1, StillGood DEF GoodCall

LEMMA SettleCalls ==
    ASSUME CInv, NEW c \in Callers, NEW x, NEW renamed, Settle(c, x, renamed)
    PROVE  /\ DOMAIN call' = Callers /\ call'[c] = x
           /\ \A u \in Callers \ {c} : SameCall(call'[u], call[u])
<1>1. call' = [u \in Callers |-> IF u = c THEN x
                                 ELSE IF call[u] # None /\ fs' # fs THEN [call[u] EXCEPT !.alone = FALSE]
                                 ELSE call[u]]
  BY DEF Settle
<1>2. DOMAIN call' = Callers /\ call'[c] = x
  BY <1>1
<1>3. ASSUME NEW u \in Callers \ {c} PROVE SameCall(call'[u], call[u])
  <2>1. PICK y : y = [call[u] EXCEPT !.alone = FALSE]
    OBVIOUS
  <2>2. call'[u] = IF call[u] # None /\ fs' # fs THEN y ELSE call[u]
    BY <1>1, <2>1
  <2>3. call[u] # None => GoodCall(call[u])
    BY DEF CInv, Calls
  <2>4. call[u] # None => GoodCall(y) /\ y.op = call[u].op
    BY <2>1, <2>3, AloneIs
  <2>5. QED
    BY <2>2, <2>3, <2>4 DEF SameCall
<1>4. QED
  BY <1>2, <1>3

LEMMA OutsiderCalls ==
    ASSUME CInv, NEW p, Outsider(p)
    PROVE  DOMAIN call' = Callers /\ \A u \in Callers : SameCall(call'[u], call[u])
<1>1. call' = [u \in Callers |-> IF call[u] # None THEN [call[u] EXCEPT !.alone = FALSE] ELSE None]
  BY DEF Outsider
<1>2. ASSUME NEW u \in Callers PROVE SameCall(call'[u], call[u])
  <2>1. PICK y : y = [call[u] EXCEPT !.alone = FALSE]
    OBVIOUS
  <2>2. call'[u] = IF call[u] # None THEN y ELSE None
    BY <1>1, <2>1
  <2>3. call[u] # None => GoodCall(call[u])
    BY DEF CInv, Calls
  <2>4. call[u] # None => GoodCall(y) /\ y.op = call[u].op
    BY <2>1, <2>3, AloneIs
  <2>5. QED
    BY <2>2, <2>4 DEF SameCall
<1>3. QED
  BY <1>1, <1>2

(* A step after which the calls are the same, but for c's, and the handles *)
(* are, but for c's, keeps them all good.                                  *)
LEMMA CallsKept ==
    ASSUME CInv, NEW c \in Callers, DOMAIN call' = Callers, NamedFiles',
           \A u \in Callers \ {c} : /\ SameCall(call'[u], call[u])
                                    /\ file[u] = None <=> file'[u] = None
                                    /\ dir[u] = None => dir'[u] = None,
           call'[c] # None => /\ GoodCall(call'[c])
                              /\ call'[c].op = "file" => file'[c] = None
                              /\ call'[c].op = "directory" => dir'[c] = None
                              /\ call'[c].op = "rename" => file'[c] # None
    PROVE  Calls'
<1>1. ASSUME NEW u \in Callers, call'[u] # None
      PROVE  /\ GoodCall(call'[u])
             /\ call'[u].op = "file" => file'[u] = None
             /\ call'[u].op = "directory" => dir'[u] = None
             /\ call'[u].op = "rename" => file'[u] # None
  <2>1. CASE u = c
    BY <1>1, <2>1
  <2>2. CASE u # c
    <3>1. SameCall(call'[u], call[u])
      BY <2>2
    <3>2. call[u] # None /\ GoodCall(call'[u]) /\ call'[u].op = call[u].op
      BY <1>1, <3>1 DEF SameCall
    <3>3. /\ call[u].op = "file" => file[u] = None
          /\ call[u].op = "directory" => dir[u] = None
          /\ call[u].op = "rename" => file[u] # None
      BY <3>2 DEF CInv, Calls
    <3>4. QED
      BY <2>2, <3>2, <3>3
  <2>3. QED
    BY <2>1, <2>2
<1>2. QED
  BY <1>1 DEF Calls

LEMMA GoesOnKeeps == ASSUME CInv, NEW c \in Callers, NEW x, GoesOn(c, x) PROVE CInv'
<1>1. /\ DOMAIN call' = Callers /\ call'[c] = x
      /\ \A u \in Callers \ {c} : SameCall(call'[u], call[u])
  BY SettleCalls DEF GoesOn
<1>2. file' = file /\ dir' = dir /\ FileSystemInv(fs')
  BY DEF GoesOn, Handles
<1>3. NamedFiles'
  BY <1>2 DEF CInv, NamedFiles
<1>4. call'[c] # None => /\ GoodCall(call'[c])
                         /\ call'[c].op = "file" => file'[c] = None
                         /\ call'[c].op = "directory" => dir'[c] = None
                         /\ call'[c].op = "rename" => file'[c] # None
  BY <1>1, <1>2 DEF GoesOn, CInv, Calls
<1>5. Calls'
  BY <1>1, <1>2, <1>3, <1>4, CallsKept
<1>6. QED
  BY <1>2, <1>3, <1>5 DEF CInv

LEMMA EndsOpenKeeps == ASSUME CInv, NEW c \in Callers, NEW x, NEW how, EndsOpen(c, x, how) PROVE CInv'
<1>1. /\ DOMAIN call' = Callers /\ call'[c] = None
      /\ \A u \in Callers \ {c} : SameCall(call'[u], call[u])
  BY SettleCalls DEF EndsOpen, Opened
<1>2. FileSystemInv(fs')
  BY DEF EndsOpen
<1>3. PICK y : y = [d |-> Len(desc) + 1, path |-> x.path, rel |-> x.base # Cwd]
  OBVIOUS
<1>4. PICK z : z = [d |-> Len(desc) + 1]
  OBVIOUS
<1>5. \/ x.op = "file" /\ file' = [file EXCEPT ![c] = y] /\ dir' = dir
      \/ x.op # "file" /\ dir' = [dir EXCEPT ![c] = z] /\ file' = file
  BY <1>3, <1>4 DEF EndsOpen, Opened
<1>6. DOMAIN file = Callers /\ \A u \in Callers : file[u] # None => GoodFile(file[u])
  BY DEF CInv, NamedFiles
<1>7. x.op = "file" => GoodFile(y)
  BY <1>3 DEF EndsOpen, GoodCall, GoodFile, FileFields, Paths
<1>8. NamedFiles'
  BY <1>5, <1>6, <1>7 DEF NamedFiles, CInv
<1>9. \A u \in Callers \ {c} : (file[u] = None <=> file'[u] = None) /\ (dir[u] = None => dir'[u] = None)
  <2>1. y # None /\ DOMAIN dir = Callers
    BY <1>3, NoneIsNoFile DEF FileFields, CInv, NamedFiles
  <2>2. x.op = "file" => file[c] = None
    BY DEF EndsOpen, CInv, Calls
  <2>3. QED
    BY <1>5, <1>6, <2>1, <2>2
<1>10. Calls'
  BY <1>1, <1>8, <1>9, CallsKept
<1>11. QED
  BY <1>2, <1>8, <1>10 DEF CInv

LEMMA OpensForNobodyKeeps == ASSUME CInv, NEW c \in Callers, NEW x, NEW how, OpensForNobody(c, x, how) PROVE CInv'
<1>1. /\ DOMAIN call' = Callers /\ call'[c] = None
      /\ \A u \in Callers \ {c} : SameCall(call'[u], call[u])
  BY SettleCalls DEF OpensForNobody
<1>2. file' = file /\ dir' = dir /\ FileSystemInv(fs')
  BY DEF OpensForNobody
<1>3. NamedFiles'
  BY <1>2 DEF CInv, NamedFiles
<1>4. Calls'
  BY <1>1, <1>2, <1>3, CallsKept
<1>5. QED
  BY <1>2, <1>3, <1>4 DEF CInv

LEMMA EndsRenamedKeeps == ASSUME CInv, NEW c \in Callers, EndsRenamed(c) PROVE CInv'
<1>1. /\ DOMAIN call' = Callers /\ call'[c] = None
      /\ \A u \in Callers \ {c} : SameCall(call'[u], call[u])
  BY SettleCalls DEF EndsRenamed
<1>2. PICK y : y = [file[c] EXCEPT !.path = call[c].path]
  OBVIOUS
<1>3. file' = [file EXCEPT ![c] = y] /\ dir' = dir /\ FileSystemInv(fs')
  BY <1>2 DEF EndsRenamed
<1>4. DOMAIN file = Callers /\ \A u \in Callers : file[u] # None => GoodFile(file[u])
  BY DEF CInv, NamedFiles
<1>5. GoodFile(y)
  BY <1>2, <1>4 DEF EndsRenamed, GoodFile, FileFields
<1>6. NamedFiles'
  BY <1>3, <1>4, <1>5 DEF NamedFiles, CInv
<1>7. Calls'
  BY <1>1, <1>3, <1>6, CallsKept
<1>8. QED
  BY <1>3, <1>6, <1>7 DEF CInv

LEMMA BeginsKeeps == ASSUME CInv, NEW c \in Callers, NEW x, Begins(c, x) PROVE CInv'
<1>1. call' = [call EXCEPT ![c] = x] /\ fs' = fs /\ file' = file /\ dir' = dir
  BY Zenon DEF Begins, Handles
<1>2. DOMAIN call' = Callers /\ call'[c] = x
  BY <1>1 DEF CInv, Calls
<1>3. \A u \in Callers \ {c} : SameCall(call'[u], call[u])
  BY <1>1 DEF CInv, Calls, SameCall
<1>4. NamedFiles' /\ FileSystemInv(fs')
  BY <1>1 DEF CInv, NamedFiles
<1>5. Calls'
  BY <1>1, <1>2, <1>3, <1>4, CallsKept DEF Begins
<1>6. QED
  BY <1>4, <1>5 DEF CInv

LEMMA HandlesKeep ==
    ASSUME CInv, NEW c \in Callers, DropFile(c) \/ DropDirectory(c) \/ \E u \in Callers : CloneFile(c, u)
    PROVE  CInv'
<1>1. fs' = fs /\ call' = call
  BY DEF DropFile, DropDirectory, CloneFile
<1>2. \/ \E u \in Callers : \E y : /\ call[u] = None /\ file' = [file EXCEPT ![u] = y] /\ dir' = dir
                                   /\ (y = None \/ GoodFile(y))
      \/ file' = file /\ dir' = [dir EXCEPT ![c] = None]
  BY DEF DropFile, DropDirectory, CloneFile, CInv, NamedFiles
<1>3. NamedFiles'
  BY <1>2 DEF CInv, NamedFiles
<1>4. Calls'
  <2>1. ASSUME NEW u \in Callers, NEW y, call[u] = None, file' = [file EXCEPT ![u] = y], dir' = dir
        PROVE  Calls'
    BY <1>1, <2>1 DEF CInv, Calls, NamedFiles
  <2>2. ASSUME file' = file, dir' = [dir EXCEPT ![c] = None] PROVE Calls'
    BY <1>1, <2>2 DEF CInv, Calls
  <2>3. QED
    BY <1>2, <2>1, <2>2
<1>5. QED
  BY <1>1, <1>3, <1>4 DEF CInv

LEMMA OutsiderKeeps == ASSUME CInv, NEW p \in Paths, Outsider(p) PROVE CInv'
<1>1. FileSystemInv(fs') /\ file' = file /\ dir' = dir
  BY OutsiderIs DEF Outsider
<1>2. DOMAIN call' = Callers /\ \A u \in Callers : SameCall(call'[u], call[u])
  BY OutsiderCalls
<1>3. NamedFiles'
  BY <1>1 DEF CInv, NamedFiles
<1>4. Calls'
  BY <1>1, <1>2 DEF CInv, Calls, SameCall
<1>5. QED
  BY <1>1, <1>3, <1>4 DEF CInv

LEMMA StepCInv == ASSUME CInv, [Next]_vars PROVE CInv'
<1>1. Kinds
  BY StepKinds
<1>2. ASSUME UNCHANGED <<fs, file, dir, call>> PROVE CInv'
  <2>1. FileSystemInv(fs)' /\ NamedFiles'
    BY <1>2 DEF CInv, NamedFiles
  <2>2. Calls'
    BY <1>2, Zenon DEF CInv, Calls
  <2>3. QED
    BY <2>1, <2>2 DEF CInv
<1>3. ASSUME NEW c \in Callers, Iter(c) \/ NextEntry(c) \/ DropStream(c) PROVE CInv'
  BY <1>2, <1>3, Zenon DEF Iter, NextEntry, DropStream
<1>4. ASSUME NEW d, Close(d) PROVE CInv'
  BY <1>2, <1>4 DEF Close
<1>5. ASSUME UNCHANGED <<fs, Handles, stream, call, astray>> PROVE CInv'
  BY <1>2, <1>5 DEF Handles
<1>6. QED
  BY <1>1, <1>3, <1>4, <1>5, GoesOnKeeps, EndsOpenKeeps, OpensForNobodyKeeps, EndsRenamedKeeps,
     BeginsKeeps, HandlesKeep, OutsiderKeeps, ZenonT(30) DEF Kinds

LEMMA InitCInv == ASSUME Init PROVE CInv
<1>1. FileSystemInv(fs)
  <2>1. PICK e : e = [type |-> "DIRECTORY", perm |-> {"read", "write", "execute"}, len |-> 0]
    OBVIOUS
  <2>2. PICK t : t = [p \in {<<>>} |-> Cwd]
    OBVIOUS
  <2>3. PICK s : s = <<e>>
    OBVIOUS
  <2>4. fs = [tree |-> t, inodes |-> s]
    BY <2>1, <2>2, <2>3 DEF Init
  <2>5. DOMAIN fs = {"tree", "inodes"} /\ fs.tree = t /\ fs.inodes = s
    BY <2>4
  <2>6. IsSequence(s) /\ s # <<>>
    <3>1. <<e>> \in Seq({e})
      OBVIOUS
    <3>2. Len(<<e>>) = 1
      OBVIOUS
    <3>3. Len(<<>>) = 0
      OBVIOUS
    <3>4. s # <<>>
      BY <2>3, <3>2, <3>3
    <3>5. QED
      BY <2>3, <3>1, <3>4 DEF IsSequence
  <2>7. DOMAIN t = {<<>>} /\ \A p \in DOMAIN t : t[p] = Cwd
    BY <2>2
  <2>8. <<>> \in Seq(Names) /\ Cwd \in Nat
    BY DEF Cwd
  <2>9. QED
    BY <2>5, <2>6, <2>7, <2>8 DEF FileSystemInv
<1>2. QED
  BY <1>1 DEF Init, CInv, Calls, NamedFiles

-----------------------------------------------------------------------------
(* Streams and the changes of the tree they are told of. *)
StreamFields == {"d", "filled", "buf", "told", "ended", "late", "stayed"}

Streams ==
    /\ DOMAIN stream = Callers
    /\ \A c \in Callers : stream[c] # None => DOMAIN stream[c] = StreamFields /\ stream[c].d \in 1 .. Len(desc)

(* The same stream, but for the entries that have gone. *)
StreamStays(t, s) ==
    /\ s = None => t = None
    /\ s # None =>
         /\ DOMAIN t = StreamFields
         /\ t.d = s.d /\ t.filled = s.filled /\ t.buf = s.buf /\ t.told = s.told
         /\ t.ended = s.ended /\ t.late = s.late
         /\ \/ fs' = fs /\ t.stayed = s.stayed
            \/ t.stayed = s.stayed \cap Entries(fs', PlaceOf(fs', desc[s.d].ino))

StreamsStay == DOMAIN stream' = Callers /\ \A c \in Callers : StreamStays(stream'[c], stream[c])

LEMMA NoneIsNoStream == ASSUME NEW x, DOMAIN x = StreamFields PROVE x # None
  BY DEF StreamFields, None

LEMMA StayedIs ==
    ASSUME NEW s, s # None, DOMAIN s = StreamFields, NEW t, t = Stayed(s)
    PROVE  StreamStays(t, s)
<1>1. PICK e : e = Entries(fs', PlaceOf(fs', desc[s.d].ino))
  OBVIOUS
<1>2. t = [s EXCEPT !.stayed = @ \cap e]
  BY <1>1 DEF Stayed
<1>3. /\ DOMAIN t = StreamFields /\ t.stayed = s.stayed \cap e
      /\ t.d = s.d /\ t.filled = s.filled /\ t.buf = s.buf /\ t.told = s.told
      /\ t.ended = s.ended /\ t.late = s.late
  BY <1>2 DEF StreamFields
<1>4. QED
  BY <1>1, <1>3 DEF StreamStays

LEMMA SettleStreams ==
    ASSUME Streams, NEW c \in Callers, NEW x, NEW renamed, Settle(c, x, renamed)
    PROVE  StreamsStay
<1>1. stream' = [u \in Callers |-> IF stream[u] # None /\ fs' # fs THEN Stayed(stream[u]) ELSE stream[u]]
  BY DEF Settle
<1>2. ASSUME NEW u \in Callers PROVE StreamStays(stream'[u], stream[u])
  <2>1. PICK t : t = Stayed(stream[u])
    OBVIOUS
  <2>2. stream'[u] = IF stream[u] # None /\ fs' # fs THEN t ELSE stream[u]
    BY <1>1, <2>1
  <2>3. stream[u] # None => StreamStays(t, stream[u])
    BY <2>1, StayedIs DEF Streams
  <2>4. QED
    BY <2>2, <2>3 DEF StreamStays, Streams
<1>3. QED
  BY <1>1, <1>2 DEF StreamsStay

LEMMA OutsiderStreams == ASSUME Streams, NEW p, Outsider(p) PROVE StreamsStay
<1>1. stream' = [u \in Callers |-> IF stream[u] # None THEN Stayed(stream[u]) ELSE None]
  BY DEF Outsider
<1>2. ASSUME NEW u \in Callers PROVE StreamStays(stream'[u], stream[u])
  <2>1. PICK t : t = Stayed(stream[u])
    OBVIOUS
  <2>2. stream'[u] = IF stream[u] # None THEN t ELSE None
    BY <1>1, <2>1
  <2>3. stream[u] # None => StreamStays(t, stream[u])
    BY <2>1, StayedIs DEF Streams
  <2>4. QED
    BY <2>2, <2>3 DEF StreamStays
<1>3. QED
  BY <1>1, <1>2 DEF StreamsStay

LEMMA QuietStreams == ASSUME Streams, stream' = stream, fs' = fs PROVE StreamsStay
  BY DEF Streams, StreamsStay, StreamStays

-----------------------------------------------------------------------------
(* Who owns a descriptor. *)
DescFields == {"ino", "access", "read", "fds"}

Descriptions == IsSequence(desc) /\ \A d \in 1 .. Len(desc) : DOMAIN desc[d] = DescFields

(* A description that a handle holds is open, is not being closed, and is  *)
(* not also another kind of handle's or another Directory's.               *)
Held ==
    /\ closing \subseteq 1 .. Len(desc) /\ dropped \subseteq 1 .. Len(desc)
    /\ \A c \in Callers : file[c] # None => file[c].d \in (1 .. Len(desc)) \ closing
    /\ \A c \in Callers : dir[c] # None => dir[c].d \in (1 .. Len(desc)) \ closing
    /\ \A c, u \in Callers : file[c] # None /\ dir[u] # None => file[c].d # dir[u].d
    /\ \A c, u \in Callers : dir[c] # None /\ dir[u] # None /\ dir[c].d = dir[u].d => c = u

DInv == Descriptions /\ Streams /\ Held /\ DescriptorsAccounted

Holds(f, r, d) == \E c \in Callers : (f[c] # None /\ f[c].d = d) \/ (r[c] # None /\ r[c].d = d)
Readers(s, d) == {c \in Callers : s[c] # None /\ s[c].d = d}
One(p) == IF p THEN 1 ELSE 0
Count(f, r, s, closes, drops, d) ==
    One(Holds(f, r, d)) + Cardinality(Readers(s, d)) + One(d \in closes) + One(d \in drops)

LEMMA CardinalityOfOne == ASSUME NEW d, NEW S PROVE Cardinality({d} \cap S) = One(d \in S)
<1>1. CASE d \in S
  <2>1. {d} \cap S = {d}
    BY <1>1
  <2>2. QED
    BY <1>1, <2>1, FS_Singleton DEF One
<1>2. CASE d \notin S
  <2>1. {d} \cap S = {}
    BY <1>2
  <2>2. QED
    BY <1>2, <2>1, FS_EmptySet DEF One
<1>3. QED
  BY <1>1, <1>2

LEMMA OwnersAre == ASSUME NEW d PROVE Owners(d) = Count(file, dir, stream, closing, dropped, d)
<1>1. (\E c \in Callers : d \in {h.d : h \in {file[c], dir[c]} \ {None}}) <=> Holds(file, dir, d)
  BY DEF Holds
<1>2. Cardinality({d} \cap closing) = One(d \in closing) /\ Cardinality({d} \cap dropped) = One(d \in dropped)
  BY CardinalityOfOne
<1>3. QED
  BY <1>1, <1>2 DEF Owners, Count, Readers, One

LEMMA OwnersAfter == ASSUME NEW d PROVE Owners(d)' = Count(file', dir', stream', closing', dropped', d)
<1>1. (\E c \in Callers : d \in {h.d : h \in {file'[c], dir'[c]} \ {None}}) <=> Holds(file', dir', d)
  BY DEF Holds
<1>2. Cardinality({d} \cap closing') = One(d \in closing') /\ Cardinality({d} \cap dropped') = One(d \in dropped')
  BY CardinalityOfOne
<1>3. QED
  BY <1>1, <1>2 DEF Owners, Count, Readers, One

LEMMA CountsBefore ==
    ASSUME DInv, NEW d \in 1 .. Len(desc)
    PROVE  desc[d].fds = Count(file, dir, stream, closing, dropped, d)
  BY OwnersAre DEF DInv, DescriptorsAccounted

LEMMA CountsAfter ==
    ASSUME \A d \in 1 .. Len(desc') : desc'[d].fds = Count(file', dir', stream', closing', dropped', d)
    PROVE  DescriptorsAccounted'
  BY OwnersAfter DEF DescriptorsAccounted

LEMMA ReadersAre == ASSUME NEW s, NEW d PROVE IsFiniteSet(Readers(s, d)) /\ Cardinality(Readers(s, d)) \in Nat
<1>1. IsFiniteSet(Callers) /\ Readers(s, d) \subseteq Callers
  BY FilesAssumption DEF Readers
<1>2. QED
  BY <1>1, FS_Subset, FS_CardinalityType

LEMMA FdsAreNumbers == ASSUME DInv, NEW d \in 1 .. Len(desc) PROVE desc[d].fds \in Nat
<1>1. desc[d].fds = Count(file, dir, stream, closing, dropped, d)
  BY CountsBefore
<1>2. Cardinality(Readers(stream, d)) \in Nat
  BY ReadersAre
<1>3. QED
  BY <1>1, <1>2 DEF Count, One

(* The streams read the same descriptions. *)
LEMMA ReadersStay ==
    ASSUME Streams, StreamsStay, NEW d
    PROVE  Readers(stream', d) = Readers(stream, d)
<1>1. ASSUME NEW c \in Callers
      PROVE  (stream'[c] # None <=> stream[c] # None) /\ (stream[c] # None => stream'[c].d = stream[c].d)
  BY NoneIsNoStream DEF StreamsStay, StreamStays
<1>2. QED
  BY <1>1 DEF Readers

LEMMA StreamsKept ==
    ASSUME Streams, StreamsStay, Len(desc) \in Nat, Len(desc') \in Nat, Len(desc) <= Len(desc')
    PROVE  Streams'
  BY DEF Streams, StreamsStay, StreamStays

(* One description changes. *)
LEMMA DescriptionChanges ==
    ASSUME Descriptions, NEW d \in 1 .. Len(desc), NEW e, DOMAIN e = DescFields, desc' = [desc EXCEPT ![d] = e]
    PROVE  /\ Descriptions' /\ Len(desc') = Len(desc) /\ desc'[d] = e
           /\ \A i \in 1 .. Len(desc) : i # d => desc'[i] = desc[i]
<1>1. IsSequence(desc') /\ Len(desc') = Len(desc)
  <2>1. PICK t : t = desc'
    OBVIOUS
  <2>2. IsSequence(desc) /\ t = [desc EXCEPT ![d] = e]
    BY <2>1 DEF Descriptions
  <2>3. IsSequence(t)
    BY <2>2, ExceptIs
  <2>4. Len(t) = Len(desc)
    BY <2>2, ExceptIs
  <2>5. QED
    BY <2>1, <2>3, <2>4
<1>2. DOMAIN desc = 1 .. Len(desc)
  BY LengthOf DEF Descriptions
<1>3. desc'[d] = e /\ \A i \in 1 .. Len(desc) : i # d => desc'[i] = desc[i]
  BY <1>2
<1>4. QED
  BY <1>1, <1>3 DEF Descriptions

LEMMA FdsChange ==
    ASSUME Descriptions, NEW d \in 1 .. Len(desc), NEW n, desc' = [desc EXCEPT ![d].fds = n]
    PROVE  /\ Descriptions' /\ Len(desc') = Len(desc) /\ desc'[d].fds = n /\ desc'[d].ino = desc[d].ino
           /\ desc'[d].read = desc[d].read
           /\ \A i \in 1 .. Len(desc) : i # d => desc'[i] = desc[i]
<1>1. PICK e : e = [desc[d] EXCEPT !.fds = n]
  OBVIOUS
<1>2. DOMAIN e = DescFields /\ e.fds = n /\ e.ino = desc[d].ino /\ e.read = desc[d].read
  BY <1>1 DEF Descriptions, DescFields
<1>3. desc' = [desc EXCEPT ![d] = e]
  BY <1>1
<1>4. QED
  BY <1>2, <1>3, DescriptionChanges, ZenonT(60)

(* Nothing is opened or closed. *)
LEMMA SameCounts ==
    ASSUME DInv, StreamsStay, desc' = desc, closing' = closing, dropped' = dropped, Held',
           \A d \in 1 .. Len(desc) : Holds(file', dir', d) <=> Holds(file, dir, d)
    PROVE  DInv'
<1>1. Descriptions' /\ Streams' /\ Len(desc) \in Nat
  BY StreamsKept, LengthOf DEF DInv, Descriptions
<1>2. ASSUME NEW d \in 1 .. Len(desc')
      PROVE  desc'[d].fds = Count(file', dir', stream', closing', dropped', d)
  <2>1. desc[d].fds = Count(file, dir, stream, closing, dropped, d)
    BY CountsBefore
  <2>2. Readers(stream', d) = Readers(stream, d)
    BY ReadersStay DEF DInv
  <2>3. QED
    BY <2>1, <2>2 DEF Count, One
<1>3. QED
  BY <1>1, <1>2, CountsAfter DEF DInv

LEMMA HandlesAlike ==
    ASSUME DInv, StreamsStay, desc' = desc, closing' = closing, dropped' = dropped, dir' = dir,
           \A c \in Callers : /\ file'[c] # None <=> file[c] # None
                              /\ file[c] # None => file'[c].d = file[c].d
    PROVE  DInv'
<1>1. Held'
  BY DEF DInv, Held
<1>2. \A d \in 1 .. Len(desc) : Holds(file', dir', d) <=> Holds(file, dir, d)
  BY DEF Holds
<1>3. QED
  BY <1>1, <1>2, SameCounts

(* A description is opened. *)
LEMMA AppendCounts ==
    ASSUME DInv, StreamsStay, NEW e, DOMAIN e = DescFields, e.fds = 1, desc' = Append(desc, e),
           closing' = closing, dropped \subseteq dropped', dropped' \subseteq dropped \cup {Len(desc) + 1}, Held',
           \A d \in 1 .. Len(desc) : Holds(file', dir', d) <=> Holds(file, dir, d),
           Holds(file', dir', Len(desc) + 1) <=> ~ (Len(desc) + 1 \in dropped')
    PROVE  DInv'
<1>1. PICK n : n = Len(desc) + 1
  OBVIOUS
<1>2. Len(desc) \in Nat /\ n \in Nat /\ ~ n \in 1 .. Len(desc)
  BY <1>1, LengthOf DEF DInv, Descriptions
<1>3. /\ IsSequence(desc') /\ Len(desc') = n /\ desc'[n] = e
      /\ \A i \in 1 .. Len(desc) : desc'[i] = desc[i]
  <2>1. IsSequence(desc)
    BY DEF DInv, Descriptions
  <2>2. PICK t : t = desc'
    OBVIOUS
  <2>3. t = Append(desc, e)
    BY <2>2
  <2>4. IsSequence(t)
    BY <2>1, <2>3, AppendIs
  <2>5. Len(t) = Len(desc) + 1
    BY <2>1, <2>3, AppendIs
  <2>6. t[Len(desc) + 1] = e
    BY <2>1, <2>3, AppendIs
  <2>7. \A i \in 1 .. Len(desc) : t[i] = desc[i]
    BY <2>1, <2>3, AppendIs
  <2>8. QED
    BY <1>1, <2>2, <2>4, <2>5, <2>6, <2>7
<1>4. \A d \in 1 .. n : d = n \/ d \in 1 .. Len(desc)
  BY <1>1, <1>2
<1>5. Descriptions'
  BY <1>3, <1>4 DEF DInv, Descriptions
<1>6. Streams'
  BY <1>1, <1>2, <1>3, StreamsKept DEF DInv
<1>7. ASSUME NEW d \in 1 .. Len(desc')
      PROVE  desc'[d].fds = Count(file', dir', stream', closing', dropped', d)
  <2>1. Readers(stream', d) = Readers(stream, d)
    BY ReadersStay DEF DInv
  <2>2. CASE d \in 1 .. Len(desc)
    <3>1. desc[d].fds = Count(file, dir, stream, closing, dropped, d)
      BY <2>2, CountsBefore
    <3>2. d # n /\ (d \in dropped' <=> d \in dropped)
      BY <1>1, <1>2, <2>2
    <3>3. QED
      BY <1>3, <2>1, <2>2, <3>1, <3>2 DEF Count, One
  <2>3. CASE d = n
    <3>1. Readers(stream, d) = {}
      BY <1>2, <2>3 DEF DInv, Streams, Readers
    <3>2. d \notin closing'
      BY <1>2, <2>3 DEF DInv, Held
    <3>3. Cardinality(Readers(stream', d)) = 0
      BY <2>1, <3>1, FS_EmptySet
    <3>4. One(Holds(file', dir', d)) + One(d \in dropped') = 1
      BY <1>1, <2>3 DEF One
    <3>5. desc'[d].fds = 1
      BY <1>3, <2>3
    <3>6. One(d \in closing') = 0
      BY <3>2 DEF One
    <3>7. Count(file', dir', stream', closing', dropped', d) = 1
      BY <3>3, <3>4, <3>6 DEF Count, One
    <3>8. QED
      BY <3>5, <3>7
  <2>4. QED
    BY <1>3, <1>4, <2>2, <2>3
<1>8. QED
  BY <1>5, <1>6, <1>7, CountsAfter DEF DInv

LEMMA NoneIsNoDirectory == ASSUME NEW x, DOMAIN x = {"d"} PROVE x # None
  BY DEF None

LEMMA NewIs ==
    ASSUME NEW f, NEW x, NEW how, NEW e, e = NewDescription(f, x, how)
    PROVE  DOMAIN e = DescFields /\ e.fds = 1 /\ e.ino = f.tree[Place(f, x)]
  BY DEF NewDescription, DescFields

LEMMA OpenedCounts ==
    ASSUME CInv, DInv, NEW c \in Callers, NEW x, NEW how, EndsOpen(c, x, how)
    PROVE  DInv'
<1>1. PICK e : e = NewDescription(fs', x, how)
  OBVIOUS
<1>2. DOMAIN e = DescFields /\ e.fds = 1 /\ desc' = Append(desc, e)
  BY <1>1, NewIs DEF EndsOpen, Opened
<1>3. StreamsStay /\ closing' = closing /\ dropped' = dropped
  BY SettleStreams DEF EndsOpen, Opened, DInv
<1>4. PICK n : n = Len(desc) + 1
  OBVIOUS
<1>5. /\ Len(desc) \in Nat /\ n \in Nat /\ ~ n \in 1 .. Len(desc) /\ n \in 1 .. n
      /\ \A d \in 1 .. Len(desc) : d \in 1 .. n /\ d # n
  BY <1>4, LengthOf DEF DInv, Descriptions
<1>6. Len(desc') = n
  <2>1. PICK t : t = desc'
    OBVIOUS
  <2>2. IsSequence(desc) /\ t = Append(desc, e)
    BY <1>2, <2>1 DEF DInv, Descriptions
  <2>3. Len(t) = Len(desc) + 1
    BY <2>2, AppendIs
  <2>4. QED
    BY <1>4, <2>1, <2>3
<1>7. Held
  BY DEF DInv
<1>8. DOMAIN file = Callers /\ DOMAIN dir = Callers
  BY DEF CInv, NamedFiles
<1>9. CASE x.op = "file"
  <2>1. PICK y : y = [d |-> n, path |-> x.path, rel |-> x.base # Cwd]
    OBVIOUS
  <2>2. file' = [file EXCEPT ![c] = y] /\ dir' = dir
    BY <1>4, <1>9, <2>1 DEF EndsOpen, Opened
  <2>3. y # None /\ y.d = n
    BY <2>1, NoneIsNoFile DEF FileFields
  <2>4. file[c] = None
    BY <1>9 DEF EndsOpen, CInv, Calls
  <2>5. /\ file'[c] # None /\ file'[c].d = n
        /\ \A u \in Callers : u # c => file'[u] = file[u]
    BY <1>8, <2>2, <2>3
  <2>6. Held'
    BY <1>3, <1>5, <1>6, <1>7, <2>2, <2>5 DEF Held
  <2>7. \A d \in 1 .. Len(desc) : Holds(file', dir', d) <=> Holds(file, dir, d)
    BY <1>5, <2>2, <2>4, <2>5 DEF Holds
  <2>8. Holds(file', dir', n) /\ ~ n \in dropped'
    BY <1>3, <1>5, <1>7, <2>5 DEF Holds, Held
  <2>9. QED
    BY <1>2, <1>3, <1>4, <2>6, <2>7, <2>8, AppendCounts
<1>10. CASE x.op # "file"
  <2>1. PICK y : y = [d |-> n]
    OBVIOUS
  <2>2. dir' = [dir EXCEPT ![c] = y] /\ file' = file
    BY <1>4, <1>10, <2>1 DEF EndsOpen, Opened
  <2>3. y # None /\ y.d = n
    BY <2>1, NoneIsNoDirectory
  <2>4. dir[c] = None
    BY <1>10 DEF EndsOpen, CInv, Calls
  <2>5. /\ dir'[c] # None /\ dir'[c].d = n
        /\ \A u \in Callers : u # c => dir'[u] = dir[u]
    BY <1>8, <2>2, <2>3
  <2>6. Held'
    BY <1>3, <1>5, <1>6, <1>7, <2>2, <2>5 DEF Held
  <2>7. \A d \in 1 .. Len(desc) : Holds(file', dir', d) <=> Holds(file, dir, d)
    BY <1>5, <2>2, <2>4, <2>5 DEF Holds
  <2>8. Holds(file', dir', n) /\ ~ n \in dropped'
    BY <1>3, <1>5, <1>7, <2>5 DEF Holds, Held
  <2>9. QED
    BY <1>2, <1>3, <1>4, <2>6, <2>7, <2>8, AppendCounts
<1>11. QED
  BY <1>9, <1>10

LEMMA NobodysCounts ==
    ASSUME CInv, DInv, NEW c \in Callers, NEW x, NEW how, OpensForNobody(c, x, how)
    PROVE  DInv'
<1>1. PICK e : e = NewDescription(fs', x, how)
  OBVIOUS
<1>2. DOMAIN e = DescFields /\ e.fds = 1 /\ desc' = Append(desc, e)
  BY <1>1, NewIs DEF OpensForNobody
<1>3. PICK n : n = Len(desc) + 1
  OBVIOUS
<1>4. /\ StreamsStay /\ closing' = closing /\ dropped' = dropped \cup {n}
      /\ file' = file /\ dir' = dir
  BY <1>3, SettleStreams DEF OpensForNobody, DInv
<1>5. /\ Len(desc) \in Nat /\ n \in Nat /\ ~ n \in 1 .. Len(desc) /\ n \in 1 .. n
      /\ \A d \in 1 .. Len(desc) : d \in 1 .. n /\ d # n
  BY <1>3, LengthOf DEF DInv, Descriptions
<1>6. Len(desc') = n
  <2>1. PICK t : t = desc'
    OBVIOUS
  <2>2. IsSequence(desc) /\ t = Append(desc, e)
    BY <1>2, <2>1 DEF DInv, Descriptions
  <2>3. Len(t) = Len(desc) + 1
    BY <2>2, AppendIs
  <2>4. QED
    BY <1>3, <2>1, <2>3
<1>7. Held
  BY DEF DInv
<1>8. Held'
  BY <1>4, <1>5, <1>6, <1>7 DEF Held
<1>9. ~ Holds(file', dir', n)
  BY <1>4, <1>5, <1>7 DEF Holds, Held
<1>10. QED
  BY <1>2, <1>3, <1>4, <1>8, <1>9, AppendCounts

(* A handle is dropped: its description stays with a clone, or is closed,  *)
(* at once or by a worker.                                                 *)
LEMMA ReleasedCounts ==
    ASSUME DInv, StreamsStay, dropped' = dropped,
           NEW d \in 1 .. Len(desc), d \notin closing, Holds(file, dir, d), Released(d),
           NEW p, p = (\E u \in Callers : file'[u] # None /\ file'[u].d = d),
           p <=> Holds(file', dir', d),
           \A i \in 1 .. Len(desc) : i # d => (Holds(file', dir', i) <=> Holds(file, dir, i)),
           \A u \in Callers : file'[u] # None => file'[u] = file[u],
           \A u \in Callers : dir'[u] # None => dir'[u] = dir[u]
    PROVE  DInv'
<1>1. Held /\ Descriptions /\ Streams
  BY DEF DInv
<1>2. Len(desc) \in Nat
  BY <1>1, LengthOf DEF Descriptions
<1>3. \A i : Readers(stream', i) = Readers(stream, i)
  BY <1>1, ReadersStay
<1>4. desc[d].fds = 1 + Cardinality(Readers(stream, d)) + 0 + One(d \in dropped)
  BY CountsBefore DEF Count, One
<1>5. /\ p /\ desc' = desc /\ closing' = closing
      \/ /\ ~ p /\ closing' = closing \cup {d} /\ desc' = desc
      \/ /\ ~ p /\ desc' = [desc EXCEPT ![d].fds = @ - 1] /\ closing' = closing
  BY DEF Released
<1>6. CASE p /\ desc' = desc /\ closing' = closing
  <2>1. Held'
    BY <1>1, <1>6 DEF Held
  <2>2. \A i \in 1 .. Len(desc) : Holds(file', dir', i) <=> Holds(file, dir, i)
    BY <1>6
  <2>3. QED
    BY <1>6, <2>1, <2>2, SameCounts
<1>7. ~ p => /\ \A u \in Callers : file'[u] # None => file'[u].d # d
             /\ \A u \in Callers : dir'[u] # None => dir'[u].d # d
  BY DEF Holds
<1>8. CASE ~ p /\ closing' = closing \cup {d} /\ desc' = desc
  <2>1. Held'
    BY <1>1, <1>7, <1>8 DEF Held
  <2>2. Descriptions' /\ Streams'
    BY <1>1, <1>2, <1>8, StreamsKept DEF Descriptions
  <2>3. ASSUME NEW i \in 1 .. Len(desc')
        PROVE  desc'[i].fds = Count(file', dir', stream', closing', dropped', i)
    <3>1. CASE i = d
      <4>1. Cardinality(Readers(stream, d)) \in Nat /\ One(d \in dropped) \in Nat
        BY ReadersAre DEF One
      <4>2. Holds(file', dir', i) = FALSE /\ (i \in closing') = TRUE
        BY <1>8, <3>1 DEF Holds
      <4>3. One(Holds(file', dir', i)) = 0 /\ One(i \in closing') = 1
        BY <4>2 DEF One
      <4>4. QED
        BY <1>3, <1>4, <1>8, <3>1, <4>1, <4>3 DEF Count
    <3>2. CASE i # d
      <4>1. desc[i].fds = Count(file, dir, stream, closing, dropped, i)
        BY <1>8, CountsBefore
      <4>2. QED
        BY <1>3, <1>8, <3>2, <4>1 DEF Count, One
    <3>3. QED
      BY <3>1, <3>2
  <2>4. QED
    BY <2>1, <2>2, <2>3, CountsAfter DEF DInv
<1>9. CASE ~ p /\ desc' = [desc EXCEPT ![d].fds = @ - 1] /\ closing' = closing
  <2>1. /\ Descriptions' /\ Len(desc') = Len(desc) /\ desc'[d].fds = desc[d].fds - 1
        /\ \A i \in 1 .. Len(desc) : i # d => desc'[i] = desc[i]
    BY <1>1, <1>9, FdsChange
  <2>2. Held'
    BY <1>1, <1>9, <2>1, SMTT(30) DEF Held
  <2>3. Streams'
    BY <1>1, <1>2, <2>1, StreamsKept
  <2>4. ASSUME NEW i \in 1 .. Len(desc')
        PROVE  desc'[i].fds = Count(file', dir', stream', closing', dropped', i)
    <3>1. CASE i = d
      <4>1. Cardinality(Readers(stream, d)) \in Nat /\ One(d \in dropped) \in Nat
        BY ReadersAre DEF One
      <4>2. One(Holds(file', dir', i)) = 0 /\ One(i \in closing') = 0
        BY <1>9, <3>1 DEF Holds, One
      <4>3. QED
        BY <1>3, <1>4, <1>9, <2>1, <3>1, <4>1, <4>2 DEF Count
    <3>2. CASE i # d
      <4>1. desc[i].fds = Count(file, dir, stream, closing, dropped, i)
        BY <2>1, CountsBefore
      <4>2. QED
        BY <1>3, <1>9, <2>1, <3>2, <4>1 DEF Count, One
    <3>3. QED
      BY <3>1, <3>2
  <2>5. QED
    BY <2>1, <2>2, <2>3, <2>4, CountsAfter DEF DInv
<1>10. QED
  BY <1>5, <1>6, <1>8, <1>9

LEMMA DropFileCounts == ASSUME CInv, DInv, NEW c \in Callers, DropFile(c) PROVE DInv'
<1>1. PICK d : d = file[c].d
  OBVIOUS
<1>2. /\ file[c] # None /\ file' = [file EXCEPT ![c] = None] /\ Released(d)
      /\ fs' = fs /\ dir' = dir /\ stream' = stream /\ dropped' = dropped
  BY <1>1 DEF DropFile
<1>3. Held /\ StreamsStay /\ DOMAIN file = Callers
  BY <1>2, QuietStreams DEF DInv, CInv, NamedFiles
<1>4. d \in 1 .. Len(desc) /\ d \notin closing /\ Holds(file, dir, d)
  BY <1>1, <1>2, <1>3 DEF Held, Holds
<1>5. file'[c] = None /\ \A u \in Callers : u # c => file'[u] = file[u]
  BY <1>2, <1>3
<1>6. \A u \in Callers : dir'[u] # None => dir'[u].d # d
  BY <1>1, <1>2, <1>3 DEF Held
<1>7. PICK p : p = (\E u \in Callers : file'[u] # None /\ file'[u].d = d)
  OBVIOUS
<1>8. p <=> Holds(file', dir', d)
  BY <1>6, <1>7 DEF Holds
<1>9. \A i \in 1 .. Len(desc) : i # d => (Holds(file', dir', i) <=> Holds(file, dir, i))
  BY <1>1, <1>2, <1>5 DEF Holds
<1>10. QED
  BY <1>2, <1>3, <1>4, <1>5, <1>7, <1>8, <1>9, ReleasedCounts

LEMMA DropDirectoryCounts == ASSUME CInv, DInv, NEW c \in Callers, DropDirectory(c) PROVE DInv'
<1>1. PICK d : d = dir[c].d
  OBVIOUS
<1>2. /\ dir[c] # None /\ dir' = [dir EXCEPT ![c] = None] /\ Released(d)
      /\ fs' = fs /\ file' = file /\ stream' = stream /\ dropped' = dropped
  BY <1>1 DEF DropDirectory
<1>3. Held /\ StreamsStay /\ DOMAIN dir = Callers
  BY <1>2, QuietStreams DEF DInv, CInv, NamedFiles
<1>4. d \in 1 .. Len(desc) /\ d \notin closing /\ Holds(file, dir, d)
  BY <1>1, <1>2, <1>3 DEF Held, Holds
<1>5. dir'[c] = None /\ \A u \in Callers : u # c => dir'[u] = dir[u]
  BY <1>2, <1>3
<1>6. /\ \A u \in Callers : dir'[u] # None => dir'[u].d # d
      /\ \A u \in Callers : file'[u] # None => file'[u].d # d
  BY <1>1, <1>2, <1>3, <1>5 DEF Held
<1>7. PICK p : p = (\E u \in Callers : file'[u] # None /\ file'[u].d = d)
  OBVIOUS
<1>8. p <=> Holds(file', dir', d)
  BY <1>6, <1>7 DEF Holds
<1>9. \A i \in 1 .. Len(desc) : i # d => (Holds(file', dir', i) <=> Holds(file, dir, i))
  BY <1>1, <1>2, <1>5 DEF Holds
<1>10. QED
  BY <1>2, <1>3, <1>4, <1>5, <1>7, <1>8, <1>9, ReleasedCounts

LEMMA CloneFileCounts ==
    ASSUME CInv, DInv, NEW c \in Callers, NEW u \in Callers, CloneFile(c, u)
    PROVE  DInv'
<1>1. /\ file[c] # None /\ file[u] = None /\ file' = [file EXCEPT ![u] = file[c]]
      /\ desc' = desc /\ closing' = closing /\ dropped' = dropped
      /\ fs' = fs /\ dir' = dir /\ stream' = stream
  BY DEF CloneFile
<1>2. Held /\ StreamsStay /\ DOMAIN file = Callers
  BY <1>1, QuietStreams DEF DInv, CInv, NamedFiles
<1>3. file'[u] = file[c] /\ \A v \in Callers : v # u => file'[v] = file[v]
  BY <1>1, <1>2
<1>4. Held'
  BY <1>1, <1>2, <1>3 DEF Held
<1>5. \A d \in 1 .. Len(desc) : Holds(file', dir', d) <=> Holds(file, dir, d)
  BY <1>1, <1>3 DEF Holds
<1>6. QED
  BY <1>1, <1>2, <1>4, <1>5, SameCounts

LEMMA CloseCounts == ASSUME CInv, DInv, NEW d \in closing, Close(d) PROVE DInv'
<1>1. /\ closing' = closing \ {d} /\ desc' = [desc EXCEPT ![d].fds = @ - 1]
      /\ fs' = fs /\ file' = file /\ dir' = dir /\ stream' = stream /\ dropped' = dropped
  BY DEF Close
<1>2. Held /\ Descriptions /\ Streams /\ StreamsStay /\ d \in 1 .. Len(desc)
  BY <1>1, QuietStreams DEF DInv, Held
<1>3. Len(desc) \in Nat
  BY <1>2, LengthOf DEF Descriptions
<1>4. /\ Descriptions' /\ Len(desc') = Len(desc) /\ desc'[d].fds = desc[d].fds - 1
      /\ \A i \in 1 .. Len(desc) : i # d => desc'[i] = desc[i]
  BY <1>1, <1>2, FdsChange
<1>5. Held'
  BY <1>1, <1>2, <1>4 DEF Held
<1>6. Streams'
  BY <1>2, <1>3, <1>4, StreamsKept
<1>7. ASSUME NEW i \in 1 .. Len(desc')
      PROVE  desc'[i].fds = Count(file', dir', stream', closing', dropped', i)
  <2>1. desc[i].fds = Count(file, dir, stream, closing, dropped, i)
    BY <1>4, CountsBefore
  <2>2. CASE i = d
    <3>1. One(i \in closing) = 1 /\ One(i \in closing') = 0
      BY <1>1, <2>2 DEF One
    <3>2. /\ Cardinality(Readers(stream, i)) \in Nat
          /\ One(i \in dropped) \in Nat /\ One(Holds(file, dir, i)) \in Nat
      BY ReadersAre DEF One
    <3>3. QED
      BY <1>1, <1>4, <2>1, <2>2, <3>1, <3>2 DEF Count
  <2>3. CASE i # d
    BY <1>1, <1>4, <2>1, <2>3 DEF Count, One
  <2>4. QED
    BY <2>2, <2>3
<1>8. QED
  BY <1>4, <1>5, <1>6, <1>7, CountsAfter DEF DInv

(* What the streams read changes by c at most. *)
LEMMA StreamCounts ==
    ASSUME DInv, NEW c \in Callers, NEW d \in 1 .. Len(desc), NEW s,
           stream' = [stream EXCEPT ![c] = s], s # None => DOMAIN s = StreamFields /\ s.d = d,
           stream[c] # None => stream[c].d = d,
           file' = file, dir' = dir, closing' = closing, dropped' = dropped,
           Descriptions', Len(desc') = Len(desc),
           \A i \in 1 .. Len(desc) : i # d => desc'[i].fds = desc[i].fds,
           desc'[d].fds = desc[d].fds + One(s # None) - One(stream[c] # None)
    PROVE  DInv'
<1>1. Held /\ Streams
  BY DEF DInv
<1>2. Held' /\ Streams'
  BY <1>1 DEF Held, Streams
<1>3. stream'[c] = s /\ \A u \in Callers : u # c => stream'[u] = stream[u]
  BY <1>1 DEF Streams
<1>4. ASSUME NEW i \in 1 .. Len(desc')
      PROVE  desc'[i].fds = Count(file', dir', stream', closing', dropped', i)
  <2>1. desc[i].fds = Count(file, dir, stream, closing, dropped, i)
    BY CountsBefore
  <2>2. CASE i # d
    <3>1. Readers(stream', i) = Readers(stream, i)
      BY <1>3, <2>2 DEF Readers
    <3>2. QED
      BY <2>1, <2>2, <3>1 DEF Count
  <2>3. CASE i = d
    <3> DEFINE before == Readers(stream, d)
               after == Readers(stream', d)
    <3>1. IsFiniteSet(before) /\ Cardinality(before) \in Nat
      BY ReadersAre
    <3>2. /\ c \in before <=> stream[c] # None
          /\ c \in after <=> s # None
          /\ before \ {c} = after \ {c}
      BY <1>3 DEF Readers
    <3>3. Cardinality(after) = Cardinality(before) + One(s # None) - One(stream[c] # None)
      <4>1. CASE s # None /\ stream[c] = None
        <5>1. after = before \cup {c} /\ c \notin before
          BY <3>2, <4>1
        <5>2. Cardinality(after) = Cardinality(before) + 1
          BY <3>1, <5>1, FS_AddElement, ZenonT(60)
        <5>3. One(s # None) = 1 /\ One(stream[c] # None) = 0
          BY <4>1 DEF One
        <5>4. QED
          BY <3>1, <5>2, <5>3
      <4>2. CASE s = None /\ stream[c] # None
        <5>1. after = before \ {c} /\ c \in before
          BY <3>2, <4>2
        <5>2. Cardinality(after) = Cardinality(before) - 1
          BY <3>1, <5>1, FS_RemoveElement, ZenonT(60)
        <5>3. One(s # None) = 0 /\ One(stream[c] # None) = 1
          BY <4>2 DEF One
        <5>4. QED
          BY <3>1, <5>2, <5>3
      <4>3. CASE s = None <=> stream[c] = None
        <5>1. after = before
          <6>1. c \in after <=> c \in before
            BY <3>2, <4>3
          <6>2. \A u : u \in after <=> u \in before
            BY <3>2, <6>1
          <6>3. QED
            BY <6>2
        <5>2. Cardinality(after) = Cardinality(before)
          BY <5>1
        <5>3. One(s # None) = One(stream[c] # None) /\ One(s # None) \in Nat
          BY <4>3 DEF One
        <5>4. QED
          BY <3>1, <5>2, <5>3
      <4>4. QED
        BY <4>1, <4>2, <4>3
    <3>4. /\ One(s # None) \in Nat /\ One(stream[c] # None) \in Nat /\ One(d \in closing) \in Nat
          /\ One(d \in dropped) \in Nat /\ One(Holds(file, dir, d)) \in Nat
      BY DEF One
    <3>5. QED
      BY <2>1, <2>3, <3>1, <3>3, <3>4, SMTT(30) DEF Count
  <2>4. QED
    BY <2>2, <2>3
<1>5. QED
  BY <1>2, <1>4, CountsAfter DEF DInv

LEMMA IterCounts == ASSUME CInv, DInv, NEW c \in Callers, Iter(c) PROVE DInv'
<1>1. PICK d : d = dir[c].d
  OBVIOUS
<1>2. PICK s : s = [d |-> d, filled |-> FALSE, buf |-> {}, told |-> {}, ended |-> FALSE,
                    late |-> FALSE, stayed |-> Entries(fs, PlaceOf(fs, desc[d].ino))]
  OBVIOUS
<1>3. /\ dir[c] # None /\ stream[c] = None
      /\ desc' = [desc EXCEPT ![d].fds = @ + 1] /\ stream' = [stream EXCEPT ![c] = s]
      /\ file' = file /\ dir' = dir /\ closing' = closing /\ dropped' = dropped
  BY <1>1, <1>2 DEF Iter, IsListable
<1>4. d \in 1 .. Len(desc)
  BY <1>1, <1>3 DEF DInv, Held
<1>5. DOMAIN s = StreamFields /\ s.d = d /\ s # None
  BY <1>2, NoneIsNoStream DEF StreamFields
<1>6. /\ Descriptions' /\ Len(desc') = Len(desc) /\ desc'[d].fds = desc[d].fds + 1
      /\ \A i \in 1 .. Len(desc) : i # d => desc'[i] = desc[i]
  BY <1>3, <1>4, FdsChange DEF DInv
<1>7. One(s # None) = 1 /\ One(stream[c] # None) = 0
  BY <1>3, <1>5 DEF One
<1>8. desc'[d].fds = desc[d].fds + One(s # None) - One(stream[c] # None)
  <2>1. desc[d].fds \in Nat
    BY <1>4, FdsAreNumbers
  <2>2. QED
    BY <1>6, <1>7, <2>1
<1>9. \A i \in 1 .. Len(desc) : i # d => desc'[i].fds = desc[i].fds
  BY <1>6
<1>10. QED
  BY <1>3, <1>4, <1>5, <1>6, <1>8, <1>9, StreamCounts

LEMMA DropStreamCounts == ASSUME CInv, DInv, NEW c \in Callers, DropStream(c) PROVE DInv'
<1>1. PICK d : d = stream[c].d
  OBVIOUS
<1>2. PICK s : s = None
  OBVIOUS
<1>3. /\ stream[c] # None
      /\ desc' = [desc EXCEPT ![d].fds = @ - 1] /\ stream' = [stream EXCEPT ![c] = s]
      /\ file' = file /\ dir' = dir /\ closing' = closing /\ dropped' = dropped
  BY <1>1, <1>2 DEF DropStream
<1>4. d \in 1 .. Len(desc)
  BY <1>1, <1>3 DEF DInv, Streams
<1>5. /\ Descriptions' /\ Len(desc') = Len(desc) /\ desc'[d].fds = desc[d].fds - 1
      /\ \A i \in 1 .. Len(desc) : i # d => desc'[i] = desc[i]
  BY <1>3, <1>4, FdsChange DEF DInv
<1>6. One(s # None) = 0 /\ One(stream[c] # None) = 1
  BY <1>2, <1>3 DEF One
<1>7. desc[d].fds \in Nat
  BY <1>4, FdsAreNumbers
<1>8. desc'[d].fds = desc[d].fds + One(s # None) - One(stream[c] # None)
  BY <1>5, <1>6, <1>7
<1>9. \A i \in 1 .. Len(desc) : i # d => desc'[i].fds = desc[i].fds
  BY <1>5
<1>10. QED
  BY <1>1, <1>2, <1>3, <1>4, <1>5, <1>8, <1>9, StreamCounts, ZenonT(60)

(* What a stream is once it has read its directory. *)
LEMMA FilledIs ==
    ASSUME NEW t, DOMAIN t = StreamFields, NEW s, s = Filled(t)
    PROVE  /\ DOMAIN s = StreamFields /\ s.d = t.d /\ s.told = t.told /\ s.ended = t.ended
           /\ s.stayed = t.stayed
           /\ t.filled => s = t
<1>1. CASE t.filled
  BY <1>1 DEF Filled
<1>2. CASE ~ t.filled
  <2>1. PICK r, b : s = [t EXCEPT !.filled = TRUE, !.late = r, !.buf = b]
    BY <1>2, Zenon DEF Filled
  <2>2. QED
    BY <1>2, <2>1 DEF StreamFields
<1>3. QED
  BY <1>1, <1>2

(* One call of readdir: the stream ends, or tells one more entry. *)
TellsEnd(s, t) ==
    /\ DOMAIN t = StreamFields /\ t.d = s.d /\ t.filled = s.filled /\ t.late = s.late
    /\ t.stayed = s.stayed /\ t.buf = s.buf /\ t.told = s.told /\ t.ended = TRUE /\ s.buf \ Dots = {}
TellsEntry(s, t, n) ==
    /\ DOMAIN t = StreamFields /\ t.d = s.d /\ t.filled = s.filled /\ t.late = s.late
    /\ t.stayed = s.stayed /\ t.ended = s.ended /\ t.buf = s.buf \ {n} /\ t.told = s.told \cup {n}

LEMMA NextEntryIs ==
    ASSUME Streams, NEW c \in Callers, NextEntry(c), NEW s, s = Filled(stream[c])
    PROVE  \E t : /\ stream' = [stream EXCEPT ![c] = t]
                  /\ TellsEnd(s, t) \/ \E n : TellsEntry(s, t, n)
<1>1. DOMAIN s = StreamFields
  BY FilledIs, Zenon DEF NextEntry, Streams
<1>2. \/ AtEnd(s) /\ stream' = [stream EXCEPT ![c] = [s EXCEPT !.ended = TRUE]]
      \/ \E n : stream' = [stream EXCEPT ![c] = [s EXCEPT !.buf = @ \ {n}, !.told = @ \cup {n}]]
  BY Zenon DEF NextEntry
<1>3. CASE AtEnd(s) /\ stream' = [stream EXCEPT ![c] = [s EXCEPT !.ended = TRUE]]
  <2>1. PICK t : t = [s EXCEPT !.ended = TRUE]
    OBVIOUS
  <2>2. TellsEnd(s, t)
    BY <1>1, <1>3, <2>1 DEF TellsEnd, AtEnd, StreamFields
  <2>3. QED
    BY <1>3, <2>1, <2>2
<1>4. ASSUME NEW n, stream' = [stream EXCEPT ![c] = [s EXCEPT !.buf = @ \ {n}, !.told = @ \cup {n}]]
      PROVE  \E t : stream' = [stream EXCEPT ![c] = t] /\ TellsEntry(s, t, n)
  <2>1. PICK t : t = [s EXCEPT !.buf = @ \ {n}, !.told = @ \cup {n}]
    OBVIOUS
  <2>2. TellsEntry(s, t, n)
    BY <1>1, <2>1 DEF TellsEntry, StreamFields
  <2>3. QED
    BY <1>4, <2>1, <2>2
<1>5. QED
  BY <1>2, <1>3, <1>4, Zenon

LEMMA NextEntryCounts == ASSUME CInv, DInv, NEW c \in Callers, NextEntry(c) PROVE DInv'
<1>1. PICK s : s = Filled(stream[c])
  OBVIOUS
<1>2. stream[c] # None /\ Streams /\ Descriptions
  BY Zenon DEF NextEntry, DInv
<1>3. s.d = stream[c].d /\ s.d \in 1 .. Len(desc)
  <2>1. PICK r : r = stream[c]
    OBVIOUS
  <2>2. DOMAIN r = StreamFields /\ s = Filled(r) /\ r.d \in 1 .. Len(desc)
    BY <1>1, <1>2, <2>1 DEF Streams
  <2>3. s.d = r.d
    BY <2>2, FilledIs
  <2>4. QED
    BY <2>1, <2>2, <2>3
<1>4. PICK d \in 1 .. Len(desc) : d = s.d
  BY <1>3
<1>5. PICK t : stream' = [stream EXCEPT ![c] = t] /\ (TellsEnd(s, t) \/ \E n : TellsEntry(s, t, n))
  BY <1>1, <1>2, NextEntryIs
<1>6. DOMAIN t = StreamFields /\ t.d = d /\ t # None
  BY <1>4, <1>5, NoneIsNoStream DEF TellsEnd, TellsEntry
<1>7. /\ desc' = [desc EXCEPT ![d].read = TRUE]
      /\ file' = file /\ dir' = dir /\ closing' = closing /\ dropped' = dropped
  BY <1>1, <1>4, Zenon DEF NextEntry
<1>8. PICK e : e = [desc[d] EXCEPT !.read = TRUE]
  OBVIOUS
<1>9. DOMAIN e = DescFields /\ e.fds = desc[d].fds /\ desc' = [desc EXCEPT ![d] = e]
  BY <1>2, <1>7, <1>8 DEF Descriptions, DescFields
<1>10. /\ Descriptions' /\ Len(desc') = Len(desc) /\ desc'[d].fds = desc[d].fds
       /\ \A i \in 1 .. Len(desc) : i # d => desc'[i].fds = desc[i].fds
  BY <1>2, <1>9, DescriptionChanges
<1>11. desc[d].fds \in Nat
  BY FdsAreNumbers
<1>12. One(t # None) = 1 /\ One(stream[c] # None) = 1
  BY <1>2, <1>6 DEF One
<1>13. desc'[d].fds = desc[d].fds + One(t # None) - One(stream[c] # None)
  BY <1>10, <1>11, <1>12
<1>14. QED
  BY <1>3, <1>4, <1>5, <1>6, <1>7, <1>10, <1>13, StreamCounts

LEMMA QuietCounts ==
    ASSUME CInv, DInv, Kinds
    PROVE  \/ DInv'
           \/ \E c \in Callers : DropFile(c) \/ DropDirectory(c) \/ \E u \in Callers : CloneFile(c, u)
           \/ \E c \in Callers : Iter(c) \/ NextEntry(c) \/ DropStream(c)
           \/ \E d \in closing : Close(d)
<1>1. ASSUME StreamsStay, UNCHANGED Handles PROVE DInv'
  BY <1>1, HandlesAlike DEF Handles
<1>2. ASSUME NEW c \in Callers, NEW x, GoesOn(c, x) PROVE DInv'
  BY <1>1, <1>2, SettleStreams DEF GoesOn, DInv
<1>3. ASSUME NEW c \in Callers, NEW x, Begins(c, x) PROVE DInv'
  BY <1>1, <1>3, QuietStreams DEF Begins, DInv
<1>4. ASSUME UNCHANGED <<fs, Handles, stream, call, astray>> PROVE DInv'
  BY <1>1, <1>4, QuietStreams DEF DInv
<1>5. ASSUME NEW p, Outsider(p) PROVE DInv'
  BY <1>1, <1>5, OutsiderStreams DEF Outsider, DInv, Handles
<1>6. ASSUME NEW c \in Callers, EndsRenamed(c) PROVE DInv'
  <2>1. StreamsStay
    BY <1>6, SettleStreams DEF EndsRenamed, DInv
  <2>2. PICK y : y = [file[c] EXCEPT !.path = call[c].path]
    OBVIOUS
  <2>3. /\ file[c] # None /\ file' = [file EXCEPT ![c] = y]
        /\ desc' = desc /\ dir' = dir /\ closing' = closing /\ dropped' = dropped
    BY <1>6, <2>2 DEF EndsRenamed
  <2>4. DOMAIN file[c] = FileFields /\ DOMAIN file = Callers
    BY <2>3 DEF CInv, NamedFiles, GoodFile
  <2>5. DOMAIN y = FileFields /\ y.d = file[c].d /\ y # None
    BY <2>2, <2>4, NoneIsNoFile DEF FileFields
  <2>6. \A u \in Callers : /\ file'[u] # None <=> file[u] # None
                           /\ file[u] # None => file'[u].d = file[u].d
    BY <2>3, <2>4, <2>5
  <2>7. QED
    BY <2>1, <2>3, <2>6, HandlesAlike
<1>7. QED
  BY <1>2, <1>3, <1>4, <1>5, <1>6, OpenedCounts, NobodysCounts DEF Kinds

LEMMA StepDInv == ASSUME CInv, DInv, Kinds PROVE DInv'
  BY QuietCounts, DropFileCounts, DropDirectoryCounts, CloneFileCounts, IterCounts, NextEntryCounts,
     DropStreamCounts, CloseCounts

LEMMA InitDInv == ASSUME Init PROVE DInv
<1>1. /\ desc = <<>> /\ file = [c \in Callers |-> None] /\ dir = [c \in Callers |-> None]
      /\ stream = [c \in Callers |-> None] /\ closing = {} /\ dropped = {}
  BY DEF Init
<1>2. IsSequence(desc) /\ 1 .. Len(desc) = {}
  <2>1. desc \in Seq({}) /\ Len(desc) = 0
    BY <1>1
  <2>2. QED
    BY <2>1 DEF IsSequence
<1>3. QED
  BY <1>1, <1>2 DEF DInv, Descriptions, Streams, Held, DescriptorsAccounted

-----------------------------------------------------------------------------
(* No step changes what a description is of. *)
InoStays ==
    \A d \in 1 .. Len(desc) : d \in 1 .. Len(desc') /\ desc'[d].ino = desc[d].ino

LEMMA AppendIno ==
    ASSUME DInv, NEW e, desc' = Append(desc, e)
    PROVE  InoStays /\ Len(desc) + 1 \in 1 .. Len(desc') /\ desc'[Len(desc) + 1] = e
<1>1. IsSequence(desc)
  BY DEF DInv, Descriptions
<1>2. Len(desc) \in Nat
  BY <1>1, LengthOf
<1>3. PICK t : t = desc' /\ t = Append(desc, e)
  OBVIOUS
<1>4. Len(t) = Len(desc) + 1
  BY <1>1, <1>3, AppendIs
<1>5. t[Len(desc) + 1] = e
  BY <1>1, <1>3, AppendIs
<1>6. \A i \in 1 .. Len(desc) : t[i] = desc[i]
  BY <1>1, <1>3, AppendIs
<1>7. QED
  BY <1>2, <1>3, <1>4, <1>5, <1>6 DEF InoStays

LEMMA FdsIno == ASSUME DInv, NEW d \in 1 .. Len(desc), NEW n, desc' = [desc EXCEPT ![d].fds = n] PROVE InoStays
<1>1. /\ Len(desc') = Len(desc) /\ desc'[d].ino = desc[d].ino
      /\ \A i \in 1 .. Len(desc) : i # d => desc'[i] = desc[i]
  BY FdsChange DEF DInv
<1>2. QED
  BY <1>1 DEF InoStays

LEMMA InosStay == ASSUME CInv, DInv, Kinds PROVE InoStays
<1>1. ASSUME desc' = desc PROVE InoStays
  BY <1>1 DEF InoStays
<1>2. ASSUME NEW c \in Callers, NEW x, GoesOn(c, x) PROVE InoStays
  BY <1>1, <1>2 DEF GoesOn, Handles
<1>3. ASSUME NEW c \in Callers, NEW x, NEW how, EndsOpen(c, x, how) PROVE InoStays
  BY <1>3, AppendIno DEF EndsOpen, Opened
<1>4. ASSUME NEW c \in Callers, NEW x, NEW how, OpensForNobody(c, x, how) PROVE InoStays
  BY <1>4, AppendIno DEF OpensForNobody
<1>5. ASSUME NEW c \in Callers, EndsRenamed(c) PROVE InoStays
  BY <1>1, <1>5 DEF EndsRenamed
<1>6. ASSUME NEW c \in Callers, NEW x, Begins(c, x) PROVE InoStays
  BY <1>1, <1>6 DEF Begins, Handles
<1>7. ASSUME NEW d, d \in 1 .. Len(desc), Released(d) PROVE InoStays
  BY <1>1, <1>7, FdsIno DEF Released
<1>8. ASSUME NEW c \in Callers, DropFile(c) \/ DropDirectory(c) PROVE InoStays
  BY <1>7, <1>8 DEF DropFile, DropDirectory, DInv, Held
<1>9. ASSUME NEW c \in Callers, NEW u \in Callers, CloneFile(c, u) PROVE InoStays
  BY <1>1, <1>9 DEF CloneFile
<1>10. ASSUME NEW c \in Callers, Iter(c) PROVE InoStays
  BY <1>10, FdsIno DEF Iter, IsListable, DInv, Held
<1>11. ASSUME NEW c \in Callers, DropStream(c) PROVE InoStays
  BY <1>11, FdsIno DEF DropStream, DInv, Streams
<1>12. ASSUME NEW c \in Callers, NextEntry(c) PROVE InoStays
  <2>1. PICK d : d = Filled(stream[c]).d
    OBVIOUS
  <2>2. desc' = [desc EXCEPT ![d].read = TRUE]
    BY <1>12, <2>1, Zenon DEF NextEntry
  <2>3. PICK e : e = [desc[d] EXCEPT !.read = TRUE]
    OBVIOUS
  <2>4. IsSequence(desc) /\ desc' = [desc EXCEPT ![d] = e]
    BY <2>2, <2>3 DEF DInv, Descriptions
  <2>5. Len(desc') = Len(desc) /\ DOMAIN desc = 1 .. Len(desc)
    BY <2>4, ExceptIs, LengthOf
  <2>6. d \in 1 .. Len(desc) => e.ino = desc[d].ino
    BY <2>3 DEF DInv, Descriptions, DescFields
  <2>7. QED
    BY <2>4, <2>5, <2>6 DEF InoStays
<1>13. ASSUME NEW d \in closing, Close(d) PROVE InoStays
  BY <1>13, FdsIno, ZenonT(60) DEF Close, DInv, Held
<1>14. ASSUME NEW p, Outsider(p) PROVE InoStays
  BY <1>1, <1>14 DEF Outsider
<1>15. QED
  BY <1>1, <1>2, <1>3, <1>4, <1>5, <1>6, <1>8, <1>9, <1>10, <1>11, <1>12, <1>13, <1>14 DEF Kinds, Handles

-----------------------------------------------------------------------------
(* The path of a File. *)
Named(u) == file[u] # None /\ ~ file[u].rel /\ u \notin astray

(* The File is kept, and nobody touches its entry. *)
LEMMA NameStays ==
    ASSUME CInv, DInv, InoStays, PathNamesFile, NEW u \in Callers, Named(u),
           EntryOf(fs', file[u].path) = EntryOf(fs, file[u].path)
    PROVE  EntryOf(fs', file[u].path) = desc'[file[u].d].ino
<1>1. file[u].d \in 1 .. Len(desc)
  BY DEF Named, DInv, Held
<1>2. EntryOf(fs, file[u].path) = desc[file[u].d].ino
  BY DEF PathNamesFile, Named
<1>3. QED
  BY <1>1, <1>2 DEF InoStays

(* After a step of c, the others' entries are as they were or they are     *)
(* astray.                                                                 *)
LEMMA SettleNames ==
    ASSUME NEW c, NEW x, NEW renamed, Settle(c, x, renamed), NEW u \in Callers,
           file[u] # None, u \notin astray', renamed => u # c
    PROVE  u \notin astray /\ EntryOf(fs', file[u].path) = EntryOf(fs, file[u].path)
  BY DEF Settle, Touched

LEMMA NamesKept ==
    ASSUME CInv, DInv, InoStays, PathNamesFile, NEW c, NEW x, Settle(c, x, FALSE), NEW u \in Callers,
           file'[u] = file[u], file'[u] # None, ~ file'[u].rel, u \notin astray'
    PROVE  EntryOf(fs', file'[u].path) = desc'[file'[u].d].ino
<1>1. u \notin astray /\ EntryOf(fs', file[u].path) = EntryOf(fs, file[u].path)
  BY SettleNames
<1>2. QED
  BY <1>1, NameStays DEF Named

LEMMA OpenedNames ==
    ASSUME CInv, DInv, InoStays, PathNamesFile, NEW c \in Callers, NEW x, NEW how, EndsOpen(c, x, how)
    PROVE  PathNamesFile'
<1>1. Settle(c, None, FALSE) /\ DOMAIN file = Callers
  BY DEF EndsOpen, Opened, CInv, NamedFiles
<1>2. CASE x.op = "file"
  <2>1. PICK y : y = [d |-> Len(desc) + 1, path |-> x.path, rel |-> x.base # Cwd]
    OBVIOUS
  <2>2. file' = [file EXCEPT ![c] = y]
    BY <1>2, <2>1 DEF EndsOpen, Opened
  <2>3. file'[c] = y /\ \A u \in Callers : u # c => file'[u] = file[u]
    BY <1>1, <2>2
  <2>4. ASSUME ~ y.rel PROVE EntryOf(fs', y.path) = desc'[y.d].ino
    <3>1. x.base = Cwd /\ y.path = x.path /\ y.d = Len(desc) + 1
      BY <2>1, <2>4
    <3>2. x.path \in DOMAIN fs'.tree /\ FileSystemInv(fs') /\ x.path \in Seq(Names)
      BY <3>1 DEF EndsOpen, GoodCall
    <3>3. PICK f : f = fs'
      OBVIOUS
    <3>4. Place(f, x) = x.path
      BY <3>1, <3>2, <3>3, PlaceIs
    <3>5. PICK e : e = NewDescription(f, x, how)
      OBVIOUS
    <3>6. e.ino = f.tree[x.path]
      BY <3>4, <3>5, NewIs
    <3>7. desc' = Append(desc, e)
      BY <3>3, <3>5 DEF EndsOpen, Opened
    <3>8. desc'[Len(desc) + 1] = e
      BY <3>7, AppendIno
    <3>9. QED
      BY <3>1, <3>2, <3>3, <3>6, <3>8 DEF EntryOf, Exists
  <2>5. ASSUME NEW u \in Callers, file'[u] # None, ~ file'[u].rel, u \notin astray'
        PROVE  EntryOf(fs', file'[u].path) = desc'[file'[u].d].ino
    <3>1. CASE u = c
      BY <2>3, <2>4, <2>5, <3>1
    <3>2. CASE u # c
      BY <1>1, <2>3, <2>5, <3>2, NamesKept
    <3>3. QED
      BY <3>1, <3>2
  <2>6. QED
    BY <2>5 DEF PathNamesFile
<1>3. CASE x.op # "file"
  <2>1. file' = file
    BY <1>3 DEF EndsOpen, Opened
  <2>2. QED
    BY <1>1, <2>1, NamesKept DEF PathNamesFile
<1>4. QED
  BY <1>2, <1>3

LEMMA RenamedNames ==
    ASSUME CInv, DInv, InoStays, PathNamesFile, NEW c \in Callers, EndsRenamed(c)
    PROVE  PathNamesFile'
<1>1. PICK y : y = [file[c] EXCEPT !.path = call[c].path]
  OBVIOUS
<1>2. /\ file[c] # None /\ file' = [file EXCEPT ![c] = y] /\ Settle(c, None, TRUE)
      /\ file[c].path \in DOMAIN fs.tree /\ call[c].path \in DOMAIN fs'.tree
      /\ fs'.tree[call[c].path] = fs.tree[file[c].path]
  BY <1>1 DEF EndsRenamed
<1>3. DOMAIN file[c] = FileFields /\ DOMAIN file = Callers
  BY <1>2 DEF CInv, NamedFiles, GoodFile
<1>4. y.d = file[c].d /\ y.rel = file[c].rel /\ y.path = call[c].path
  BY <1>1, <1>3 DEF FileFields
<1>5. file'[c] = y /\ \A u \in Callers : u # c => file'[u] = file[u]
  BY <1>2, <1>3
<1>6. ASSUME ~ y.rel, c \notin astray PROVE EntryOf(fs', y.path) = desc'[y.d].ino
  <2>1. EntryOf(fs, file[c].path) = desc[file[c].d].ino
    BY <1>2, <1>4, <1>6 DEF PathNamesFile
  <2>2. file[c].d \in 1 .. Len(desc)
    BY <1>2 DEF DInv, Held
  <2>3. QED
    BY <1>2, <1>4, <2>1, <2>2 DEF EntryOf, Exists, InoStays
<1>7. astray \subseteq astray'
  BY <1>2 DEF Settle
<1>8. ASSUME NEW u \in Callers, file'[u] # None, ~ file'[u].rel, u \notin astray'
      PROVE  EntryOf(fs', file'[u].path) = desc'[file'[u].d].ino
  <2>1. CASE u = c
    BY <1>5, <1>6, <1>7, <1>8, <2>1
  <2>2. CASE u # c
    <3>1. u \notin astray /\ EntryOf(fs', file[u].path) = EntryOf(fs, file[u].path)
      BY <1>2, <1>5, <1>8, <2>2, SettleNames
    <3>2. QED
      BY <1>5, <1>8, <2>2, <3>1, NameStays DEF Named
  <2>3. QED
    BY <2>1, <2>2
<1>9. QED
  BY <1>8 DEF PathNamesFile

LEMMA StepNames == ASSUME CInv, DInv, PathNamesFile, Kinds PROVE PathNamesFile'
<1>1. InoStays
  BY InosStay
<1>2. ASSUME NEW c \in Callers, NEW x, GoesOn(c, x) PROVE PathNamesFile'
  BY <1>1, <1>2, NamesKept DEF GoesOn, Handles, PathNamesFile
<1>3. ASSUME NEW c \in Callers, NEW x, NEW how, OpensForNobody(c, x, how) PROVE PathNamesFile'
  BY <1>1, <1>3, NamesKept DEF OpensForNobody, PathNamesFile
<1>4. ASSUME fs' = fs, file' = file, astray' = astray PROVE PathNamesFile'
  BY <1>1, <1>4, NameStays DEF PathNamesFile, Named
<1>5. ASSUME NEW c \in Callers, NEW x, Begins(c, x) PROVE PathNamesFile'
  BY <1>4, <1>5 DEF Begins, Handles
<1>6. ASSUME NEW c \in Callers, DropFile(c) PROVE PathNamesFile'
  <2>1. fs' = fs /\ file' = [file EXCEPT ![c] = None] /\ astray' = astray \ {c} /\ DOMAIN file = Callers
    BY <1>6 DEF DropFile, CInv, NamedFiles
  <2>2. file'[c] = None /\ \A u \in Callers : u # c => file'[u] = file[u]
    BY <2>1
  <2>3. QED
    BY <1>1, <2>1, <2>2, NameStays DEF PathNamesFile, Named
<1>7. ASSUME NEW c \in Callers, NEW u \in Callers, CloneFile(c, u) PROVE PathNamesFile'
  <2>1. /\ fs' = fs /\ file' = [file EXCEPT ![u] = file[c]] /\ DOMAIN file = Callers
        /\ astray' = IF c \in astray THEN astray \cup {u} ELSE astray
    BY <1>7 DEF CloneFile, CInv, NamedFiles
  <2>2. file'[u] = file[c] /\ \A v \in Callers : v # u => file'[v] = file[v]
    BY <2>1
  <2>3. ASSUME NEW v \in Callers, file'[v] # None, ~ file'[v].rel, v \notin astray'
        PROVE  EntryOf(fs', file'[v].path) = desc'[file'[v].d].ino
    <3>1. CASE v = u
      <4>1. Named(c)
        BY <2>1, <2>2, <2>3, <3>1 DEF Named
      <4>2. QED
        BY <1>1, <2>1, <2>2, <3>1, <4>1, NameStays
    <3>2. CASE v # u
      <4>1. file[v] # None /\ ~ file[v].rel /\ v \notin astray
        <5>1. file'[v] = file[v]
          BY <2>2, <3>2
        <5>2. astray \subseteq astray'
          BY <2>1
        <5>3. QED
          BY <2>3, <5>1, <5>2, Zenon
      <4>2. QED
        BY <1>1, <2>1, <2>2, <3>2, <4>1, NameStays DEF Named
    <3>3. QED
      BY <3>1, <3>2
  <2>4. QED
    BY <2>3 DEF PathNamesFile
<1>8. ASSUME NEW c \in Callers, DropDirectory(c) \/ Iter(c) \/ NextEntry(c) \/ DropStream(c)
      PROVE  PathNamesFile'
  BY <1>4, <1>8, Zenon DEF DropDirectory, Iter, NextEntry, DropStream
<1>9. ASSUME NEW d, Close(d) PROVE PathNamesFile'
  BY <1>4, <1>9 DEF Close
<1>10. ASSUME NEW p, Outsider(p) PROVE PathNamesFile'
  <2>1. file' = file
    BY <1>10 DEF Outsider
  <2>2. \A u \in Callers : file[u] # None /\ u \notin astray' =>
          u \notin astray /\ EntryOf(fs', file[u].path) = EntryOf(fs, file[u].path)
    BY <1>10 DEF Outsider
  <2>3. QED
    BY <1>1, <2>1, <2>2, NameStays DEF PathNamesFile, Named
<1>11. ASSUME UNCHANGED <<fs, Handles, stream, call, astray>> PROVE PathNamesFile'
  BY <1>4, <1>11 DEF Handles
<1>12. QED
  BY <1>1, <1>2, <1>3, <1>5, <1>6, <1>7, <1>8, <1>9, <1>10, <1>11, OpenedNames, RenamedNames DEF Kinds

-----------------------------------------------------------------------------
(* What an iteration has told, and has still to tell. *)
GoodIteration(s, f, inodes) ==
    /\ s.stayed \cap Dots = {}
    /\ ~ s.filled => ~ s.ended /\ s.stayed \subseteq Entries(f, PlaceOf(f, inodes[s.d].ino))
    /\ s.filled => s.late \/ s.stayed \subseteq s.told \cup s.buf
    /\ s.ended => s.buf \subseteq Dots

Iterations == \A c \in Callers : stream[c] # None => GoodIteration(stream[c], fs, desc)

LEMMA EntriesAre == ASSUME NEW f, FileSystemInv(f), NEW place PROVE Entries(f, place) \cap Dots = {}
<1>1. ASSUME NEW p \in DOMAIN f.tree, p # <<>> PROVE Last(p) \in Names
  <2>1. p \in Seq(Names)
    BY DEF FileSystemInv
  <2>2. Len(p) \in Nat /\ Len(p) >= 1
    BY <1>1, <2>1, LengthOf DEF IsSequence
  <2>3. p[Len(p)] \in Names
    BY <2>1, <2>2
  <2>4. QED
    BY <2>3 DEF Last
<1>2. Entries(f, place) \subseteq Names
  BY <1>1 DEF Entries
<1>3. QED
  BY <1>2, NamesAre

LEMMA IterationStays ==
    ASSUME Streams, InoStays, Iterations, NEW c \in Callers, StreamStays(stream'[c], stream[c]), stream'[c] # None
    PROVE  GoodIteration(stream'[c], fs', desc')
<1>1. PICK s : s = stream[c]
  OBVIOUS
<1>2. PICK t : t = stream'[c]
  OBVIOUS
<1>3. s # None /\ s.d \in 1 .. Len(desc) /\ GoodIteration(s, fs, desc)
  BY <1>1 DEF StreamStays, Streams, Iterations
<1>4. desc'[s.d].ino = desc[s.d].ino
  BY <1>3 DEF InoStays
<1>5. /\ t.d = s.d /\ t.filled = s.filled /\ t.buf = s.buf /\ t.told = s.told
      /\ t.ended = s.ended /\ t.late = s.late
      /\ \/ fs' = fs /\ t.stayed = s.stayed
         \/ t.stayed = s.stayed \cap Entries(fs', PlaceOf(fs', desc[s.d].ino))
  BY <1>1, <1>2, <1>3 DEF StreamStays
<1>6. t.stayed \subseteq s.stayed
  BY <1>5
<1>7. ~ t.filled => t.stayed \subseteq Entries(fs', PlaceOf(fs', desc'[t.d].ino))
  <2>1. CASE fs' = fs /\ t.stayed = s.stayed
    <3>1. desc'[t.d].ino = desc[s.d].ino
      BY <1>4, <1>5
    <3>2. QED
      BY <1>3, <1>5, <2>1, <3>1 DEF GoodIteration
  <2>2. CASE t.stayed = s.stayed \cap Entries(fs', PlaceOf(fs', desc[s.d].ino))
    <3>1. desc'[t.d].ino = desc[s.d].ino
      BY <1>4, <1>5
    <3>2. QED
      BY <2>2, <3>1
  <2>3. QED
    BY <1>5, <2>1, <2>2
<1>8. GoodIteration(t, fs', desc')
  BY <1>3, <1>5, <1>6, <1>7 DEF GoodIteration
<1>9. QED
  BY <1>2, <1>8

LEMMA NextIteration ==
    ASSUME CInv, DInv, Iterations, NEW c \in Callers, NextEntry(c)
    PROVE  stream'[c] # None => GoodIteration(stream'[c], fs', desc')
<1>1. PICK r : r = stream[c]
  OBVIOUS
<1>2. PICK s : s = Filled(r)
  OBVIOUS
<1>3. r # None /\ ~ r.ended /\ DOMAIN r = StreamFields /\ GoodIteration(r, fs, desc) /\ DOMAIN stream = Callers
  BY <1>1, Zenon DEF NextEntry, DInv, Streams, Iterations
<1>4. PICK t : stream' = [stream EXCEPT ![c] = t] /\ (TellsEnd(s, t) \/ \E n : TellsEntry(s, t, n))
  BY <1>1, <1>2, NextEntryIs DEF DInv
<1>5. s.told = r.told /\ s.ended = r.ended /\ s.stayed = r.stayed /\ (r.filled => s = r)
  BY <1>2, <1>3, FilledIs
<1>6. s.filled /\ s.stayed \cap Dots = {} /\ ~ s.ended /\ (s.late \/ s.stayed \subseteq s.told \cup s.buf)
  <2>1. CASE r.filled
    BY <1>3, <1>5, <2>1 DEF GoodIteration
  <2>2. CASE ~ r.filled
    <3>1. PICK l : l = desc[r.d].read
      OBVIOUS
    <3>2. PICK e : e = Entries(fs, PlaceOf(fs, desc[r.d].ino))
      OBVIOUS
    <3>3. DOMAIN r = StreamFields
      BY <1>3
    <3>4. PICK b : b = IF l THEN {} ELSE e \cup Dots
      OBVIOUS
    <3>5. s = [r EXCEPT !.filled = TRUE, !.late = l, !.buf = b]
      BY <1>2, <2>2, <3>1, <3>2, <3>4 DEF Filled
    <3>6. s.filled = TRUE /\ s.late = l /\ s.buf = b
      BY <3>3, <3>5 DEF StreamFields
    <3>7. r.stayed \subseteq e /\ r.stayed \cap Dots = {} /\ ~ r.ended
      BY <1>3, <2>2, <3>2 DEF GoodIteration
    <3>8. QED
      BY <1>5, <3>4, <3>6, <3>7
  <2>3. QED
    BY <2>1, <2>2
<1>7. ASSUME TellsEnd(s, t) PROVE GoodIteration(t, fs', desc')
  BY <1>6, <1>7 DEF TellsEnd, GoodIteration
<1>8. ASSUME NEW n, TellsEntry(s, t, n) PROVE GoodIteration(t, fs', desc')
  BY <1>6, <1>8 DEF TellsEntry, GoodIteration
<1>9. stream'[c] = t
  BY <1>3, <1>4
<1>10. QED
  BY <1>4, <1>7, <1>8, <1>9

LEMMA StepIterations == ASSUME CInv, DInv, Iterations, Kinds PROVE Iterations'
<1>1. InoStays /\ Streams /\ DOMAIN stream = Callers
  BY InosStay DEF DInv, Streams
<1>2. ASSUME StreamsStay PROVE Iterations'
  BY <1>1, <1>2, IterationStays DEF StreamsStay, Iterations
<1>3. ASSUME NEW c \in Callers, fs' = fs, \A u \in Callers : u # c => stream'[u] = stream[u],
             stream'[c] # None => GoodIteration(stream'[c], fs', desc')
      PROVE  Iterations'
  <2>1. ASSUME NEW u \in Callers, u # c PROVE StreamStays(stream'[u], stream[u])
    BY <1>1, <1>3, <2>1 DEF StreamStays, Streams
  <2>2. ASSUME NEW u \in Callers, stream'[u] # None PROVE GoodIteration(stream'[u], fs', desc')
    BY <1>1, <1>3, <2>1, <2>2, IterationStays
  <2>3. QED
    BY <2>2 DEF Iterations
<1>4. ASSUME NEW c \in Callers, NextEntry(c) PROVE Iterations'
  <2>1. fs' = fs /\ \A u \in Callers : u # c => stream'[u] = stream[u]
    BY <1>1, <1>4, Zenon DEF NextEntry
  <2>2. QED
    BY <1>3, <1>4, <2>1, NextIteration
<1>5. ASSUME NEW c \in Callers, DropStream(c) PROVE Iterations'
  <2>1. fs' = fs /\ stream' = [stream EXCEPT ![c] = None]
    BY <1>5 DEF DropStream
  <2>2. stream'[c] = None /\ \A u \in Callers : u # c => stream'[u] = stream[u]
    BY <1>1, <2>1
  <2>3. QED
    BY <1>3, <2>1, <2>2
<1>6. ASSUME NEW c \in Callers, Iter(c) PROVE Iterations'
  <2>1. PICK d : d = dir[c].d
    OBVIOUS
  <2>2. PICK s : s = [d |-> d, filled |-> FALSE, buf |-> {}, told |-> {}, ended |-> FALSE,
                      late |-> FALSE, stayed |-> Entries(fs, PlaceOf(fs, desc[d].ino))]
    OBVIOUS
  <2>3. dir[c] # None /\ fs' = fs /\ stream' = [stream EXCEPT ![c] = s]
    BY <1>6, <2>1, <2>2 DEF Iter, IsListable
  <2>4. stream'[c] = s /\ \A u \in Callers : u # c => stream'[u] = stream[u]
    BY <1>1, <2>3
  <2>5. desc'[d].ino = desc[d].ino
    BY <1>1, <2>1, <2>3 DEF DInv, Held, InoStays
  <2>6. /\ s.d = d /\ s.filled = FALSE /\ s.ended = FALSE
        /\ s.stayed = Entries(fs, PlaceOf(fs, desc[d].ino))
    BY <2>2
  <2>7. s.stayed \cap Dots = {}
    BY <2>6, EntriesAre DEF CInv
  <2>8. s.stayed \subseteq Entries(fs', PlaceOf(fs', desc'[s.d].ino))
    BY <2>3, <2>5, <2>6
  <2>9. GoodIteration(s, fs', desc')
    BY <2>6, <2>7, <2>8 DEF GoodIteration
  <2>10. QED
    BY <1>3, <2>3, <2>4, <2>9
<1>7. ASSUME NEW c \in Callers, NEW x, NEW renamed, Settle(c, x, renamed) PROVE Iterations'
  BY <1>1, <1>2, <1>7, SettleStreams
<1>8. ASSUME NEW p, Outsider(p) PROVE Iterations'
  BY <1>1, <1>2, <1>8, OutsiderStreams
<1>9. ASSUME fs' = fs, stream' = stream PROVE Iterations'
  BY <1>1, <1>2, <1>9, QuietStreams
<1>10. ASSUME NEW c \in Callers, NEW x, GoesOn(c, x) PROVE Iterations'
  BY <1>7, <1>10 DEF GoesOn
<1>11. ASSUME NEW c \in Callers, NEW x, NEW how, EndsOpen(c, x, how) PROVE Iterations'
  BY <1>7, <1>11 DEF EndsOpen, Opened
<1>12. ASSUME NEW c \in Callers, NEW x, NEW how, OpensForNobody(c, x, how) PROVE Iterations'
  BY <1>7, <1>12 DEF OpensForNobody
<1>13. ASSUME NEW c \in Callers, EndsRenamed(c) PROVE Iterations'
  BY <1>7, <1>13 DEF EndsRenamed
<1>14. ASSUME NEW c \in Callers, NEW x, Begins(c, x) PROVE Iterations'
  BY <1>9, <1>14 DEF Begins
<1>15. ASSUME NEW c \in Callers, DropFile(c) \/ DropDirectory(c) \/ \E u \in Callers : CloneFile(c, u)
       PROVE  Iterations'
  BY <1>9, <1>15 DEF DropFile, DropDirectory, CloneFile
<1>16. ASSUME NEW d, Close(d) PROVE Iterations'
  BY <1>9, <1>16 DEF Close
<1>17. QED
  BY <1>4, <1>5, <1>6, <1>8, <1>9, <1>10, <1>11, <1>12, <1>13, <1>14, <1>15, <1>16 DEF Kinds

-----------------------------------------------------------------------------
FilesInv == CInv /\ DInv /\ PathNamesFile /\ Iterations

LEMMA InitFilesInv == ASSUME Init PROVE FilesInv
<1>1. /\ file = [c \in Callers |-> None] /\ stream = [c \in Callers |-> None]
  BY DEF Init
<1>2. PathNamesFile /\ Iterations
  BY <1>1 DEF PathNamesFile, Iterations
<1>3. QED
  BY <1>2, InitCInv, InitDInv DEF FilesInv

LEMMA StepFilesInv == ASSUME FilesInv, [Next]_vars PROVE FilesInv'
<1>1. Kinds
  BY StepKinds DEF FilesInv
<1>2. QED
  BY <1>1, StepCInv, StepDInv, StepNames, StepIterations DEF FilesInv

LEMMA AlwaysFilesInv == Spec => []FilesInv
<1>1. Init => FilesInv
  BY InitFilesInv
<1>2. FilesInv /\ [Next]_vars => FilesInv'
  BY StepFilesInv
<1>3. QED
  BY <1>1, <1>2, PTL DEF Spec

(* Whatever the calls, the clones, the streams and the futures given up:   *)
(* each descriptor is closed by exactly one owner (OwnedFdAsync's drop, a  *)
(* close on its way, DirectoryStream's closedir), but for those opened for *)
(* a future nobody held any more.                                          *)
THEOREM DescriptorsAreAccounted == Spec => []DescriptorsAccounted
<1>1. FilesInv => DescriptorsAccounted
  BY DEF FilesInv, DInv
<1>2. QED
  BY <1>1, AlwaysFilesInv, PTL

(* File::path names the file that is open, through set_path, a rename by   *)
(* others of other entries and the drop of calls, unless another step      *)
(* touched that very entry or the File was opened below a Directory.       *)
THEOREM PathsNameTheirFiles == Spec => []PathNamesFile
<1>1. FilesInv => PathNamesFile
  BY DEF FilesInv
<1>2. QED
  BY <1>1, AlwaysFilesInv, PTL

(* DirectoryStream: an iteration that ends has told every entry that was   *)
(* there all along, whatever came and went meanwhile, unless the           *)
(* duplicates of the Directory's descriptor had been read to the end       *)
(* before it started reading.                                              *)
THEOREM IterationsAreComplete == Spec => []IterationsTellAll
<1>1. FilesInv => IterationsTellAll
  <2> SUFFICES ASSUME FilesInv, NEW c \in Callers, stream[c] # None, stream[c].ended
               PROVE  stream[c].late \/ stream[c].stayed \subseteq stream[c].told
    BY DEF IterationsTellAll
  <2>1. GoodIteration(stream[c], fs, desc)
    BY DEF FilesInv, Iterations
  <2>2. QED
    BY <2>1 DEF GoodIteration
<1>2. QED
  BY <1>1, AlwaysFilesInv, PTL

-----------------------------------------------------------------------------
(* Where directories are made.                                             *)
LEMMA AlwaysCInv == Spec => []CInv
<1>1. FilesInv => CInv
  BY DEF FilesInv
<1>2. QED
  BY <1>1, AlwaysFilesInv, PTL

(* mkdir_recursive goes for the directory that was asked for, is always at *)
(* a prefix of its path, and has made prefixes of it only.                 *)
StaysOnPath ==
    \A c \in Callers : call[c] # None =>
        /\ call[c].step \in {"mkdir", "stat"} =>
              call[c].goal = Asked(call[c]) /\ IsPrefix(call[c].cur, Asked(call[c]))
        /\ \A p \in call[c].made : IsPrefix(p, Asked(call[c]))

(* What one step of it, given up or not, adds to the tree is a prefix too. *)
AddsOnPath(c) ==
    call[c] # None /\ call[c].step = "mkdir" /\ (Mkdir(c) \/ Abandon(c))
        => \A p \in DOMAIN fs'.tree \ DOMAIN fs.tree : IsPrefix(p, Asked(call[c]))

(* mkdirat adds the directory it is given, or nothing. *)
LEMMA MkdirAdds ==
    ASSUME NEW f, NEW place, NEW mode, NEW p \in DOMAIN MkdirAt(f, place, mode).fs.tree \ DOMAIN f.tree
    PROVE  p = place
<1> DEFINE inode == [type |-> "DIRECTORY", perm |-> mode, len |-> 0]
<1> HIDE DEF inode
<1>1. \/ MkdirAt(f, place, mode).fs = f
      \/ MkdirAt(f, place, mode).fs = With(f, place, inode)
  BY DEF MkdirAt, Failed, Done, inode
<1>2. DOMAIN With(f, place, inode).tree = {place} \cup DOMAIN f.tree
  BY DEF With, Put
<1>3. QED
  BY <1>1, <1>2

LEMMA MkdirAddsOnPath == ASSUME CInv, NEW c \in Callers PROVE AddsOnPath(c)
<1> SUFFICES ASSUME call[c] # None, call[c].step = "mkdir", Mkdir(c) \/ Abandon(c),
                    NEW p \in DOMAIN fs'.tree \ DOMAIN fs.tree
             PROVE  IsPrefix(p, Asked(call[c]))
  BY Zenon DEF AddsOnPath
<1>1. PICK x : x = call[c]
  OBVIOUS
<1>2. GoodCall(x) /\ x.step = "mkdir"
  BY <1>1, CallIsGood
<1>3. PICK f : f = MkdirAt(fs, x.cur, ToDirectorySafe(x.settings.mode)).fs
  OBVIOUS
<1>4. Kernel(x, None).fs = f
  BY <1>2, <1>3 DEF Kernel
<1>5. fs' = fs \/ fs' = f
  <2>1. CASE Mkdir(c)
    BY <1>1, <1>4, <2>1 DEF Mkdir, Made, MkdirFails, Continue, Return
  <2>2. CASE Abandon(c)
    BY <1>1, <1>2, <1>4, <2>2 DEF Abandon, Continue
  <2>3. QED
    BY <2>1, <2>2
<1>6. p = x.cur
  BY <1>3, <1>5, MkdirAdds
<1>7. QED
  BY <1>1, <1>2, <1>6 DEF GoodCall, Within

(* The directories that mkdir_recursive makes (for File::open, open_at,    *)
(* Directory::open or itself) are on the path it was asked for, whatever   *)
(* it meets there and whoever changes the tree between its steps.          *)
THEOREM DirectoriesOnPath == Spec => []StaysOnPath /\ [][\A c \in Callers : AddsOnPath(c)]_vars
<1>1. CInv => StaysOnPath
  <2> SUFFICES ASSUME CInv, NEW c \in Callers, call[c] # None
               PROVE  /\ call[c].step \in {"mkdir", "stat"} =>
                            call[c].goal = Asked(call[c]) /\ IsPrefix(call[c].cur, Asked(call[c]))
                      /\ \A p \in call[c].made : IsPrefix(p, Asked(call[c]))
    BY Zenon DEF StaysOnPath
  <2>1. GoodCall(call[c])
    BY CallIsGood
  <2>2. QED
    BY <2>1 DEF GoodCall, Within
<1>2. CInv /\ [Next]_vars => [\A c \in Callers : AddsOnPath(c)]_vars
  BY MkdirAddsOnPath
<1>3. QED
  BY <1>1, <1>2, AlwaysCInv, PTL DEF Spec
=============================================================================
