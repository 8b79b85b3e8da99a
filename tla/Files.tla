------------------------------- MODULE Files -------------------------------
(***************************************************************************)
(* io::fs: File, Directory and DirectoryStream.  A call is a chain of I/O  *)
(* operations with the code between two of them run at once: each action   *)
(* is one operation of the kernel and the code up to the next.  Callers    *)
(* and an outsider change the same tree between any two.                   *)
(*                                                                         *)
(* A caller keeps at most one File, one Directory and one stream of its    *)
(* entries.  Paths are relative to the current directory, or to the        *)
(* caller's Directory (open_at, `rel`).                                    *)
(***************************************************************************)
EXTENDS FileSystem

CONSTANTS Callers,
          FileOpens,   \* <<path, settings>> of the files opened
          RelOpens,    \* ... of the files opened below a Directory
          DirOpens,    \* <<path, flags>> of the directories opened
          DirMakes,    \* <<path, mode>> of the directories made
          NewPaths,    \* paths files are renamed to
          MaxSteps     \* bound: calls begun and steps of other programs

(* A path is given by the names on the way from the current directory. *)
Dots == {".", ".."}
AllPaths == {o[1] : o \in FileOpens \cup RelOpens \cup DirOpens \cup DirMakes} \cup NewPaths

ASSUME FilesAssumption ==
    /\ IsFiniteSet(Callers)
    /\ \A p \in AllPaths : p \in Seq(STRING) /\ p # <<>> /\ ToSet(p) \cap Dots = {}

VARIABLES
    fs,       \* the tree and the inodes
    desc,     \* open file descriptions; fds: descriptors on it, read: its offset is at the end
    file,     \* each caller's File: its description, path, and whether it was opened below a Directory
    dir,      \* each caller's Directory: its description
    stream,   \* each caller's DirectoryStream
    call,     \* the call each caller awaits
    answer,   \* what the last step told a caller, if it ended a call
    closing,  \* descriptions whose owner is gone and whose close is on its way
    dropped,  \* history: descriptions opened for a future that was dropped
    astray,   \* history: callers whose File's path was touched by another step than their set_path
    begun     \* calls and steps of other programs so far

vars == <<fs, desc, file, dir, stream, call, answer, closing, dropped, astray, begun>>

None == [op |-> "none"]

(* What a call is at its start; `made`: directories it made, `alone`: the  *)
(* tree was not changed by others since, `torn`: an OpenHow was not its.   *)
Call(op, base, path, settings, step) ==
    [op |-> op, base |-> base, path |-> path, settings |-> settings, step |-> step, goal |-> <<>>, cur |-> <<>>,
     up |-> FALSE, retried |-> FALSE, size |-> 0, made |-> {}, alone |-> TRUE, torn |-> FALSE]
Place(f, x) == PlaceOf(f, x.base) \o x.path

Answer(c, result, bytes, torn) == [to |-> c, result |-> result, bytes |-> bytes, torn |-> torn]
Unanswered == Answer("nobody", "", 0, FALSE)
Silent == answer' = Unanswered

Init ==
    /\ fs = [tree |-> [p \in {<<>>} |-> Cwd],
             inodes |-> <<[type |-> "DIRECTORY", perm |-> {"read", "write", "execute"}, len |-> 0]>>]
    /\ desc = <<>>
    /\ file = [c \in Callers |-> None]
    /\ dir = [c \in Callers |-> None]
    /\ stream = [c \in Callers |-> None]
    /\ call = [c \in Callers |-> None]
    /\ answer = Unanswered
    /\ closing = {}
    /\ dropped = {}
    /\ astray = {}
    /\ begun = 0

-----------------------------------------------------------------------------
(* What a change of the tree by `c` does to the histories.                 *)
EntryOf(f, path) == IF Exists(f, path) THEN f.tree[path] ELSE 0
Touched(c, renamed) ==
    {u \in Callers : file[u] # None /\ EntryOf(fs', file[u].path) # EntryOf(fs, file[u].path)}
        \ (IF renamed THEN {c} ELSE {})
Stayed(s) == [s EXCEPT !.stayed = @ \cap Entries(fs', PlaceOf(fs', desc[s.d].ino))]
Settle(c, x, renamed) ==
    /\ call' = [u \in Callers |-> IF u = c THEN x
                                  ELSE IF call[u] # None /\ fs' # fs THEN [call[u] EXCEPT !.alone = FALSE]
                                  ELSE call[u]]
    /\ stream' = [u \in Callers |-> IF stream[u] # None /\ fs' # fs THEN Stayed(stream[u]) ELSE stream[u]]
    /\ astray' = astray \cup Touched(c, renamed)

Handles == <<desc, file, dir, closing, dropped>>

(* The call goes on with x, or returns.                                    *)
Continue(c, f, x) ==
    /\ fs' = f
    /\ Settle(c, x, FALSE)
    /\ Silent
    /\ UNCHANGED <<Handles, begun>>
Return(c, f, x, result) ==
    /\ fs' = f
    /\ Settle(c, None, FALSE)
    /\ answer' = Answer(c, result, 0, x.torn)
    /\ UNCHANGED <<Handles, begun>>

Begin(c, x) ==
    /\ call[c] = None
    /\ begun < MaxSteps
    /\ begun' = begun + 1
    /\ call' = [call EXCEPT ![c] = x]
    /\ Silent
    /\ UNCHANGED <<fs, Handles, stream, astray>>

(* File::open, File::open_at, Directory::open_file. *)
OpenFile(c) ==
    /\ file[c] = None
    /\ \/ \E o \in FileOpens :
            ~ IsDir(o[2]) /\ Begin(c, Call("file", Cwd, o[1], o[2], "open"))
       \/ \E o \in RelOpens :
            ~ IsDir(o[2]) /\ dir[c] # None /\ Begin(c, Call("file", desc[dir[c].d].ino, o[1], o[2], "open"))

(* File::open_sync, Directory::open_existing_sync: one system call, which  *)
(* makes no directory and cannot be given up.                              *)
CallOpenSync(c) ==
    \/ /\ file[c] = None
       /\ \E o \in FileOpens : Begin(c, Call("file", Cwd, o[1], o[2], "open_sync"))
    \/ /\ dir[c] = None
       /\ \E o \in DirOpens : Begin(c, Call("directory", Cwd, o[1], DirSettings(o[2]), "open_sync"))

RefuseOpen(c) ==
    /\ call[c] = None
    /\ \E o \in FileOpens \cup (IF dir[c] # None THEN RelOpens ELSE {}) : IsDir(o[2])
    /\ answer' = Answer(c, "InvalidFileOpenSettings", 0, FALSE)
    /\ UNCHANGED <<fs, Handles, stream, call, astray, begun>>

(* Directory::open makes the directory first, open_existing does not. *)
OpenDirectory(c) ==
    /\ dir[c] = None
    /\ \E o \in DirOpens :
         LET x == Call("directory", Cwd, o[1], DirSettings(o[2]), "mkdir")
         IN \/ \E m \in DirMakes : m[1] = o[1] /\
                Begin(c, [x EXCEPT !.goal = m[1], !.cur = m[1], !.settings.mode = m[2]])
            \/ Begin(c, [x EXCEPT !.step = "open", !.retried = TRUE])

MkdirRecursive(c) == \E m \in DirMakes :
    Begin(c, [Call("mkdir", Cwd, m[1], Settings({}, {}, m[2]), "mkdir") EXCEPT !.goal = m[1], !.cur = m[1]])

SetPath(c) == \E p \in NewPaths :
    /\ file[c] # None
    /\ fs.inodes[desc[file[c].d].ino].type = "FILE"
    /\ Begin(c, Call("rename", Cwd, p, None, "rename"))

ReadAll(c) ==
    /\ file[c] # None
    /\ fs.inodes[desc[file[c].d].ino].type = "FILE"
    /\ Begin(c, Call("read", Cwd, <<>>, None, "size"))

-----------------------------------------------------------------------------
(* The settings a directory is opened with are made after mkdir_recursive. *)
How(x) == IF x.op = "directory" THEN [x.settings EXCEPT !.mode = DoNotCreate] ELSE x.settings

(* as_uring_entry puts the address of its own OpenHow in the entry; when   *)
(* the kernel reads it the frame may be another open's, or anything.       *)
Opening(c) == call[c] # None /\ call[c].step = "open"
Frames(c) == {How(call[u]) : u \in {v \in Callers : Opening(v)}}
Kernel(x, how) ==
    CASE x.step \in {"open", "open_sync"} -> OpenAt2(fs, PlaceOf(fs, x.base), Place(fs, x), how)
      [] x.step = "mkdir" -> MkdirAt(fs, x.cur, ToDirectorySafe(x.settings.mode))

NewDescription(f, x, how) ==
    [ino |-> f.tree[Place(f, x)], access |-> how.access, read |-> FALSE, fds |-> 1]

Opened(c, x, f, how) ==
    /\ fs' = f
    /\ Settle(c, None, FALSE)
    /\ desc' = Append(desc, NewDescription(f, x, how))
    /\ LET d == Len(desc) + 1
       IN IF x.op = "file"
          THEN /\ file' = [file EXCEPT ![c] = [d |-> d, path |-> x.path, rel |-> x.base # Cwd]]
               /\ UNCHANGED dir
          ELSE /\ dir' = [dir EXCEPT ![c] = [d |-> d]]
               /\ UNCHANGED file
    /\ answer' = Answer(c, "Ok", 0, x.torn)
    /\ UNCHANGED <<closing, dropped, begun>>

OpenFails(c, x, error) ==
    IF error = "NotFound" /\ x.op = "file" /\ ~ x.retried /\ Creates(x.settings)
    THEN Continue(c, fs, [x EXCEPT !.step = "mkdir", !.goal = Parent(x.path), !.cur = Parent(x.path)])
    ELSE Return(c, fs, x, error)

Open(c) ==
    /\ Opening(c)
    /\ \/ \E how \in Frames(c) :
            LET x == [call[c] EXCEPT !.torn = (@ \/ how # How(call[c]))]
                r == Kernel(x, how)
            IN IF r.error = "Ok" THEN Opened(c, x, r.fs, how) ELSE OpenFails(c, x, r.error)
       \/ OpenFails(c, [call[c] EXCEPT !.torn = TRUE], "InvalidInput")

OpenSync(c) ==
    /\ call[c] # None
    /\ call[c].step = "open_sync"
    /\ LET x == call[c]
           r == Kernel(x, How(x))
       IN IF r.error = "Ok" THEN Opened(c, x, r.fs, How(x)) ELSE Return(c, fs, x, r.error)

(* mkdir said Ok to the directory at `cur`. *)
Made(c, f, x) ==
    IF x.cur # x.goal
    THEN Continue(c, f, [x EXCEPT !.cur = SubSeq(x.goal, 1, Len(x.cur) + 1), !.up = TRUE, !.step = "mkdir"])
    ELSE IF x.op = "mkdir" THEN Return(c, f, x, "Ok")
    ELSE Continue(c, f, [x EXCEPT !.step = "open", !.retried = TRUE])

(* mkdir says that something is missing: mkdir_recursive tries the parent. *)
MkdirFails(c, x, error) ==
    IF error = "NotFound" /\ ~ x.up /\ Len(x.cur) > 1
    THEN Continue(c, fs, [x EXCEPT !.cur = Parent(@), !.step = "mkdir"])
    ELSE Return(c, fs, x, error)

Mkdir(c) ==
    /\ call[c] # None
    /\ call[c].step = "mkdir"
    /\ LET x == call[c]
           r == Kernel(x, None)
       IN CASE r.error = "Ok" -> Made(c, r.fs, [x EXCEPT !.made = @ \cup {x.cur}])
            [] r.error = "AlreadyExists" -> Continue(c, fs, [x EXCEPT !.step = "stat"])
            [] OTHER -> MkdirFails(c, x, r.error)

Stat(c) ==
    /\ call[c] # None
    /\ call[c].step = "stat"
    /\ LET x == call[c]
           walk == Walk(fs, <<>>, x.cur)
           kind == Stats(Inode(fs, x.cur), TypeMask).descriptor_type
       IN CASE walk # "Ok" -> MkdirFails(c, x, walk)
            [] walk = "Ok" /\ ~ Exists(fs, x.cur) -> MkdirFails(c, x, "NotFound")
            [] walk = "Ok" /\ Exists(fs, x.cur) /\ kind = "DIRECTORY" -> Made(c, fs, x)
            [] OTHER -> Return(c, fs, x, IF kind = Unknown THEN "FailedToRetrieveDescriptorType" ELSE "NotADirectory")

(* Mutant: the File keeps its old path. *)
RenamedUntold(c, x) == UNCHANGED file

(* set_path: the File's path follows a rename that succeeded, also if it   *)
(* moved something else.                                                   *)
Renamed(c, x) == file' = [file EXCEPT ![c].path = x.path]

Rename(c) ==
    /\ call[c] # None
    /\ call[c].step = "rename"
    /\ LET x == call[c]
           r == RenameAt(fs, file[c].path, x.path)
       IN /\ fs' = r.fs
          /\ Settle(c, None, r.error = "Ok")
          /\ answer' = Answer(c, r.error, 0, FALSE)
          /\ IF r.error = "Ok" THEN Renamed(c, x) ELSE UNCHANGED file
    /\ UNCHANGED <<desc, dir, closing, dropped, begun>>

(* read_all: the size, then one read of as many bytes.  A buffer of no     *)
(* capacity grows when it is lent, to more than any file here holds.       *)
MeasureFile(c) ==
    /\ call[c] # None
    /\ call[c].step = "size"
    /\ Continue(c, fs, [call[c] EXCEPT !.step = "read",
                       !.size = Stats(fs.inodes[desc[file[c].d].ino], SizeMask).size])

ReadFile(c) ==
    /\ call[c] # None
    /\ call[c].step = "read"
    /\ LET x == call[c]
           d == desc[file[c].d]
           len == fs.inodes[d.ino].len
           bytes == IF x.size = 0 THEN len ELSE Min({len, x.size})
       IN /\ fs' = fs
          /\ Settle(c, None, FALSE)
          /\ answer' = IF "read" \in d.access THEN Answer(c, "Ok", bytes, FALSE)
                       ELSE Answer(c, "BadFileDescriptor", 0, FALSE)
    /\ UNCHANGED <<Handles, begun>>

(* The future of a call is dropped while its operation is under way: the   *)
(* kernel may do it all the same, and nobody is told.                      *)
Abandon(c) ==
    /\ call[c] # None
    /\ call[c].step # "open_sync"
    /\ LET x == call[c]
       IN \/ Continue(c, fs, None)
          \/ x.step = "mkdir" /\ Continue(c, Kernel(x, None).fs, None)
          \/ x.step = "rename" /\ Continue(c, RenameAt(fs, file[c].path, x.path).fs, None)
          \/ /\ x.step = "open"
             /\ \E how \in Frames(c) :
                  LET r == Kernel(x, how)
                  IN /\ r.error = "Ok"
                     /\ fs' = r.fs
                     /\ Settle(c, None, FALSE)
                     /\ desc' = Append(desc, NewDescription(r.fs, x, how))
             /\ dropped' = dropped \cup {Len(desc) + 1}
             /\ Silent
             /\ UNCHANGED <<file, dir, closing, begun>>

-----------------------------------------------------------------------------
(* Handles are clones of an Arc: the last one closes.  OwnedFdAsync sends  *)
(* the close to a worker, or closes at once if none takes it.              *)
Released(d) ==
    LET shared == \E u \in Callers : file'[u] # None /\ file'[u].d = d
    IN \/ shared /\ UNCHANGED <<desc, closing>>
       \/ ~ shared /\ closing' = closing \cup {d} /\ UNCHANGED desc
       \/ ~ shared /\ desc' = [desc EXCEPT ![d].fds = @ - 1] /\ UNCHANGED closing

DropFile(c) ==
    /\ file[c] # None
    /\ call[c] = None
    /\ file' = [file EXCEPT ![c] = None]
    /\ Released(file[c].d)
    /\ astray' = astray \ {c}
    /\ Silent
    /\ UNCHANGED <<fs, dir, stream, call, dropped, begun>>

DropDirectory(c) ==
    /\ dir[c] # None
    /\ call[c] = None
    /\ dir' = [dir EXCEPT ![c] = None]
    /\ UNCHANGED file
    /\ Released(dir[c].d)
    /\ Silent
    /\ UNCHANGED <<fs, stream, call, dropped, astray, begun>>

Close(d) ==
    /\ d \in closing
    /\ closing' = closing \ {d}
    /\ desc' = [desc EXCEPT ![d].fds = @ - 1]
    /\ Silent
    /\ UNCHANGED <<fs, file, dir, stream, call, dropped, astray, begun>>

(* #[derive(Clone)] on File. *)
CloneFile(c, u) ==
    /\ file[c] # None
    /\ file[u] = None
    /\ call[u] = None
    /\ file' = [file EXCEPT ![u] = file[c]]
    /\ astray' = IF c \in astray THEN astray \cup {u} ELSE astray
    /\ Silent
    /\ UNCHANGED <<fs, desc, dir, stream, call, closing, dropped, begun>>

-----------------------------------------------------------------------------
(* iter: a duplicate of the Directory's descriptor, with the same offset.  *)
IsListable(c) == dir[c] # None /\ fs.inodes[desc[dir[c].d].ino].type = "DIRECTORY"
Iter(c) ==
    /\ IsListable(c)
    /\ stream[c] = None
    /\ LET d == dir[c].d
       IN /\ desc' = [desc EXCEPT ![d].fds = @ + 1]
          /\ stream' = [stream EXCEPT ![c] = [d |-> d, filled |-> FALSE, buf |-> {}, told |-> {}, ended |-> FALSE,
                              late |-> FALSE, stayed |-> Entries(fs, PlaceOf(fs, desc[d].ino))]]
    /\ Silent
    /\ UNCHANGED <<fs, file, dir, call, closing, dropped, astray, begun>>

(* Mutant: the duplicate is not closed when fdopendir fails. *)
IterFailsUnclosed(c) ==
    /\ dir[c] # None
    /\ call[c] = None
    /\ stream[c] = None
    /\ answer' = Answer(c, "fdopendir", 0, FALSE)
    /\ desc' = [desc EXCEPT ![dir[c].d].fds = @ + 1]
    /\ UNCHANGED <<fs, file, dir, stream, call, closing, dropped, astray, begun>>

(* fdopendir fails (no memory, not a directory): the duplicate is closed.  *)
IterFails(c) ==
    /\ dir[c] # None
    /\ call[c] = None
    /\ stream[c] = None
    /\ answer' = Answer(c, "fdopendir", 0, FALSE)
    /\ UNCHANGED <<fs, desc, file, dir, stream, call, closing, dropped, astray, begun>>

(* readdir fills its buffer from the offset the descriptors share; the     *)
(* directories here fit in one.                                            *)
Filled(s) ==
    IF s.filled THEN s
    ELSE [s EXCEPT !.filled = TRUE, !.late = desc[s.d].read,
                   !.buf = IF desc[s.d].read THEN {} ELSE Entries(fs, PlaceOf(fs, desc[s.d].ino)) \cup Dots]

(* Mutant: an entry for the directory itself ends the iteration. *)
DotEnds(s) == s.buf \cap Dots # {}

AtEnd(s) == s.buf \ Dots = {}

NextEntry(c) ==
    /\ stream[c] # None
    /\ ~ stream[c].ended
    /\ LET s == Filled(stream[c])
       IN /\ desc' = [desc EXCEPT ![s.d].read = TRUE]
          /\ \/ /\ AtEnd(s)
                /\ stream' = [stream EXCEPT ![c] = [s EXCEPT !.ended = TRUE]]
             \/ \E n \in s.buf \ Dots :
                  stream' = [stream EXCEPT ![c] = [s EXCEPT !.buf = @ \ {n}, !.told = @ \cup {n}]]
    /\ Silent
    /\ UNCHANGED <<fs, file, dir, call, closing, dropped, astray, begun>>

DropStream(c) ==
    /\ stream[c] # None
    /\ desc' = [desc EXCEPT ![stream[c].d].fds = @ - 1]
    /\ stream' = [stream EXCEPT ![c] = None]
    /\ Silent
    /\ UNCHANGED <<fs, file, dir, call, closing, dropped, astray, begun>>

-----------------------------------------------------------------------------
(* Another program makes, writes or removes an entry. *)
Outsider(p) ==
    LET made == With(fs, p, [type |-> "FILE", perm |-> Private, len |-> 1])
    IN /\ begun < MaxSteps
       /\ begun' = begun + 1
       /\ \/ Walk(fs, <<>>, p) = "Ok" /\ ~ Exists(fs, p) /\ fs' \in
                {made, [made EXCEPT !.inodes[Len(made.inodes)] = [type |-> "DIRECTORY", perm |-> {"read"}, len |-> 0]]}
          \/ Exists(fs, p) /\ Entries(fs, p) = {} /\ fs' = Without(fs, p)
          \/ Exists(fs, p) /\ ~ IsDirectory(fs, p) /\ fs' = [fs EXCEPT !.inodes[fs.tree[p]].len = 1]
       /\ call' = [u \in Callers |-> IF call[u] # None THEN [call[u] EXCEPT !.alone = FALSE] ELSE None]
       /\ stream' = [u \in Callers |-> IF stream[u] # None THEN Stayed(stream[u]) ELSE None]
       /\ astray' = astray \cup {u \in Callers : file[u] # None /\ EntryOf(fs', file[u].path) # EntryOf(fs, file[u].path)}
       /\ Silent
       /\ UNCHANGED <<desc, file, dir, closing, dropped>>

Next ==
    \/ \E c \in Callers :
         \/ OpenFile(c) \/ CallOpenSync(c) \/ RefuseOpen(c) \/ OpenDirectory(c) \/ MkdirRecursive(c) \/ SetPath(c) \/ ReadAll(c)
         \/ Open(c) \/ OpenSync(c) \/ Mkdir(c) \/ Stat(c) \/ Rename(c) \/ MeasureFile(c) \/ ReadFile(c) \/ Abandon(c)
         \/ DropFile(c) \/ DropDirectory(c) \/ \E u \in Callers : CloneFile(c, u)
         \/ Iter(c) \/ IterFails(c) \/ NextEntry(c) \/ DropStream(c)
    \/ \E d \in closing : Close(d)
    \/ \E p \in {o[1] : o \in FileOpens \cup DirMakes} : Outsider(p)

Spec == Init /\ [][Next]_vars

-----------------------------------------------------------------------------
(* Someone else's entry on the way to `path` that nothing can be made in. *)
Obstructed(f, base, path, made) ==
    \E k \in Len(base) .. Len(path) - 1 :
        LET p == SubSeq(path, 1, k)
        IN /\ Exists(f, p)
           /\ p \notin made
           /\ ~ (IsDirectory(f, p) /\ {"write", "execute"} \subseteq Inode(f, p).perm)
Adequate(mode) == "write" \in mode /\ {"read", "execute"} \cap mode # {}

(* What a call that fails may blame when nobody changed the tree meanwhile *)
(* and the kernel read the settings it was given; f is the tree it leaves. *)
Excused(c, x, f) ==
    LET place == Place(f, x)
        thing == Exists(f, place) /\ place \notin x.made
        creates == x.settings # None /\ Creates(x.settings)
    IN \/ Obstructed(f, PlaceOf(f, x.base), place, x.made)
       \/ creates /\ (thing \/ ~ Adequate(x.settings.mode))
       \/ x.op = "file" /\ (~ creates \/ x.base # Cwd)
       \/ x.step = "open_sync" /\ ~ Exists(f, Parent(place))
       \/ x.op = "directory" /\ (~ creates \/ "TRUNCATE" \in x.settings.flags)
       \/ /\ x.op = "rename"
          /\ \/ file[c].rel \/ c \in astray
             \/ Obstructed(f, <<>>, file[c].path, {})
             \/ ~ Exists(f, Parent(place)) \/ IsDirectory(f, place)
       \/ x.op = "read" /\ "read" \notin desc[file[c].d].access

(* What a call that succeeds has done. *)
Fulfilled(c, x, f) ==
    CASE x.op = "file"      -> EntryOf(f, Place(f, x)) = desc'[file'[c].d].ino
      [] x.op = "directory" -> EntryOf(f, x.path) = desc'[dir'[c].d].ino /\ IsDirectory(f, x.path)
      [] x.op = "mkdir"     -> IsDirectory(f, x.path)
      [] x.op = "rename"    -> file[c].rel \/ c \in astray \/ EntryOf(f, x.path) = desc[file[c].d].ino
      [] x.op = "read"      -> answer'.bytes = f.inodes[desc[file[c].d].ino].len

(* A call nobody disturbs does what it is for: File::open makes the        *)
(* directories it needs and opens that very file, mkdir_recursive makes    *)
(* the whole path, read_all tells every byte.  It fails only over entries  *)
(* that were in the way, over a directory that was there already (mkdir    *)
(* asks for too small a statx mask to recognise it), TRUNCATE on a         *)
(* directory (to_dir_safe keeps it), a mode that locks its owner out of    *)
(* the directories made, or below a Directory, where the missing ones are  *)
(* made in the current directory instead (file.rs open_at).                *)
UndisturbedCallsSucceed ==
    [][\A c \in Callers :
         LET x == call[c]
         IN x # None /\ answer'.to = c /\ x.alone /\ ~ answer'.torn
            => IF answer'.result = "Ok" THEN Fulfilled(c, x, fs') ELSE Excused(c, x, fs')]_vars

(* A File's path names the file it has open until another step touches     *)
(* that entry (a clone's set_path, a dropped set_path, another program),   *)
(* unless it was opened below a Directory: set_path goes by the path.      *)
PathNamesFile ==
    \A c \in Callers : file[c] # None /\ ~ file[c].rel /\ c \notin astray
        => EntryOf(fs, file[c].path) = desc[file[c].d].ino

(* An iteration tells every entry that stayed, unless an earlier one of    *)
(* the same Directory has read it all: the duplicates share one offset     *)
(* (Directory::iter).                                                      *)
IterationsTellAll ==
    \A c \in Callers : stream[c] # None /\ stream[c].ended
        => stream[c].late \/ stream[c].stayed \subseteq stream[c].told

(* Every descriptor belongs to handles, a stream or a close on its way, or *)
(* was opened for a future that was dropped: that one nobody closes.       *)
Owners(d) ==
    (IF \E c \in Callers : d \in {h.d : h \in {file[c], dir[c]} \ {None}} THEN 1 ELSE 0)
    + Cardinality({c \in Callers : stream[c] # None /\ stream[c].d = d})
    + Cardinality({d} \cap closing) + Cardinality({d} \cap dropped)
DescriptorsAccounted == \A d \in 1 .. Len(desc) : desc[d].fds = Owners(d)
=============================================================================
