----------------------------- MODULE FileSystem -----------------------------
(***************************************************************************)
(* The settings and masks of cl_async's file operations (open_at.rs,       *)
(* statx.rs, stats.rs), and what the kernel does with them to a tree of    *)
(* files, as far as the callers can tell.                                  *)
(*                                                                         *)
(* A path is a sequence of names; << >> is the empty path, and the place   *)
(* of the current directory.  A file system is a tree, from the places     *)
(* that exist to inode numbers, and the inodes.  Only the permissions of   *)
(* the owner are modelled: the program owns what it touches and is not     *)
(* privileged.  There are no links.                                        *)
(***************************************************************************)
EXTENDS Naturals, Sequences, FiniteSets, FiniteSetsExt, SequencesExt, TLC

(* IoFileSystemMode: the owner's permissions. *)
Private        == {"read", "write"}
PrivateReadOnly == {"read"}

(* Mutant: a directory gets the mode of its file. *)
KeepMode(mode) == mode

ToDirectorySafe(mode) == IF "read" \in mode THEN mode \cup {"execute"} ELSE mode

(* IoFileCreateMode. *)
DoNotCreate == {"DoNotCreate"}

(* `self | DIRECTORY & !TRUNCATE`: & binds tighter, TRUNCATE stays. *)
ToDirSafe(flags) == flags \cup ({"DIRECTORY"} \ {"TRUNCATE"})

Settings(access, flags, mode) == [access |-> access, flags |-> flags, mode |-> mode]
DirSettings(flags) == Settings({"read"}, ToDirSafe(flags), DoNotCreate)
IsDir(settings) == "DIRECTORY" \in settings.flags
Creates(settings) == settings.mode # DoNotCreate

(* IoStatxMask and Stats::new: a field is there if the mask that was asked *)
(* for contains all the bits it needs.                                     *)
TypeMask == {"TYPE"}
SizeMask == {"SIZE"}
TypeOrMode == {"TYPE", "MODE"}
Unknown == "None"
Stats(inode, mask) ==
    [descriptor_type |-> IF TypeOrMode \subseteq mask THEN inode.type ELSE Unknown,
     size |-> IF SizeMask \subseteq mask THEN inode.len ELSE 0]

-----------------------------------------------------------------------------
(* The kernel's side. *)
Cwd == 1
Inode(fs, place) == fs.inodes[fs.tree[place]]
Exists(fs, place) == place \in DOMAIN fs.tree
IsDirectory(fs, place) == Exists(fs, place) /\ Inode(fs, place).type = "DIRECTORY"
Parent(path) == SubSeq(path, 1, Len(path) - 1)
Entries(fs, place) ==
    {Last(p) : p \in {q \in DOMAIN fs.tree : q # <<>> /\ Parent(q) = place}}

(* Where a directory is; it may have been removed while it is open. *)
Removed == <<"removed">>
PlaceOf(fs, ino) == IF \E p \in DOMAIN fs.tree : fs.tree[p] = ino
                    THEN CHOOSE p \in DOMAIN fs.tree : fs.tree[p] = ino
                    ELSE Removed

(* The error met between the directory `base` and the last name of `place`. *)
StepError(fs, place) ==
    CASE ~ Exists(fs, place) -> "NotFound"
      [] Exists(fs, place) /\ ~ IsDirectory(fs, place) -> "NotADirectory"
      [] IsDirectory(fs, place) /\ "execute" \notin Inode(fs, place).perm -> "PermissionDenied"
      [] OTHER -> "Ok"
Walk(fs, base, place) ==
    LET bad == {k \in Len(base) .. Len(place) - 1 : StepError(fs, SubSeq(place, 1, k)) # "Ok"}
    IN IF base = place THEN "NotFound"
       ELSE IF bad = {} THEN "Ok"
       ELSE StepError(fs, SubSeq(place, 1, Min(bad)))
MayWrite(fs, place) == "write" \in Inode(fs, place).perm

Put(tree, place, ino) ==
    [p \in {place} \cup DOMAIN tree |-> IF p = place THEN ino ELSE tree[p]]
With(fs, place, inode) ==
    [tree |-> Put(fs.tree, place, Len(fs.inodes) + 1), inodes |-> Append(fs.inodes, inode)]
Without(fs, place) ==
    [fs EXCEPT !.tree = [p \in DOMAIN fs.tree \ {place} |-> fs.tree[p]]]
Failed(fs, error) == [error |-> error, fs |-> fs]
Done(fs) == [error |-> "Ok", fs |-> fs]

MkdirAt(fs, place, mode) ==
    LET walk == Walk(fs, <<>>, place) IN
    CASE walk # "Ok" -> Failed(fs, walk)
      [] walk = "Ok" /\ Exists(fs, place) -> Failed(fs, "AlreadyExists")
      [] walk = "Ok" /\ ~ Exists(fs, place) /\ ~ MayWrite(fs, Parent(place)) -> Failed(fs, "PermissionDenied")
      [] OTHER -> Done(With(fs, place, [type |-> "DIRECTORY", perm |-> mode, len |-> 0]))

OpenExisting(fs, place, how) ==
    LET wanted == how.access \cup (IF "TRUNCATE" \in how.flags THEN {"write"} ELSE {})
        directory == IsDirectory(fs, place)
    IN CASE Creates(how) /\ "EXCLUSIVE" \in how.flags -> Failed(fs, "AlreadyExists")
         [] directory /\ (Creates(how) \/ "write" \in wanted) -> Failed(fs, "IsADirectory")
         [] ~ directory /\ IsDir(how) -> Failed(fs, "NotADirectory")
         [] ~ wanted \subseteq Inode(fs, place).perm -> Failed(fs, "PermissionDenied")
         [] OTHER -> Done(IF "TRUNCATE" \in how.flags
                          THEN [fs EXCEPT !.inodes[fs.tree[place]].len = 0] ELSE fs)

OpenAt2(fs, base, place, how) ==
    LET walk == IF base = Removed THEN "NotFound" ELSE Walk(fs, base, place)
        new == walk = "Ok" /\ ~ Exists(fs, place)
    IN IF IsDir(how) /\ Creates(how) THEN Failed(fs, "InvalidInput")
       ELSE CASE walk # "Ok" -> Failed(fs, walk)
              [] walk = "Ok" /\ Exists(fs, place) -> OpenExisting(fs, place, how)
              [] new /\ ~ Creates(how) -> Failed(fs, "NotFound")
              [] new /\ Creates(how) /\ ~ MayWrite(fs, Parent(place)) -> Failed(fs, "PermissionDenied")
              [] OTHER -> Done(With(fs, place, [type |-> "FILE", perm |-> how.mode, len |-> 0]))

(* renameat of a regular file. *)
RenameAt(fs, old, new) ==
    LET walks == {Walk(fs, <<>>, old), Walk(fs, <<>>, new)} \ {"Ok"}
        may == MayWrite(fs, Parent(old)) /\ MayWrite(fs, Parent(new))
    IN IF walks # {} THEN Failed(fs, CHOOSE e \in walks : TRUE)
       ELSE CASE ~ Exists(fs, old) -> Failed(fs, "NotFound")
              [] Exists(fs, old) /\ ~ may -> Failed(fs, "PermissionDenied")
              [] Exists(fs, old) /\ may /\ IsDirectory(fs, new) -> Failed(fs, "IsADirectory")
              [] OTHER -> Done([fs EXCEPT !.tree = Put(Without(fs, old).tree, new, fs.tree[old])])
=============================================================================
