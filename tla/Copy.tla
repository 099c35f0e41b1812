------------------------------- MODULE Copy -------------------------------
(***************************************************************************)
(* Copying files and directories: copy_file, copy_remote_file, scp_send    *)
(* and scp_recv of pssh/clients/native/single.py, with the recursion over  *)
(* directories of pssh/clients/base/single.py.  Several copies run in      *)
(* greenlets of their own and may have the same target: the host of a      *)
(* client used twice, or the local directory that all hosts copy to.       *)
(*                                                                         *)
(* A path is the sequence of its names; the source is named by the paths   *)
(* it gets in the target.  Every call on the session lets others run.      *)
(***************************************************************************)
EXTENDS Integers, SequencesExt

CONSTANTS Copier,   \* greenlets that copy
          Dirs,     \* directories of the source
          Files,    \* files of the source
          Size,     \* how many pieces each file has
          Roots,    \* what a copy may be of
          Given     \* what a copy may be given as recurse

Paths == Dirs \union Files

ASSUME CopyAssumption ==
    /\ \A p \in Paths : p # <<>> /\ p \in Seq(ToSet(p))
    /\ Dirs \intersect Files = {} /\ Roots \subseteq Paths
    \* What is below a root is in directories of the source.
    /\ \A r \in Roots, p \in Paths : \A n \in Len(r) .. Len(p) - 1 :
          IsPrefix(r, p) => SubSeq(p, 1, n) \in Dirs
    /\ Size \in [Files -> Nat] /\ Given \subseteq {"no", "yes", "dict of no"}

VARIABLES
    kind,    \* what each copy does
    recurse, \* the argument of that name
    relative,\* whether its local path is a relative one
    root,    \* what it copies
    dirs,    \* directories of the target
    files,   \* files of the target and the pieces they have
    pc,      \* where each copy is
    at,      \* what it is copying
    todo,    \* what it has listed and not copied
    make,    \* the directories mkdir has yet to look at
    put,     \* pieces of the file it has written
    made     \* history: the directories each copy has made by mkdir

vars == <<kind, recurse, relative, root, dirs, files, pc, at, todo, make, put, made>>
asked == <<kind, recurse, relative, root>>

Puts == {"copy_file", "scp_send"}
Gets == {"copy_remote_file", "scp_recv"}

\* How a copy may fail: a call fails, the file it is at is cut off, mkdir finds that the
\* directory is there by now or that its parent is not, and ValueError without recurse.
Errors == {"failed", "cut", "exists", "no directory", "not recursive"}
Ends == Errors \union {"done"}

\* The parallel copy_file passes on {'recurse': recurse}, which is true whatever it says.
Recurses(c) == recurse[c] # "no"

\* A file or directory with a parent, "/" or the working directory if it has one name.
HasParent(p, in) == Len(p) = 1 \/ Front(p) \in in

Ancestors(p) == {SubSeq(p, 1, i) : i \in 1 .. Len(p)}

\* Mutant of Components: the parents of a directory are taken to be there.
LastComponent(p) == <<p>>

Components(p) == [i \in 1 .. Len(p) |-> SubSeq(p, 1, i)]

\* Mutant of Children: directories in a directory are left out.
FilesOnly(p) == {q \in Files : Len(q) = Len(p) + 1 /\ Front(q) = p}

Children(p) == {q \in Paths : Len(q) = Len(p) + 1 /\ Front(q) = p}

\* Recursion is depth first, and a listing comes in any order.
NextUp(c) == {p \in todo[c] : \A q \in todo[c] : Len(q) <= Len(p)}

\* Mutant of Remaining: what is being copied stays on the list.
AllOfIt(c, p) == todo[c]

Remaining(c, p) == todo[c] \ {p}

\* What is in the source from p on.
Below(p) == {q \in Paths : IsPrefix(p, q)}

AboveRoots == UNION {Ancestors(Front(r)) : r \in Roots}

Init ==
    /\ kind \in [Copier -> Puts] \union [Copier -> Gets]
    /\ root \in [Copier -> Roots]
    /\ recurse \in {r \in [Copier -> Given] :
                      \A c \in Copier : r[c] = "dict of no" => kind[c] = "copy_file"}
    /\ relative \in {r \in [Copier -> BOOLEAN] : \A c \in Copier : r[c] => kind[c] \in Gets}
    /\ dirs \in {{}, AboveRoots} /\ files = <<>>
    /\ pc = [c \in Copier |-> "next"] /\ at = root
    /\ todo = [c \in Copier |-> {root[c]}]
    /\ make = [c \in Copier |-> <<>>] /\ put = [c \in Copier |-> 0]
    /\ made = [c \in Copier |-> {}]
-----------------------------------------------------------------------------
Goes(c, l) == pc' = [pc EXCEPT ![c] = l]

Takes(c, p) == pc[c] = "next" /\ p \in NextUp(c) /\ at' = [at EXCEPT ![c] = p]

\* A directory without recurse: ValueError, or what scp says to a directory.
RefuseDir(c, p) ==
    /\ Takes(c, p) /\ p \in Dirs /\ ~Recurses(c)
    /\ Goes(c, IF kind[c] = "scp_recv" THEN "failed" ELSE "not recursive")
    /\ UNCHANGED <<asked, dirs, files, todo, make, put, made>>

\* A directory is followed by its children.
Descends(c, p) ==
    /\ Takes(c, p) /\ p \in Dirs /\ Recurses(c)
    /\ todo' = [todo EXCEPT ![c] = Remaining(c, p) \union Children(p)]
    /\ UNCHANGED <<asked, files, put, made>>

\* copy_file makes it by mkdir.
CopyDir(c, p) ==
    /\ kind[c] = "copy_file" /\ Descends(c, p)
    /\ Goes(c, "stat") /\ make' = [make EXCEPT ![c] = Components(p)]
    /\ UNCHANGED dirs

\* scp_recv makes it by os.makedirs.
RecvDir(c, p) ==
    /\ kind[c] = "scp_recv" /\ Descends(c, p)
    /\ dirs' = dirs \union Ancestors(p)
    /\ UNCHANGED <<pc, make>>

\* The other two leave it to the files in it.
ListDir(c, p) ==
    /\ kind[c] \in {"scp_send", "copy_remote_file"} /\ Descends(c, p)
    /\ UNCHANGED <<dirs, pc, make>>

\* Mutant of AsksForParent: a file asks for its directory as recursion over one does not.
AsksNever(c, p) == FALSE

AsksForParent(c, p) == Len(p) > 1 /\ (kind[c] = "copy_file" \/ Recurses(c))

\* A file to the host: a look for its directory, which is to be made if that fails.
ToHost(c, p) ==
    /\ Takes(c, p) /\ p \in Files
    /\ todo' = [todo EXCEPT ![c] = Remaining(c, p)]
    /\ IF AsksForParent(c, p) /\ ~HasParent(p, dirs)
       THEN Goes(c, "stat") /\ make' = [make EXCEPT ![c] = Components(Front(p))]
       ELSE Goes(c, "open") /\ UNCHANGED make
    /\ UNCHANGED <<asked, dirs, files, put, made>>

PutFile(c, p) == kind[c] = "copy_file" /\ ToHost(c, p)

SendFile(c, p) == kind[c] = "scp_send" /\ ToHost(c, p)

\* A file from the host: _make_local_dir takes every local path for an absolute one.
FromHost(c, p) ==
    /\ Takes(c, p) /\ p \in Files
    /\ todo' = [todo EXCEPT ![c] = Remaining(c, p)] /\ Goes(c, "open")
    /\ dirs' = dirs \union (IF relative[c] THEN {} ELSE Ancestors(Front(p)))
    /\ UNCHANGED <<asked, files, make, put, made>>

GetFile(c, p) == kind[c] = "copy_remote_file" /\ FromHost(c, p)

RecvFile(c, p) == kind[c] = "scp_recv" /\ FromHost(c, p)

\* mkdir has looked at the next component or made it.
Made(c) ==
    /\ make' = [make EXCEPT ![c] = Tail(make[c])]
    /\ Goes(c, IF Len(make[c]) > 1 THEN "stat" ELSE IF at[c] \in Dirs THEN "next" ELSE "open")

StatDir(c) ==
    /\ pc[c] = "stat"
    /\ IF Head(make[c]) \in dirs THEN Made(c) ELSE Goes(c, "mkdir") /\ UNCHANGED make
    /\ UNCHANGED <<asked, dirs, files, at, todo, put, made>>

MakeDir(c) ==
    LET d == Head(make[c]) IN
    /\ pc[c] = "mkdir" /\ d \notin dirs /\ HasParent(d, dirs)
    /\ dirs' = dirs \union {d} /\ made' = [made EXCEPT ![c] = @ \union {d}] /\ Made(c)
    /\ UNCHANGED <<asked, files, at, todo, put>>

\* _mkdir fails, and raises: the directory has been made since stat, or cannot be.
MakeDirFails(c) ==
    LET d == Head(make[c]) IN
    /\ pc[c] = "mkdir"
    /\ \/ d \in dirs /\ Goes(c, "exists")
       \/ ~HasParent(d, dirs) /\ Goes(c, "no directory")
    /\ UNCHANGED <<asked, dirs, files, at, todo, make, put, made>>

\* The file is opened and truncated, which is up to the program there with scp_send.
Open(c) ==
    LET f == at[c] IN
    /\ pc[c] = "open" /\ HasParent(f, dirs)
    /\ \E kept \in {{}} \union {files[g] : g \in {f} \intersect DOMAIN files} :
        /\ kept # {} => kind[c] = "scp_send"
        /\ files' = [g \in DOMAIN files \union {f} |-> IF g = f THEN kept ELSE files[g]]
    /\ put' = [put EXCEPT ![c] = 0] /\ Goes(c, "write")
    /\ UNCHANGED <<asked, dirs, at, todo, make, made>>

NoDirectory(c) ==
    /\ pc[c] = "open" /\ ~HasParent(at[c], dirs) /\ Goes(c, "no directory")
    /\ UNCHANGED <<asked, dirs, files, at, todo, make, put, made>>

Write(c) ==
    /\ pc[c] = "write" /\ put[c] < Size[at[c]]
    /\ files' = [files EXCEPT ![at[c]] = @ \union {put[c] + 1}]
    /\ put' = [put EXCEPT ![c] = @ + 1]
    /\ UNCHANGED <<asked, dirs, pc, at, todo, make, made>>

\* Mutant of AllWritten: a read that comes back short is taken for the end of the file.
SomeWritten(c) == put[c] > 0 \/ Size[at[c]] = 0

AllWritten(c) == put[c] = Size[at[c]]

Close(c) ==
    /\ pc[c] = "write" /\ AllWritten(c) /\ Goes(c, "next")
    /\ UNCHANGED <<asked, dirs, files, at, todo, make, put, made>>

Return(c) ==
    /\ pc[c] = "next" /\ todo[c] = {} /\ Goes(c, "done")
    /\ UNCHANGED <<asked, dirs, files, at, todo, make, put, made>>

\* Any call may fail and end the copy; what it has made and written stays.
Fail(c) ==
    /\ pc[c] \in {"stat", "mkdir", "open", "write"} \/ (pc[c] = "next" /\ todo[c] # {})
    /\ Goes(c, IF pc[c] = "write" THEN "cut" ELSE "failed")
    /\ UNCHANGED <<asked, dirs, files, at, todo, make, put, made>>

\* The loop of _scp_recv counts bytes: a channel that ends before the size it was given
\* reads as nothing for ever.
Spin(c) ==
    /\ kind[c] = "scp_recv" /\ pc[c] = "write" /\ put[c] < Size[at[c]] /\ Goes(c, "spin")
    /\ UNCHANGED <<asked, dirs, files, at, todo, make, put, made>>

Step(c) ==
    \/ \E p \in todo[c] :
          \/ RefuseDir(c, p) \/ CopyDir(c, p) \/ RecvDir(c, p) \/ ListDir(c, p)
          \/ PutFile(c, p) \/ SendFile(c, p) \/ GetFile(c, p) \/ RecvFile(c, p)
    \/ StatDir(c) \/ MakeDir(c) \/ MakeDirFails(c)
    \/ Open(c) \/ NoDirectory(c) \/ Write(c) \/ Close(c) \/ Return(c)

Next == \E c \in Copier : Step(c) \/ Fail(c) \/ Spin(c)

\* The host answers each call, or the session fails.
Spec == Init /\ [][Next]_vars /\ \A c \in Copier : WF_vars(Step(c))
-----------------------------------------------------------------------------
TypeOK ==
    /\ dirs \subseteq AboveRoots \union Dirs /\ DOMAIN files \subseteq Files
    /\ \A f \in DOMAIN files : files[f] \subseteq 1 .. Size[f] /\ HasParent(f, dirs)
    /\ \A c \in Copier :
        /\ pc[c] \in {"next", "stat", "mkdir", "open", "write", "spin"} \union Ends
        /\ at[c] \in Paths /\ todo[c] \subseteq Paths /\ made[c] \subseteq dirs
        /\ pc[c] \in {"stat", "mkdir"} => make[c] # <<>>
        /\ pc[c] = "write" => at[c] \in DOMAIN files /\ put[c] <= Size[at[c]]

Complete(f) == f \in DOMAIN files /\ files[f] = 1 .. Size[f]

\* A copy that fails half-way leaves whole files only, but for the one it was cut off at;
\* a file is also not whole while a copy is writing it.
OnlyCutFilesPartial ==
    \A f \in DOMAIN files : ~Complete(f) =>
        \E c \in Copier : at[c] = f /\ pc[c] \in {"write", "spin", "cut"}

\* mkdir makes every directory that is missing, so that none is missing for a file, but
\* with scp_send, which makes none unless it recurses, and with a relative local path.
NoDirectoryMissing ==
    \A c \in Copier :
        pc[c] = "no directory" => relative[c] \/ (kind[c] = "scp_send" /\ ~Recurses(c))

\* mkdir fails because a directory exists only if another copy has made it meanwhile.
ExistsByOther ==
    \A c \in Copier : pc[c] = "exists" => \E d \in Copier \ {c} : Head(make[c]) \in made[d]

Inv == TypeOK /\ OnlyCutFilesPartial /\ NoDirectoryMissing /\ ExistsByOther

\* A copy that returns has copied every file, at any depth; directories too with copy_file
\* and scp_recv, while the other two leave out those without a file below them.  Copies to
\* one target do not undo each other's, if none is cut off.
CopyComplete ==
    \A c \in Copier : pc[c] = "done" =>
        /\ Below(root[c]) \intersect Files \subseteq DOMAIN files
        /\ (\A d \in Copier : pc[d] \in {"next", "done"}) =>
            \A f \in Below(root[c]) \intersect Files : Complete(f)
        /\ kind[c] \in {"copy_file", "scp_recv"} => Below(root[c]) \intersect Dirs \subseteq dirs

\* A directory is copied only if recursion was asked for: "ValueError when a directory is
\* supplied to local_file and recurse is not set" (copy_file of the parallel client).
RecursesOnlyIfAsked ==
    \A c \in Copier : pc[c] = "done" /\ root[c] \in Dirs => recurse[c] = "yes"

\* Every copy ends, however its calls interleave with those of another, unless the channel
\* of an scp_recv ends before the file does.
CopyEnds == \A c \in Copier : <>(pc[c] \in Ends \union {"spin"})
=============================================================================
