------------------------------- MODULE Session -------------------------------
(***************************************************************************)
(* What libc gives a program and what it hands to the programs it starts:  *)
(* the file tree of the initial ramdisk, the working directory, the        *)
(* environment and argv (libc/vfs.cpp, globalstate.*, getenv.cpp,          *)
(* chdir.cpp, exec.cpp, startparams.cpp, __libc_start_main.cpp).           *)
(*                                                                         *)
(* Processes share none of this, so the model follows one line of descent: *)
(* a program, then the child it started, while the parent goes on between  *)
(* exec and the child's start.                                             *)
(*                                                                         *)
(* A path is the sequence of its parts between slashes: "/bin" is          *)
(* <<"", "bin">>, "./bin/" is <<".", "bin", "">>, "/" is <<"", "">> and    *)
(* the empty string <<"">>.  A value in the environment is a sequence of   *)
(* paths, what lies between colons.  A node of the tree is the sequence of *)
(* names from the root, which is <<>>.  Paths have no white space in them. *)
(***************************************************************************)
EXTENDS Integers, Sequences, Functions

CONSTANTS
    Archives,       \* the ramdisks: sets of entries [path, type, size]
    Inputs,         \* the paths programs pass to chdir and execv
    Settings,       \* what programs pass to setenv: [key, val]
    Environments,   \* what programs pass to execve: sequences of settings
    Argvs,          \* what programs pass to execv: sequences of [arg, size]
    Addresses,      \* where malloc may put the child's copy of argv
    PageSize        \* syscall::PageSize()

IsEmpty(p) == p = <<"">>
IsAbsPath(p) == p[1] = "" /\ ~IsEmpty(p)
Root == <<"", "">>
OnlySlashes(p) == Len(p) > 2 /\ Range(p) = {""}

Prefixes(s) == {SubSeq(s, 1, n) : n \in 0 .. Len(s)}
IsPrefix(s, t) == s \in Prefixes(t)
IsStrictPrefix(s, t) == s \in Prefixes(t) \ {t}

(* The names in a path. *)
Names(path) ==
    LET names[i \in 0 .. Len(path)] ==
            IF i = 0 THEN <<>>
            ELSE IF path[i] \in {"", "."} THEN names[i - 1]
            ELSE Append(names[i - 1], path[i])
    IN  names[Len(path)]

Path == Seq(STRING) \ {<<>>}
Var == [key : STRING, val : Seq(Path) \ {<<>>}]

(* CleanPath reads before the start of a path of several slashes only, which
   programs do not pass. A colon in PWD is part of a name, so PWD is one path. *)
ASSUME SessionAssumption ==
    /\ Inputs \subseteq Path /\ \A p \in Inputs : ~OnlySlashes(p)
    /\ Settings \subseteq Var
    /\ \A s \in Settings : s.key = "PWD" => Len(s.val) = 1
    /\ Environments \subseteq Seq(Settings)
    /\ Argvs \subseteq Seq([arg : STRING, size : Nat])
    /\ Addresses \subseteq Nat /\ \A addr \in Addresses : addr % 4 = 0
    /\ PageSize \in Nat

(* What tar makes of a directory it is given as ".": each of its directories, with
   a slash at the end, and files once, and nothing below a file.  Paths have at most
   100 characters, so that the prefix of an entry, which FullPath joins to its name
   without a slash, is empty. *)
IsArchive(a) ==
    /\ a \subseteq [path : Path, type : {"dir", "file"}, size : Nat]
    /\ \A e \in a :
        /\ Len(e.path) >= 2 /\ e.path[1] = "." /\ e.path[Len(e.path)] # "."
        /\ \A i \in 2 .. Len(e.path) - 1 : e.path[i] \notin {"", "."}
        /\ e.path[Len(e.path)] = "" => e.type = "dir"
    /\ \A e, f \in a :
        /\ Names(e.path) = Names(f.path) => e = f
        /\ e.type = "file" => ~IsStrictPrefix(Names(e.path), Names(f.path))
ASSUME ArchiveAssumption == \A a \in Archives : IsArchive(a)

VARIABLES
    archive,    \* the entries of the ramdisk
    left,       \* those that InitVFS has still to read
    tree,       \* gGlobalFs: node |-> "dir" or "file"; every program builds
                \* it from the same bytes, the model does it once
    status,     \* of the program: see Statuses
    cwd,        \* gCurrentDir
    env,        \* gEnvp: a sequence of [key, val]
    environ,    \* the plain copy in gPlainEnv
    child       \* what the channel of a started child holds, at most one

vars == <<archive, left, tree, status, cwd, env, environ, child>>

(* loop: inside PathEnvIterator for ever; ended: returned, or a failed assert. *)
Statuses == {"none", "running", "loop", "ended"}

-----------------------------------------------------------------------------
(* Envp. *)

HasVal(e, key) == \E i \in DOMAIN e : e[i].key = key
FirstWith(e, key) ==
    CHOOSE i \in DOMAIN e : e[i].key = key /\ \A j \in 1 .. i - 1 : e[j].key # key
getVal(e, key) == e[FirstWith(e, key)].val
setVal(e, key, val) ==
    IF HasVal(e, key) THEN [e EXCEPT ![FirstWith(e, key)].val = val]
    ELSE Append(e, [key |-> key, val |-> val])

(* A buffer is a sequence of data, each with its length in front. *)
Pack(e) ==
    [i \in 1 .. 2 * Len(e) |-> IF i % 2 = 1 THEN e[(i + 1) \div 2].key ELSE e[i \div 2].val]
Unpack(buffer) ==
    LET unpacked[i \in 0 .. Len(buffer) \div 2] ==
            IF i = 0 THEN <<>>
            ELSE setVal(unpacked[i - 1], buffer[2 * i - 1], buffer[2 * i])
    IN  unpacked[Len(buffer) \div 2]

(* UnpackEnvp, for entries of the form KEY=VAL. *)
UnpackEnvp(envp) ==
    LET unpacked[i \in 0 .. Len(envp)] ==
            IF i = 0 THEN <<>> ELSE setVal(unpacked[i - 1], envp[i].key, envp[i].val)
    IN  unpacked[Len(envp)]

-----------------------------------------------------------------------------

(* CleanPath: a leading "./" and the slashes at the end are removed. *)
MutCleanPathKeepsSlash(p) == IF Len(p) >= 2 /\ p[1] = "." THEN Tail(p) ELSE p
CleanPath(p) ==
    LET q == IF Len(p) >= 2 /\ p[1] = "." THEN Tail(p) ELSE p
    IN  IF q = Root THEN q
        ELSE SubSeq(q, 1, CHOOSE i \in DOMAIN q :
                            /\ i = 1 \/ q[i] # ""
                            /\ \A j \in i + 1 .. Len(q) : q[j] = "")

(* The outcome of a search: the node found and its type, or "none" for nullptr,
   "trap" for a failed assert and "loop" if the search does not end. *)
Found(n) == [type |-> tree[n], node |-> n]
Fails(why) == [type |-> why, node |-> <<>>]

(* GetNodeFromRelPathImpl goes down the tree one part at a time and asserts
   that what is left of the path is not empty and has no slash in front. *)
GetNodeFromRelPathImpl(p, dir) ==
    LET Reached(i) == /\ dir \o SubSeq(p, 1, i - 1) \in DOMAIN tree
                      /\ tree[dir \o SubSeq(p, 1, i - 1)] = "dir"
    IN  IF \E i \in DOMAIN p : p[i] = "" /\ Reached(i) THEN Fails("trap")
        ELSE IF dir \o p \in DOMAIN tree THEN Found(dir \o p)
        ELSE Fails("none")

GetNodeFromAbsPath(p) ==
    LET clean == CleanPath(p)
    IN  IF clean = Root THEN Found(<<>>)
        ELSE GetNodeFromRelPathImpl(CleanPath(Tail(clean)), <<>>)

(* GetNodeFromPathImpl without the search of PATH. *)
GetNodeFromPathImpl(p, wd) ==
    IF IsEmpty(p) THEN Fails("none")
    ELSE IF IsAbsPath(p) THEN GetNodeFromAbsPath(p)
    ELSE GetNodeFromRelPathImpl(CleanPath(p), wd)

(* The search of PATH.  ++ moves PathEnvIterator to the first colon and then
   stays there, so if the first directory does not have the node and another
   one follows, the search does not end. *)
SearchPath(p, wd, path) ==
    LET dir == GetNodeFromPathImpl(path[1], wd)
        there == IF dir.type = "dir" THEN GetNodeFromRelPathImpl(CleanPath(p), dir.node)
                 ELSE IF dir.type = "file" THEN Fails("none") ELSE dir
    IN  IF there.type # "none" THEN there
        ELSE IF Len(path) > 1 THEN Fails("loop")
        ELSE GetNodeFromRelPathImpl(CleanPath(p), wd)

GetNodeFromPath(p, wd, e) ==
    IF /\ ~IsEmpty(p) /\ ~IsAbsPath(p)
       /\ HasVal(e, "PATH") /\ getVal(e, "PATH") # <<<<"">>>>
    THEN SearchPath(p, wd, getVal(e, "PATH"))
    ELSE GetNodeFromPathImpl(p, wd)

MutgetAbsPathNoRootCase(n) == IF n = <<>> THEN Root ELSE Root \o n
getAbsPath(n) == IF n = <<>> THEN Root ELSE <<"">> \o n

-----------------------------------------------------------------------------
(* argv in the startup channel: argc, a table of the distance from each entry
   of the table to its string, then the strings.  Offsets are in bytes. *)

StrAt(params, i) ==
    LET end[k \in 0 .. Len(params)] ==
            IF k = 0 THEN 4 + 4 * Len(params) ELSE end[k - 1] + params[k].size + 1
    IN  end[i - 1]
PackSize(params) == StrAt(params, Len(params) + 1)

EntryAt(i) == 4 + 4 * (i - 1)
MutPackParamsFromStart(params) ==
    [argc |-> Len(params),
     argv |-> [i \in DOMAIN params |-> StrAt(params, i)],
     strs |-> [o \in {StrAt(params, i) : i \in DOMAIN params} |->
                params[CHOOSE i \in DOMAIN params : StrAt(params, i) = o]]]
PackParams(params) ==
    [argc |-> Len(params),
     argv |-> [i \in DOMAIN params |-> StrAt(params, i) - EntryAt(i)],
     strs |-> [o \in {StrAt(params, i) : i \in DOMAIN params} |->
                params[CHOOSE i \in DOMAIN params : StrAt(params, i) = o]]]

(* PackParams asserts that each string ends within a page. *)
FitsInPage(params) ==
    \A i \in DOMAIN params : StrAt(params, i) + params[i].size + 1 < PageSize

(* UnpackParams at addr: the pointers main gets. *)
UnpackParams(page, addr) ==
    [i \in 1 .. page.argc |-> page.argv[i] + addr + EntryAt(i)]

-----------------------------------------------------------------------------

(* ParsePathRelative creates the directories that are missing and adds the node;
   Add asserts that its directory has no node of that name. *)
MayAdd(node) ==
    /\ node \notin DOMAIN tree
    /\ \A d \in Prefixes(node) \cap DOMAIN tree : tree[d] = "dir"
ParsePathRelative(node, type) ==
    [n \in DOMAIN tree \cup Prefixes(node) |->
        IF n \in DOMAIN tree THEN tree[n] ELSE IF n = node THEN type ELSE "dir"]

(* IterateUSTAR asserts that a directory has no data and that all else has. *)
HasItsSize(e) == (e.type = "dir") <=> (e.size = 0)

(* One entry of InitVFS, in any order: the archive's is tar's choice. *)
InitVFS(e) ==
    LET node == CleanPath(e.path)
    IN  /\ status = "none"
        /\ e \in left
        /\ IF HasItsSize(e) /\ (IsEmpty(node) \/ MayAdd(node))
           THEN /\ left' = left \ {e}
                /\ tree' = IF IsEmpty(node) THEN tree ELSE ParsePathRelative(node, e.type)
                /\ UNCHANGED <<status, child>>
           ELSE /\ status' = "ended"
                /\ child' = <<>>
                /\ UNCHANGED <<left, tree>>
        /\ UNCHANGED <<archive, cwd, env, environ>>

(* What a search that found nothing to use leaves: an errno, a failed assert or
   a loop. *)
After(r) == CASE r.type = "trap" -> "ended" [] r.type = "loop" -> "loop" [] OTHER -> "running"
Otherwise(r) == status' = After(r) /\ UNCHANGED <<archive, left, tree, cwd, env, environ, child>>

(* chdir, with SetCurrentDir. *)
MutchdirToFile(p) ==
    LET r == GetNodeFromPath(p, cwd, env)
    IN  /\ status = "running"
        /\ IF r.type \notin {"dir", "file"} THEN Otherwise(r)
           ELSE /\ cwd' = r.node
                /\ env' = setVal(env, "PWD", <<getAbsPath(r.node)>>)
                /\ UNCHANGED <<archive, left, tree, status, environ, child>>
chdir(p) ==
    LET r == GetNodeFromPath(p, cwd, env)
    IN  /\ status = "running"
        /\ IF r.type # "dir" THEN Otherwise(r)
           ELSE /\ cwd' = r.node
                /\ env' = setVal(env, "PWD", <<getAbsPath(r.node)>>)
                /\ UNCHANGED <<archive, left, tree, status, environ, child>>

(* setenv, with UpdateEnviron. *)
MutSetenvForgetsEnviron(key, val, overwrite) ==
    /\ status = "running"
    /\ ~HasVal(env, key) \/ overwrite
    /\ env' = setVal(env, key, val)
    /\ UNCHANGED <<archive, left, tree, status, cwd, environ, child>>
setenv(key, val, overwrite) ==
    /\ status = "running"
    /\ ~HasVal(env, key) \/ overwrite
    /\ env' = setVal(env, key, val)
    /\ environ' = env'
    /\ UNCHANGED <<archive, left, tree, status, cwd, child>>

(* What LoadElfProgram writes to the startup channel.  What the call was like is
   kept beside it: the caller's directory and environment, the arguments, and
   whether the child is to inherit the environment. *)
LoadElfProgram(params, envp, inherits) ==
    [env |-> Pack(envp), argv |-> PackParams(params), size |-> PackSize(params),
     params |-> params, from |-> cwd, caller |-> env, inherits |-> inherits]

ExecImpl(p, params, envp, inherits) ==
    LET r == GetNodeFromPath(p, cwd, env)
    IN  /\ status = "running"
        /\ child = <<>>
        /\ IF r.type # "file" THEN Otherwise(r)
           ELSE IF ~FitsInPage(params) THEN Otherwise(Fails("trap"))
           ELSE /\ child' = <<LoadElfProgram(params, envp, inherits)>>
                /\ UNCHANGED <<archive, left, tree, status, cwd, env, environ>>

MutexecvPassesEnviron(p, params) == ExecImpl(p, params, environ, TRUE)
execv(p, params) == ExecImpl(p, params, env, TRUE)
execve(p, params, envp) == ExecImpl(p, params, UnpackEnvp(envp), FALSE)

(* __libc_start_main of the child, up to main: the environment is unpacked and
   copied for environ, PWD is followed if it leads to a directory, PATH gets
   its default. *)
Start ==
    LET e == Unpack(child[1].env)
        r == IF HasVal(e, "PWD") THEN GetNodeFromPath(getVal(e, "PWD")[1], <<>>, e)
             ELSE Fails("none")
        moved == IF r.type = "dir" THEN setVal(e, "PWD", <<getAbsPath(r.node)>>) ELSE e
    IN  /\ child # <<>>
        /\ left = {}
        /\ child' = <<>>
        /\ environ' = e
        /\ cwd' = IF r.type = "dir" THEN r.node ELSE <<>>
        /\ env' = IF HasVal(moved, "PATH") THEN moved
                  ELSE setVal(moved, "PATH", <<<<"", "bin">>>>)
        /\ status' = After(r)
        /\ UNCHANGED <<archive, left, tree>>

(* main returns. *)
Exit ==
    /\ status = "running"
    /\ status' = "ended"
    /\ UNCHANGED <<archive, left, tree, cwd, env, environ, child>>

(* Userboot stage 1 loads stage 2 with the archive, its name and no environment. *)
Stage2Params == <<[arg |-> "./userboot-stage2", size |-> 17]>>
Init ==
    /\ archive \in Archives
    /\ left = archive
    /\ tree = [n \in {<<>>} |-> "dir"]
    /\ status = "none"
    /\ cwd = <<>>
    /\ env = <<>>
    /\ environ = <<>>
    /\ child = <<LoadElfProgram(Stage2Params, <<>>, TRUE)>>

Next ==
    \/ \E e \in archive : InitVFS(e)
    \/ Start
    \/ \E p \in Inputs : chdir(p)
    \/ \E s \in Settings, overwrite \in BOOLEAN : setenv(s.key, s.val, overwrite)
    \/ \E p \in Inputs, params \in Argvs : execv(p, params)
    \/ \E p \in Inputs, params \in Argvs, envp \in Environments : execve(p, params, envp)
    \/ Exit

Spec == Init /\ [][Next]_vars

-----------------------------------------------------------------------------

(* The working directory is a directory of the tree, also after a PWD that
   leads nowhere or to a file. *)
SessionTypeOK ==
    /\ archive \in Archives /\ left \subseteq archive
    /\ status \in Statuses
    /\ cwd \in DOMAIN tree /\ tree[cwd] = "dir"
    /\ Len(child) <= 1

(* InitVFS builds the directories and files of the archive and no others, in
   whatever order the entries are.  It stops in an assert only if an entry has not
   its size, which a file without data has not, or if a directory comes after what
   is in it. *)
TreeIsTheArchive ==
    /\ left = {} =>
        /\ DOMAIN tree = {<<>>} \cup UNION {Prefixes(Names(e.path)) : e \in archive}
        /\ \A e \in archive : tree[Names(e.path)] = e.type
    /\ status = "ended" /\ left # {} =>
        \E e \in left :
            \/ ~HasItsSize(e)
            \/ /\ Names(e.path) # <<>>
               /\ \E f \in archive \ left : IsStrictPrefix(Names(e.path), Names(f.path))

(* Every node is found again by the path getAbsPath gives it, whatever the
   working directory and PATH are: what a child does with PWD. *)
AbsPathsResolve ==
    left = {} => \A n \in DOMAIN tree : GetNodeFromPath(getAbsPath(n), cwd, env) = Found(n)

(* A child started with execv reaches main where its parent was when it called
   execv, with the variables the parent had, whatever the parent has done since.
   Only a program that set PWD itself to something else is excluded. *)
TellsWhere(e, wd) ==
    IF HasVal(e, "PWD") THEN getVal(e, "PWD") = <<getAbsPath(wd)>> ELSE wd = <<>>
ChildStartsWhereItsParentWas ==
    [][ /\ child # <<>> /\ child' = <<>> /\ left = {}
        /\ child[1].inherits
        /\ TellsWhere(child[1].caller, child[1].from)
        => /\ status' = "running"
           /\ cwd' = child[1].from
           /\ TellsWhere(env', cwd')
           /\ IsPrefix(child[1].caller, env') ]_vars

Others(e) ==
    LET others[i \in 0 .. Len(e)] ==
            IF i = 0 THEN <<>>
            ELSE IF e[i].key \in {"PWD", "PATH"} THEN others[i - 1]
            ELSE Append(others[i - 1], e[i])
    IN  others[Len(e)]

(* environ, which printenv shows, agrees with getenv except for the two
   variables libc sets itself, PWD (chdir) and PATH (its default). *)
EnvironIsCurrent == Others(environ) = Others(env)

(* argv survives the move to the child's heap: wherever its buffer is, argv[i]
   points to the string that was passed, and the strings end where PackSize
   says. *)
ArgvSurvives ==
    \A i \in DOMAIN child, addr \in Addresses :
        LET page == child[i].argv
            argv == UnpackParams(page, addr)
        IN  /\ DOMAIN argv = DOMAIN child[i].params
            /\ \A k \in DOMAIN argv :
                /\ argv[k] - addr \in DOMAIN page.strs
                /\ page.strs[argv[k] - addr] = child[i].params[k]
                /\ argv[k] - addr + child[i].params[k].size < child[i].size
=============================================================================
