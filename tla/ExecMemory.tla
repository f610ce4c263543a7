----------------------------- MODULE ExecMemory -----------------------------
(***************************************************************************)
(* The pages of user programs: a program starts by taking a page for its   *)
(* stack (libc/start.S) and one for malloc (libc/__libc_start_main.cpp),   *)
(* and LoadElfProgram (libc/elf.cpp) fills a page, gives it to a new       *)
(* process, starts that and unmaps the page.  The timer may switch tasks   *)
(* between any two syscalls; any program may end at any point.             *)
(***************************************************************************)
EXTENDS Memory

VARIABLES
    pc,         \* where each task is: see Pcs
    text,       \* the virtual page its code is on
    ustack,     \* the one its stack is on
    heap,       \* malloc_page
    load,       \* load_addr in LoadElfProgram
    child       \* proc_handle in LoadElfProgram

userVars == <<pc, text, ustack, heap, load, child>>
allVars == <<vars, userVars>>

(* none: no task; created: not started; start: at its entry point; libc: at the
   start of __libc_start_main; main: in the program; create, map, run, unmap: in
   LoadElfProgram, before that syscall; abort: a syscall failed and the program
   stops. *)
Pcs == {"none", "created", "start", "libc", "main", "create", "map", "run", "unmap", "abort"}
Running(t) == pc[t] \notin {"none", "created"}
InMain(t) == pc[t] \in {"main", "create", "map", "run", "unmap"}

NewlyMapped(t) == CHOOSE v \in VPages : pd'[t][v] # pd[t][v]
After(t, next) == [pc EXCEPT ![t] = IF status' = "K_OK" THEN next ELSE "abort"]

-----------------------------------------------------------------------------

(* _start: AllocPage, or ProcessKill. *)
Start(t) ==
    /\ pc[t] = "start"
    /\ AllocPage(t, TRUE, 0)
    /\ pc' = After(t, "libc")
    /\ ustack' = IF status' = "K_OK" THEN [ustack EXCEPT ![t] = NewlyMapped(t)] ELSE ustack
    /\ UNCHANGED <<text, heap, load, child>>

(* __libc_start_main: AllocPage, or abort(). *)
LibcStart(t) ==
    /\ pc[t] = "libc"
    /\ AllocPage(t, TRUE, 0)
    /\ pc' = After(t, "main")
    /\ heap' = IF status' = "K_OK" THEN [heap EXCEPT ![t] = NewlyMapped(t)] ELSE heap
    /\ UNCHANGED <<text, ustack, load, child>>

(* PageAlloc::PageAlloc. *)
LoadAlloc(t) ==
    /\ pc[t] = "main"
    /\ AllocPage(t, TRUE, 0)
    /\ pc' = After(t, "create")
    /\ load' = IF status' = "K_OK" THEN [load EXCEPT ![t] = NewlyMapped(t)] ELSE load
    /\ UNCHANGED <<text, ustack, heap, child>>

LoadCreate(t) ==
    /\ pc[t] = "create"
    /\ \E u \in Tasks :
        /\ ProcessCreate(u)
        /\ pc' = [pc EXCEPT ![t] = "map", ![u] = "created"]
        /\ child' = [child EXCEPT ![t] = u]
    /\ UNCHANGED <<text, ustack, heap, load>>

(* MapAnonAndSwap. *)
MutLoadMapKeepsOwner(t) ==
    /\ pc[t] = "map"
    /\ MapPage(t, load[t], child[t], TRUE, 0, FALSE)
    /\ pc' = After(t, "run")
    /\ text' = IF status' = "K_OK"
               THEN [text EXCEPT ![child[t]] = NewlyMapped(child[t])] ELSE text
    /\ UNCHANGED <<ustack, heap, load, child>>
LoadMap(t) ==
    /\ pc[t] = "map"
    /\ MapPage(t, load[t], child[t], TRUE, 0, TRUE)
    /\ pc' = After(t, "run")
    /\ text' = IF status' = "K_OK"
               THEN [text EXCEPT ![child[t]] = NewlyMapped(child[t])] ELSE text
    /\ UNCHANGED <<ustack, heap, load, child>>

(* The channel syscalls and ProcessStart. *)
LoadRun(t) ==
    /\ pc[t] = "run"
    /\ UNCHANGED vars
    /\ pc' = [pc EXCEPT ![t] = "unmap", ![child[t]] = "start"]
    /\ UNCHANGED <<text, ustack, heap, load, child>>

(* The buffers of ChannelCreate, ChannelRead, ChannelWrite and DebugWrite may make
   the kernel heap grow.  Before main a program only calls AllocPage. *)
ResizableBuffers(t) ==
    /\ InMain(t) \/ pc[t] = "abort"
    /\ HeapGrows
    /\ UNCHANGED userVars

(* PageAlloc::~PageAlloc. *)
MutLoadUnmapLeaves(t) ==
    /\ pc[t] = "unmap"
    /\ UNCHANGED vars
    /\ pc' = [pc EXCEPT ![t] = "main"]
    /\ UNCHANGED <<text, ustack, heap, load, child>>
MutLoadUnmapTwice(t) ==
    /\ pc[t] = "unmap"
    /\ UnmapPage(t, load[t])
    /\ UNCHANGED userVars
LoadUnmap(t) ==
    /\ pc[t] = "unmap"
    /\ UnmapPage(t, load[t])
    /\ pc' = [pc EXCEPT ![t] = "main"]
    /\ UNCHANGED <<text, ustack, heap, load, child>>

Ends(t) ==
    /\ Running(t)
    /\ TaskEnds(t)
    /\ pc' = [pc EXCEPT ![t] = "none"]
    /\ text' = [text EXCEPT ![t] = 0]
    /\ ustack' = [ustack EXCEPT ![t] = 0]
    /\ heap' = [heap EXCEPT ![t] = 0]
    /\ load' = [load EXCEPT ![t] = 0]
    /\ child' = [child EXCEPT ![t] = t]

ExecInit ==
    /\ Init
    /\ pc = [t \in Tasks |-> IF t \in live THEN "start" ELSE "none"]
    /\ text = [t \in Tasks |->
                IF t \in live THEN CHOOSE v \in VPages : pd[t][v] # pd[Kernel][v] ELSE 0]
    /\ ustack = [t \in Tasks |-> 0]
    /\ heap = [t \in Tasks |-> 0]
    /\ load = [t \in Tasks |-> 0]
    /\ child = [t \in Tasks |-> t]

ExecNext ==
    ~panic /\ \E t \in Tasks :
        \/ Start(t)
        \/ LibcStart(t)
        \/ LoadAlloc(t)
        \/ LoadCreate(t)
        \/ LoadMap(t)
        \/ LoadRun(t)
        \/ ResizableBuffers(t)
        \/ LoadUnmap(t)
        \/ Ends(t)

ExecSpec == ExecInit /\ [][ExecNext]_allVars

-----------------------------------------------------------------------------

(* A program's own pages: a running one has code, then a stack, then a heap. *)
OwnPages(t) ==
    (IF Running(t) \/ t \in {child[u] : u \in {x \in Tasks : pc[x] = "run"}}
     THEN {text[t]} ELSE {})
    \cup (IF pc[t] = "libc" \/ InMain(t) THEN {ustack[t]} ELSE {})
    \cup (IF InMain(t) THEN {heap[t]} ELSE {})
    \cup (IF pc[t] \in {"create", "map"} THEN {load[t]} ELSE {})

(* The program's own addresses keep their types. *)
ExecTypeOK ==
    /\ pc \in [Tasks -> Pcs]
    /\ \A t \in Tasks : {text[t], ustack[t], heap[t], load[t]} \subseteq VPages
    /\ child \in [Tasks -> Tasks]

(* A program owns the pages of its code, stack and heap and the page it is
   filling for a new program, as long as it runs (the first one, from its first
   AllocPage on): nobody else's exit or unmapping frees them, even while the
   loader still maps the code page it gave away. *)
ProgramsOwnTheirPages ==
    \A t \in Tasks : \A v \in OwnPages(t) :
        pd[t][v] \in owned[t] \/ (pc[t] = "start" /\ ~\E u \in Tasks \ {t} : u \in live)

(* Programs share no page, except that a loader maps a page it has given away
   until it unmaps it. *)
OnlyLoadersShare ==
    \A t \in Tasks : \A v \in OwnPages(t), u \in Tasks \ {t}, w \in VPages :
        pd[u][w] = pd[t][v] => w = load[u] /\ pc[u] \in {"run", "unmap"}

(* Programs use the page syscalls as Memory takes them to: a page is mapped into a
   process that exists, from its owner, and what PageAlloc unmaps is a page that
   is still mapped and not the kernel's code or stack, even if the new program
   has ended by then and its page was given to somebody else. *)
PagesAreTheirs ==
    \A t \in Tasks :
        /\ Running(t) => t \in live
        /\ pc[t] = "map" => child[t] \in live /\ MayMap(t, load[t], child[t], TRUE, 0, TRUE)
        /\ pc[t] = "unmap" => MayUnmap(t, load[t])

(* To load userboot "the kernel allocates a page" (userboot/userstart.S:3), so
   the page it then gets for its stack is another one. *)
StackIsNotCode ==
    \A t \in Tasks : InMain(t) => pd[t][text[t]] # pd[t][ustack[t]]
=============================================================================
