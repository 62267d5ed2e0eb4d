----------------------------- MODULE RunContext -----------------------------
(***************************************************************************)
(* lib/run_context.py: one folder per test run, run-NNNN-<stamp>.  A       *)
(* controlling pytest process mints it (create_run_context, called from    *)
(* conftest.py) and publishes it through its environment, a pointer file   *)
(* and the symlink results/latest; xdist workers, which inherit the        *)
(* environment of the process that started them, and tools that use lib    *)
(* outside pytest look it up (run_dir).  Several runs may be started on    *)
(* one machine: the file system is shared, the environment is not.         *)
(***************************************************************************)
EXTENDS Naturals, FiniteSetsExt

CONSTANTS Main,      \* controlling pytest processes
          Worker,    \* xdist worker processes
          Owner,     \* Owner[w]: the controlling process that starts worker w
          Tool,      \* processes that use lib outside pytest
          MaxTime    \* bound: seconds the model's clock runs

ASSUME RunAssumption ==
    /\ Owner \in [Worker -> Main]
    /\ Main \cap Worker = {} /\ Tool \cap (Main \cup Worker) = {}
    /\ MaxTime \in Nat

Process == Main \cup Worker \cup Tool

VARIABLES now,       \* the second _stamp would show
          dirs,      \* the folders under results/runs
          pointer,   \* what results/.current-run names
          latest,    \* what results/latest points to
          pc,        \* pc[m]: where m stands in create_run_context
          id,        \* id[m]: the number m has chosen
          run,       \* run[m]: the folder m mints
          env,       \* env[p]: NIMBUS_RUN_DIR of process p
          cached,    \* cached[p]: the module's _cached
          listed     \* history, listed[m]: the folders m saw

files == <<dirs, pointer, latest>>
vars == <<now, files, pc, id, run, env, cached, listed>>

\* A folder: minted by a run, or adhoc for a process.  None: no such thing.
RunDir == [id : Nat, stamp : 0..MaxTime]
AdhocDir == [pid : Process, stamp : 0..MaxTime]
None == [none |-> TRUE]

Init ==
    /\ now = 0 /\ dirs = {} /\ pointer = None /\ latest = None
    /\ pc = [m \in Main |-> "list"]
    /\ id = [m \in Main |-> 0]
    /\ run = [m \in Main |-> None]
    /\ env = [p \in Process |-> None]
    /\ cached = [p \in Process |-> None]
    /\ listed = [m \in Main |-> {}]

Tick ==
    /\ now < MaxTime
    /\ now' = now + 1
    /\ UNCHANGED <<files, pc, id, run, env, cached, listed>>

-----------------------------------------------------------------------------
(* create_run_context.  Each action is one access to the file system.      *)

Goto(m, next) == pc' = [pc EXCEPT ![m] = next]

RunsIn(folders) == folders \cap RunDir

\* Mutants: the greatest number is used again; the folder is left for others to
\* make; the pointer goes before the environment.
GreatestId == Max({0} \cup {d.id : d \in RunsIn(dirs)})
NoDir(m) ==
    /\ pc[m] = "mkdir"
    /\ Goto(m, "publish")
    /\ UNCHANGED <<now, files, id, run, env, cached, listed>>
PointerFirst(p) == IF pointer # None THEN pointer ELSE env[p]

\* _next_id: one more than the greatest number in the listing.
NextId == Max({0} \cup {d.id : d \in RunsIn(dirs)}) + 1

List(m) ==
    /\ pc[m] = "list"
    /\ id' = [id EXCEPT ![m] = NextId]
    /\ listed' = [listed EXCEPT ![m] = dirs]
    /\ Goto(m, "stamp")
    /\ UNCHANGED <<now, files, run, env, cached>>

\* run_id is put together.
Stamp(m) ==
    /\ pc[m] = "stamp"
    /\ run' = [run EXCEPT ![m] = [id |-> id[m], stamp |-> now]]
    /\ Goto(m, "mkdir")
    /\ UNCHANGED <<now, files, id, env, cached, listed>>

\* mkdir(exist_ok=True): no complaint when another run made it.
MakeDir(m) ==
    /\ pc[m] = "mkdir"
    /\ dirs' = dirs \cup {run[m]}
    /\ Goto(m, "publish")
    /\ UNCHANGED <<now, pointer, latest, id, run, env, cached, listed>>

\* The pointer file, then the process's own environment.
Publish(m) ==
    /\ pc[m] = "publish"
    /\ pointer' = run[m]
    /\ env' = [env EXCEPT ![m] = run[m]]
    /\ Goto(m, "check")
    /\ UNCHANGED <<now, dirs, latest, id, run, cached, listed>>

CheckLatest(m) ==
    /\ pc[m] = "check"
    /\ Goto(m, IF latest # None THEN "unlink" ELSE "symlink")
    /\ UNCHANGED <<now, files, id, run, env, cached, listed>>

\* unlink raises, and the symlink is left alone, when another run was faster.
Unlink(m) ==
    /\ pc[m] = "unlink"
    /\ latest' = None
    /\ Goto(m, IF latest = None THEN "cache" ELSE "symlink")
    /\ UNCHANGED <<now, dirs, pointer, id, run, env, cached, listed>>

\* symlink_to raises when another run has put one there.
Symlink(m) ==
    /\ pc[m] = "symlink"
    /\ latest' = IF latest = None THEN run[m] ELSE latest
    /\ Goto(m, "cache")
    /\ UNCHANGED <<now, dirs, pointer, id, run, env, cached, listed>>

Cache(m) ==
    /\ pc[m] = "cache"
    /\ cached' = [cached EXCEPT ![m] = run[m]]
    /\ Goto(m, "running")
    /\ UNCHANGED <<now, files, id, run, env, listed>>

\* Ctrl-C, or the disk is full.
Abort(m) ==
    /\ pc[m] \notin {"running", "aborted"}
    /\ Goto(m, "aborted")
    /\ UNCHANGED <<now, files, id, run, env, cached, listed>>

-----------------------------------------------------------------------------
InheritedEnv(w) == env[Owner[w]]

\* xdist starts w (external): a copy of the environment.
StartWorker(w) ==
    /\ pc[Owner[w]] = "running"
    /\ env[w] = None
    /\ env' = [env EXCEPT ![w] = InheritedEnv(w)]
    /\ UNCHANGED <<now, files, pc, id, run, cached, listed>>

Started(p) == p \in Tool \/ env[p] # None

\* env, then pointer.
Published(p) == IF env[p] # None THEN env[p] ELSE pointer

\* run_dir, first call in p; the pointer counts only if its folder exists.
Resolve(p) ==
    /\ Started(p) /\ cached[p] = None
    /\ IF Published(p) # None
       THEN /\ cached' = [cached EXCEPT ![p] = Published(p)]
            /\ dirs' = dirs
       ELSE LET adhoc == [pid |-> p, stamp |-> now] IN
            /\ dirs' = dirs \cup {adhoc}
            /\ cached' = [cached EXCEPT ![p] = adhoc]
    /\ UNCHANGED <<now, pointer, latest, pc, id, run, env, listed>>

Mint(m) ==
    \/ List(m) \/ Stamp(m) \/ MakeDir(m) \/ Publish(m)
    \/ CheckLatest(m) \/ Unlink(m) \/ Symlink(m) \/ Cache(m)

Next ==
    \/ Tick
    \/ \E m \in Main : Mint(m) \/ Abort(m)
    \/ \E w \in Worker : StartWorker(w)
    \/ \E p \in Worker \cup Tool : Resolve(p)

Spec == Init /\ [][Next]_vars

-----------------------------------------------------------------------------
Folder == RunDir \cup AdhocDir

TypeOK ==
    /\ now \in 0..MaxTime
    /\ dirs \subseteq Folder
    /\ pointer \in RunDir \cup {None} /\ latest \in RunDir \cup {None}
    /\ pc \in [Main -> {"list", "stamp", "mkdir", "publish", "check", "unlink",
                        "symlink", "cache", "running", "aborted"}]
    /\ id \in [Main -> Nat]
    /\ run \in [Main -> RunDir \cup {None}]
    /\ env \in [Process -> RunDir \cup {None}]
    /\ cached \in [Process -> Folder \cup {None}]
    /\ listed \in [Main -> SUBSET Folder]

(***************************************************************************)
(* "ALL output of one run lands in ONE folder": a worker that has looked   *)
(* its folder up writes where the process that started it writes, although *)
(* another run may have rewritten the pointer in between.                  *)
(***************************************************************************)
OneFolderPerRun == \A w \in Worker :
    cached[w] # None => cached[w] = cached[Owner[w]]

(***************************************************************************)
(* Runs one after the other never share a folder, even within one second   *)
(* and after an aborted one: a run whose folder another run saw when it    *)
(* chose its number is not minted again ("incremental").                   *)
(***************************************************************************)
SeenRunsDistinct == \A m, n \in Main :
    run[n] # None /\ run[n] \in listed[m] => run[m] # run[n]

(***************************************************************************)
(* Whatever runs race for it, results/latest and the pointer name a folder *)
(* that exists.                                                            *)
(***************************************************************************)
LinksLead == {latest, pointer} \subseteq dirs \cup {None}

\* What the three rest on: a running process has minted, made and published one
\* folder, its workers hold that folder's name, and a number once chosen exceeds
\* every number seen.
Greatest(n) ==
    /\ \A d \in RunsIn(dirs) : d.id <= n
    /\ n = 0 \/ \E d \in RunsIn(dirs) : d.id = n

NumbersGrow ==
    /\ \E n \in {0} \cup {d.id : d \in RunsIn(dirs)} : Greatest(n)
    /\ \A m \in Main :
          /\ run[m] # None => run[m].id = id[m]
          /\ \A d \in RunsIn(listed[m]) : d.id < id[m]

MintersPublish == \A m \in Main :
    /\ pc[m] \in {"list", "stamp"} => run[m] = None
    /\ pc[m] \in {"list", "stamp", "mkdir", "publish"} => env[m] = None
    /\ pc[m] \in {"publish", "check", "unlink", "symlink", "cache", "running"} =>
          run[m] \in dirs
    /\ pc[m] = "running" => env[m] = run[m] /\ cached[m] = run[m]
    /\ pc[m] \in {"mkdir", "running"} => run[m] # None
    /\ pc[m] \in {"check", "unlink", "symlink", "cache"} => env[m] = run[m]

WorkersFollow == \A w \in Worker :
    /\ env[w] # None => env[w] = run[Owner[w]] /\ pc[Owner[w]] = "running"
    /\ cached[w] # None => cached[w] = env[w]

RunInv ==
    /\ TypeOK
    /\ MintersPublish /\ WorkersFollow /\ NumbersGrow /\ LinksLead

(***************************************************************************)
(* The module's docstring, lib/run_context.py:3: "<ts> suffix = unique (no *)
(* collide on concurrent runs)".                                           *)
(***************************************************************************)
RunsDistinct == \A m, n \in Main :
    m # n /\ run[m] # None => run[m] # run[n]
=============================================================================
