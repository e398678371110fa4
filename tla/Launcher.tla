------------------------------ MODULE Launcher ------------------------------
(***************************************************************************)
(* internal/cdpclient/launcher.go and reap.go with the programs that call  *)
(* them: who starts Chrome, in which directory, and who takes both away.   *)
(*                                                                         *)
(* An owner is one chromerpc process, from its start to its end.  It may   *)
(* be killed between any two of its steps; a restart is another owner.     *)
(* Each of its launches is one call of Launch with the Cleanup that ends   *)
(* it, has a Chrome, a process group of a main process and a helper, and   *)
(* a directory, all named by the launch: directory names are random and    *)
(* process ids are taken not to be reused.  The first launch of an owner   *)
(* sweeps up, once, what earlier owners left.                              *)
(*                                                                         *)
(* An encoding is the directory of encodeRecording (record.go), whose name *)
(* begins like those of the launches.                                      *)
(*                                                                         *)
(* The operating system: a process whose parent ends becomes a child of    *)
(* process 1.  Time is the youth of a directory: it grows older than       *)
(* the 30 s of the sweep at any moment, but not between the MkdirAll and   *)
(* the Start of one launch, or the `ps' and the ReadDir of one sweep.      *)
(***************************************************************************)
EXTENDS Naturals, FiniteSets

CONSTANTS
    Owners,     \* chromerpc processes
    Pools,      \* those in pool mode, which launch concurrently and never call Close
    Keep,       \* those run with NoTmpCleanup
    AsInit,     \* those that are process 1, as in a container
    Encoders,   \* those that record
    MaxLaunch   \* bound: launches of each owner

ASSUME LauncherAssumption ==
    /\ Pools \subseteq Owners /\ Keep \subseteq Owners
    /\ AsInit \subseteq Owners /\ Encoders \subseteq Owners
    /\ MaxLaunch \in [Owners -> Nat]

Launches   == UNION {{o} \X (1..MaxLaunch[o]) : o \in Owners}
Encodings  == Encoders \X {0}
Dirs       == Launches \cup Encodings
Of(l)      == l[1]
Processes  == Launches \X {"main", "helper"}
Main(l)    == <<l, "main">>
Helper(l)  == <<l, "helper">>
Group(l)   == {Main(l), Helper(l)}

VARIABLES
    owner,      \* the state of each chromerpc process
    once,       \* where its sweepOnce is
    pc,         \* where each launch is, and each encoding
    procs,      \* the Chrome processes that run
    dirs,       \* the chromerpc-* directories there are
    young,      \* those less than 30 s old
    found,      \* of a sweep: processes to be killed
    live,       \* of a sweep: directories with a live owner
    stale,      \* of a sweep: directories to be removed
    left,       \* history: what had no owner when a sweep began
    unparsed    \* history: launches killed because no URL was read

owner_vars == <<owner, unparsed>>
sweep_vars == <<once, found, live, stale, left>>
vars == <<owner_vars, sweep_vars, pc, procs, dirs, young>>

SweepPc  == {"no", "kill", "remove", "done", "failed"}
LaunchPc == {"idle", "sweep", "start", "parse", "ready", "remove", "over"}

TypeOK ==
    /\ owner \in [Owners -> {"new", "up", "stopping", "exited", "killed"}]
    /\ once \in [Owners -> SweepPc]
    /\ pc \in [Dirs -> LaunchPc]
    /\ procs \subseteq Processes
    /\ dirs \subseteq Dirs /\ young \subseteq dirs
    /\ found \in [Owners -> SUBSET Processes]
    /\ live \in [Owners -> SUBSET Dirs] /\ stale \in [Owners -> SUBSET Dirs]
    /\ left \in [Owners -> [procs : SUBSET Processes, dirs : SUBSET Dirs]]
    /\ unparsed \subseteq Launches

Nothing == [procs |-> {}, dirs |-> {}]

Init ==
    /\ owner = [o \in Owners |-> "new"]
    /\ once = [o \in Owners |-> "no"]
    /\ pc = [l \in Dirs |-> "idle"]
    /\ procs = {} /\ dirs = {} /\ young = {}
    /\ found = [o \in Owners |-> {}]
    /\ live = [o \in Owners |-> {}] /\ stale = [o \in Owners |-> {}]
    /\ left = [o \in Owners |-> Nothing]
    /\ unparsed = {}

-----------------------------------------------------------------------------
Alive(o) == owner[o] \in {"up", "stopping"}

\* Is process 1 the parent of p?
Reparented(p) ==
    IF p[2] = "main" THEN ~Alive(Of(p[1])) \/ Of(p[1]) \in AsInit
                     ELSE Main(p[1]) \notin procs

EveryChrome == procs    \* Seeded bug: the parent is not compared

Orphans == {p \in procs : Reparented(p)}

\* Directories in which a process that has not lost its parent lives: a helper
\* carries the marker of its main process.
Owned == {p[1] : p \in procs \ Orphans}

\* What a sweep is there for besides them: old directories nobody uses.
Abandoned ==
    {d \in dirs \ young : pc[d] \in {"idle", "over"} /\ \A p \in procs : p[1] # d}

Goto(l, next) == pc' = [pc EXCEPT ![l] = next]

MainOnly(p) == {p}      \* Seeded bug: kill(pid)

\* setProcessGroup, killProcessGroup: the main process and all its helpers.  The
\* pid of a helper leads no group, and is killed alone.
GroupOf(p) == IF p[2] = "main" THEN Group(p[1]) ELSE {p}

\* os.RemoveAll, unless the directories are to be kept.
Removed(l) == IF Of(l) \in Keep /\ l \in Launches THEN {} ELSE {l}

-----------------------------------------------------------------------------
(* SweepOrphans, once per process, before its first launch.                 *)

\* sweepOnce.Do: the first launch starts the sweep with one `ps'.
Snapshot(o) ==
    /\ once[o] = "no" /\ \E l \in Launches : Of(l) = o /\ pc[l] = "sweep"
    /\ once' = [once EXCEPT ![o] = "kill"]
    /\ found' = [found EXCEPT ![o] = Orphans]
    /\ live' = [live EXCEPT ![o] = Owned]
    /\ left' = [left EXCEPT ![o] = [procs |-> Orphans, dirs |-> Abandoned]]
    /\ UNCHANGED <<owner_vars, pc, procs, dirs, young, stale>>

\* It cannot be run: nothing is swept, and nothing will be.
SnapshotFails(o) ==
    /\ once[o] = "no" /\ \E l \in Launches : Of(l) = o /\ pc[l] = "sweep"
    /\ once' = [once EXCEPT ![o] = "failed"]
    /\ UNCHANGED <<owner_vars, pc, procs, dirs, young, found, live, stale, left>>

KillOrphan(o) == \E p \in found[o] :
    /\ once[o] = "kill"
    /\ procs' = procs \ GroupOf(p)
    /\ found' = [found EXCEPT ![o] = @ \ {p}]
    /\ UNCHANGED <<owner_vars, once, pc, dirs, young, live, stale, left>>

StaleIfDead(o) == dirs \ live[o]    \* Seeded bug: the 30 s are not looked at

Stale(o) == dirs \ (live[o] \cup young)

ReadTmp(o) ==
    /\ once[o] = "kill" /\ found[o] = {}
    /\ once' = [once EXCEPT ![o] = IF Stale(o) = {} THEN "done" ELSE "remove"]
    /\ stale' = [stale EXCEPT ![o] = Stale(o)]
    /\ live' = [live EXCEPT ![o] = {}]
    /\ UNCHANGED <<owner_vars, pc, procs, dirs, young, found, left>>

RemoveStale(o) == \E d \in stale[o] :
    /\ dirs' = dirs \ {d} /\ young' = young \ {d}
    /\ stale' = [stale EXCEPT ![o] = @ \ {d}]
    /\ once' = [once EXCEPT ![o] = IF stale[o] = {d} THEN "done" ELSE @]
    /\ UNCHANGED <<owner_vars, pc, procs, found, live, left>>

\* What an owner's sweep takes from the machine.
Takes(o) == KillOrphan(o) \/ RemoveStale(o)

SweepStep(o) ==
    Alive(o) /\ (Snapshot(o) \/ SnapshotFails(o) \/ ReadTmp(o) \/ Takes(o))

-----------------------------------------------------------------------------
(* Launch, ConnectOrLaunch and launchLocked, Cleanup.                       *)

\* One after the other, except in a pool.
Begin(l) ==
    /\ pc[l] = "idle"
    /\ Of(l) \in Pools \/ \A k \in Launches : Of(k) = Of(l) => pc[k] \in {"idle", "over"}
    /\ Goto(l, "sweep")
    /\ UNCHANGED <<owner_vars, sweep_vars, procs, dirs, young>>

SweptOrBusy(l) == once[Of(l)] # "no"   \* Seeded bug: a flag in place of sync.Once

\* Do returns to every launch when the sweep is over.
Swept(l) == once[Of(l)] \in {"done", "failed"}

\* MkdirAll, which may fail.
MakeDir(l) ==
    /\ pc[l] = "sweep" /\ Swept(l)
    /\ \/ Goto(l, "start") /\ dirs' = dirs \cup {l} /\ young' = young \cup {l}
       \/ Goto(l, "over") /\ UNCHANGED <<dirs, young>>
    /\ UNCHANGED <<owner_vars, sweep_vars, procs>>

StartChrome(l) ==
    /\ pc[l] = "start" /\ owner[Of(l)] = "up"
    /\ Goto(l, "parse") /\ procs' = procs \cup {Main(l)}
    /\ UNCHANGED <<owner_vars, sweep_vars, dirs, young>>

\* Start fails, by itself or because the context has ended.
StartFails(l) ==
    /\ pc[l] = "start"
    /\ Goto(l, "over") /\ dirs' = dirs \ Removed(l) /\ young' = young \ Removed(l)
    /\ UNCHANGED <<owner_vars, sweep_vars, procs>>

ReadURL(l) ==
    /\ pc[l] = "parse" /\ Main(l) \in procs
    /\ Goto(l, "ready")
    /\ UNCHANGED <<owner_vars, sweep_vars, procs, dirs, young>>

\* A time-out, or Chrome has ended.  Process.Kill takes the main process only.
NoURL(l) ==
    /\ pc[l] = "parse"
    /\ Goto(l, "remove") /\ procs' = procs \ {Main(l)}
    /\ unparsed' = unparsed \cup {l}
    /\ UNCHANGED <<owner, sweep_vars, dirs, young>>

\* Cleanup, after Dial or SetupDefault failed, to recycle, or at the end.
Cleanup(l) ==
    /\ pc[l] = "ready"
    /\ Goto(l, "remove") /\ procs' = procs \ GroupOf(Main(l))
    /\ UNCHANGED <<owner_vars, sweep_vars, dirs, young>>

RemoveDir(l) ==
    /\ pc[l] = "remove"
    /\ Goto(l, "over") /\ dirs' = dirs \ Removed(l) /\ young' = young \ Removed(l)
    /\ UNCHANGED <<owner_vars, sweep_vars, procs>>

\* cmd.Cancel, in a goroutine of its own, when the root context has ended.
CtxKills(l) ==
    /\ owner[Of(l)] = "stopping" /\ pc[l] \in {"parse", "ready"}
    /\ procs' = procs \ GroupOf(Main(l))
    /\ UNCHANGED <<owner_vars, sweep_vars, pc, dirs, young>>

LaunchStep(l) == Alive(Of(l)) /\
    \/ Begin(l) \/ MakeDir(l) \/ StartChrome(l) \/ StartFails(l) \/ ReadURL(l) \/ NoURL(l)
    \/ Cleanup(l) \/ RemoveDir(l) \/ CtxKills(l)

\* encodeRecording: MkdirTemp, frames and a manifest, ffmpeg, the deferred RemoveAll.
Encode(d) ==
    /\ Alive(Of(d))
    /\ \/ /\ pc[d] = "idle" /\ \E l \in Launches : Of(l) = Of(d) /\ pc[l] = "ready"
          /\ Goto(d, "ready") /\ dirs' = dirs \cup {d} /\ young' = young \cup {d}
       \/ /\ pc[d] = "ready"
          /\ Goto(d, "over") /\ dirs' = dirs \ {d} /\ young' = young \ {d}
    /\ UNCHANGED <<owner_vars, sweep_vars, procs>>

-----------------------------------------------------------------------------
(* The chromerpc processes, Chrome and time.                                *)

StartOwner(o) ==
    /\ owner[o] = "new" /\ owner' = [owner EXCEPT ![o] = "up"]
    /\ UNCHANGED <<sweep_vars, unparsed, pc, procs, dirs, young>>

\* SIGTERM or an interrupt: the root context ends, the gRPC server stops.
Signal(o) ==
    /\ owner[o] = "up" /\ owner' = [owner EXCEPT ![o] = "stopping"]
    /\ UNCHANGED <<sweep_vars, unparsed, pc, procs, dirs, young>>

\* main returns, behind its deferred Cleanup or Close, or ends at a launch that
\* failed; a pool's main returns with the context.
MayExit(o) ==
    IF o \in Pools THEN owner[o] = "stopping"
    ELSE /\ \A l \in Dirs : Of(l) = o => pc[l] \in {"idle", "over"}
         /\ \E l \in Launches : Of(l) = o /\ pc[l] = "over"

\* A process takes its variables along, and the launches it was at.
Ends(o, how) ==
    /\ Alive(o) /\ owner' = [owner EXCEPT ![o] = how]
    /\ once' = [once EXCEPT ![o] = "no"] /\ found' = [found EXCEPT ![o] = {}]
    /\ live' = [live EXCEPT ![o] = {}] /\ stale' = [stale EXCEPT ![o] = {}]
    /\ left' = [left EXCEPT ![o] = Nothing]
    /\ pc' = [d \in Dirs |-> IF Of(d) = o /\ pc[d] # "over" THEN "idle" ELSE pc[d]]
    /\ UNCHANGED <<unparsed, procs, dirs, young>>

Exit(o) == MayExit(o) /\ Ends(o, "exited")

\* SIGKILL, a panic, or log.Fatalf when Listen or Serve fails: no deferred call runs.
Kill(o) == Ends(o, "killed")

\* Chrome starts a helper; its main process dies; a helper without one may end.
Chrome(l) ==
    /\ \/ Main(l) \in procs /\ procs' = procs \cup {Helper(l)}
       \/ Main(l) \in procs /\ procs' = procs \ {Main(l)}
       \/ Main(l) \notin procs /\ Helper(l) \in procs /\ procs' = procs \ {Helper(l)}
    /\ UNCHANGED <<owner_vars, sweep_vars, pc, dirs, young>>

\* Thirty seconds.
Age(d) ==
    /\ d \in young /\ ~(Alive(Of(d)) /\ pc[d] = "start")
    /\ \A o \in Owners : Alive(o) => once[o] # "kill"
    /\ young' = young \ {d}
    /\ UNCHANGED <<owner_vars, sweep_vars, pc, procs, dirs>>

Next ==
    \/ \E o \in Owners : SweepStep(o) \/ StartOwner(o) \/ Signal(o) \/ Exit(o) \/ Kill(o)
    \/ \E l \in Launches : LaunchStep(l) \/ Chrome(l)
    \/ \E d \in Encodings : Encode(d)
    \/ \E d \in Dirs : Age(d)

Spec == Init /\ [][Next]_vars
=============================================================================
