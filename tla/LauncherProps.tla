---------------------------- MODULE LauncherProps ----------------------------
(* What the launcher and its sweep promise.                                 *)
EXTENDS Launcher

\* In use by a launch of a live chromerpc: the directory of a Chrome about to be
\* started, and a Chrome that runs, with its directory.  The sweep cannot tell the
\* Chrome of a chromerpc that is process 1 from an orphan.
InUse(l) ==
    /\ Alive(Of(l)) /\ Of(l) \notin AsInit
    /\ \/ pc[l] = "start"
       \/ pc[l] \in {"parse", "ready"} /\ Main(l) \in procs

\* A directory lives until its launch takes it away or its owner is gone.
HasDirectory == \A l \in Launches : InUse(l) => l \in dirs

\* What a sweep is about to kill has no owner, and what it is about to remove is
\* not in use.
OrphansOnly == \A o \in Owners :
    /\ \A p \in found[o] : Reparented(p)
    /\ once[o] = "kill" => \A l \in Launches : InUse(l) => l \in live[o] \cup young
    /\ \A l \in Launches : InUse(l) => l \notin stale[o]

\* A chromerpc that does not run neither launches nor sweeps.
AtRest == \A o \in Owners :
    /\ ~Alive(o) => /\ once[o] = "no" /\ found[o] = {} /\ stale[o] = {}
                    /\ left[o] = Nothing
                    /\ \A d \in Dirs : Of(d) = o => pc[d] \in {"idle", "over"}
    /\ owner[o] = "new" => \A d \in Dirs : Of(d) = o => pc[d] = "idle"

\* May its launch, or its encoding, still begin?
Ahead(d) == owner[Of(d)] \notin {"exited", "killed"} /\ pc[d] \in {"idle", "sweep"}

\* What a launch has not made yet is nowhere, and no sweep looks for it.
Untouched ==
    /\ \A d \in Dirs : Ahead(d) =>
         d \notin dirs /\ \A o \in Owners : d \notin stale[o] \cup left[o].dirs
    /\ \A l \in Launches : Ahead(l) \/ pc[l] = "start" =>
         \A p \in Group(l) :
           p \notin procs /\ \A o \in Owners : p \notin found[o] \cup left[o].procs
    /\ \A l \in Launches : pc[l] = "start" =>
         l \in young /\ \A o \in Owners : l \notin stale[o]

\* What is left of an earlier owner is found, or gone for good, step by step.
Sweeping == \A o \in Owners :
    /\ \A p \in left[o].procs : Reparented(p)
    /\ \A d \in left[o].dirs : d \notin live[o] \cup young
    /\ once[o] \in {"kill", "remove", "done"} => left[o].procs \cap procs \subseteq found[o]
    /\ once[o] \in {"remove", "done"} => found[o] = {} /\ left[o].dirs \cap dirs \subseteq stale[o]
    /\ stale[o] # {} => once[o] = "remove"
    /\ \A l \in Launches :
         Of(l) = o /\ Alive(o) /\ pc[l] \notin {"idle", "sweep"} => once[o] \in {"done", "failed"}

\* A launch takes its processes away before its directory.
Killed(l) == Main(l) \notin procs /\ (Helper(l) \in procs => l \in unparsed)
KilledFirst == \A l \in Launches : pc[l] = "remove" => Killed(l)

\* Types, and why a sweep spares others although its `ps', its kills and its
\* removals are apart: the 30 s cover a launch that the snapshot missed, and what
\* has been taken away does not come back.
IInv ==
    /\ TypeOK
    /\ HasDirectory /\ OrphansOnly
    /\ AtRest /\ Untouched /\ Sweeping /\ KilledFirst

\* The sweep of one chromerpc never touches the Chrome, the helper or the
\* directory of another one that lives (reap.go:97, :110).
SweepSpares ==
    [][\A o \in Owners : Takes(o) => \A l \in Launches : InUse(l) =>
         /\ InUse(l)' /\ l \in dirs'
         /\ Helper(l) \in procs => Helper(l) \in procs']_vars

\* No launch adds a Chrome before everything that earlier owners had left when the
\* sweep began is gone, also when launches are concurrent, so that a crash loop
\* does not accumulate browsers (launcher.go:148).  Where ps fails there is no sweep.
SweepsFirst ==
    \A l \in Launches :
        LET o == Of(l) IN
        Alive(o) /\ once[o] # "failed" /\ pc[l] \notin {"idle", "sweep"}
            => left[o].procs \cap procs = {} /\ left[o].dirs \cap dirs = {}

\* A launch that is over, however it ended, has left neither process nor
\* directory, and so has, except in pool mode, a process that ended in order
\* (launcher.go:110); only the helpers of a Chrome that printed no URL may be
\* left, and what was to be kept.
NothingLeft ==
    \A l \in Launches :
        pc[l] = "over" \/ (owner[Of(l)] = "exited" /\ Of(l) \notin Pools) =>
            /\ Killed(l)
            /\ l \in dirs => Of(l) \in Keep
=============================================================================
