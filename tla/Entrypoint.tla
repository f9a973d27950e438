------------------------------ MODULE Entrypoint ------------------------------
(***************************************************************************)
(* The life of a container's first process: docker/entrypoint.sh, a shell  *)
(* under set -e that judges what the start needs                           *)
(* (scripts/ops/preflight.mjs), runs first boot, starts rauthy and the app *)
(* and waits for the first of them to end.  Both bind ports that others of *)
(* the host may take, end when told to, end by themselves or are killed by *)
(* a signal; the container is stopped, or killed, at any time.  How first  *)
(* boot restores and writes keys is in ContainerBoot.                      *)
(***************************************************************************)
EXTENDS Naturals, FiniteSets

CONSTANTS
    MaxTries,   \* tries of rauthy's health, sixty in the code
    MaxChanges  \* bound on what happens to the host

VARIABLES
    wrong,    \* the checks that found something wrong, or will
    dir,      \* the data directory
    busy,     \* ports that another process of the host holds
    probed,   \* ports the preflight has looked at
    pc,       \* what the shell does next
    tries,    \* failed tries of rauthy's health
    children, \* rauthy ("idp") and the app
    noted,    \* the children whose pid the shell has in RAUTHY_PID and APP_PID
    missed,   \* the children whose end the shell has dropped before it waits
    stop,     \* the container's stop
    how,      \* how the shell ended
    cut,      \* children that were still running then
    changes   \* what has happened to the host so far

vars == <<wrong, dir, busy, probed, pc, tries, children, noted, missed, stop, how, cut,
          changes>>

Supervised == {"idp", "app"}

Running == {"starting", "up", "ending"}

Gone(q) == children[q] \in {"exited", "killed"}

(* The checks of what the environment says. *)
EnvChecks == {"required_env", "public_url", "ledger_url"}

(* Each of the processes stands for the ports it binds. *)
Init ==
    /\ wrong \in SUBSET EnvChecks
    /\ dir \in {"absent", "sealed", "writable"}
    /\ busy \in SUBSET Supervised
    /\ probed = {}
    /\ pc = "data_dir" /\ tries = 0
    /\ children = [q \in Supervised |-> "none"]
    /\ noted = {} /\ missed = {} /\ cut = {}
    /\ stop = "no" /\ how = "runs" /\ changes = 0

Goto(l) ==
    /\ pc' = l
    /\ UNCHANGED <<stop, how, cut>>

(* The first process of a container ends, and takes whatever still runs with it. *)
End(h) ==
    /\ pc' = "ended" /\ how' = h
    /\ cut' = {q \in Supervised : children[q] \in Running}
    /\ children' = [q \in Supervised |-> IF q \in cut' THEN "killed" ELSE children[q]]
    /\ UNCHANGED stop

-----------------------------------------------------------------------------
(***************************************************************************)
(* Before anything runs.  What the checks make of the environment is in    *)
(* `wrong` from the start: nothing changes it meanwhile.  A check that     *)
(* fails does not keep the others from being made, and the migrations that *)
(* are applied or not are reported and judge nothing.                      *)
(***************************************************************************)

(* A directory that is not there yet will be made. *)
CheckDataDir ==
    /\ pc = "data_dir"
    /\ wrong' = IF dir = "sealed" THEN wrong \cup {"data_dir"} ELSE wrong
    /\ Goto("ports")
    /\ UNCHANGED <<dir, busy, probed, tries, children, noted, missed, changes>>

(* The probes are made at once: each binds its port and lets it go. *)
ProbePort(q) ==
    /\ pc = "ports" /\ q \notin probed
    /\ probed' = probed \cup {q}
    /\ wrong' = IF q \in busy THEN wrong \cup {"ports"} ELSE wrong
    /\ Goto("ports")
    /\ UNCHANGED <<dir, busy, tries, children, noted, missed, changes>>

Verdict ==
    /\ pc = "ports" /\ probed = Supervised
    /\ IF wrong = {} THEN Goto("first_boot") /\ UNCHANGED children ELSE End("refused")
    /\ UNCHANGED <<wrong, dir, busy, probed, tries, noted, missed, changes>>

FirstBoot ==
    /\ pc = "first_boot"
    /\ IF dir = "sealed"
       THEN End("failed") /\ UNCHANGED dir
       ELSE Goto("idp") /\ dir' = "writable" /\ UNCHANGED children
    /\ UNCHANGED <<wrong, busy, probed, tries, noted, missed, changes>>

-----------------------------------------------------------------------------
(* rauthy is forked, its pid is noted and the traps are set. *)
StartIdp ==
    /\ pc = "idp"
    /\ children' = [children EXCEPT !["idp"] = "starting"]
    /\ noted' = {"idp"}
    /\ Goto("health")
    /\ UNCHANGED <<wrong, dir, busy, probed, tries, missed, changes>>

(* Whoever holds the port answers. *)
Healthy ==
    /\ pc = "health"
    /\ children["idp"] = "up" \/ "idp" \in busy
    /\ Goto("keys")
    /\ UNCHANGED <<wrong, dir, busy, probed, tries, children, noted, missed, changes>>

(* No answer, or one that is not OK.  After the last try the shell goes on. *)
NotHealthy ==
    /\ pc = "health"
    /\ IF Gone("idp")
       THEN End("together") /\ UNCHANGED tries
       ELSE /\ tries' = tries + 1
            /\ Goto(IF tries' = MaxTries THEN "keys" ELSE "health")
            /\ UNCHANGED children
    /\ UNCHANGED <<wrong, dir, busy, probed, noted, missed, changes>>

(* A key that cannot be read ends the shell under set -e. *)
ReadKeys ==
    /\ pc = "keys"
    /\ \/ dir # "absent" /\ Goto("app") /\ UNCHANGED children
       \/ dir # "writable" /\ End("failed")
    /\ UNCHANGED <<wrong, dir, busy, probed, tries, noted, missed, changes>>

StartApp ==
    /\ pc = "app"
    /\ children' = [children EXCEPT !["app"] = "starting"]
    /\ Goto("note")
    /\ UNCHANGED <<wrong, dir, busy, probed, tries, noted, missed, changes>>

NoteApp ==
    /\ pc = "note"
    /\ noted' = noted \cup {"app"}
    /\ Goto("wait")
    /\ UNCHANGED <<wrong, dir, busy, probed, tries, children, missed, changes>>

(* A child that a signal has ended may have been dropped from the table of jobs
   by now, and wait -n does not know it any more. *)
Wait ==
    /\ pc = "wait"
    /\ missed' \in SUBSET {q \in Supervised : children[q] = "killed"}
    /\ Goto("first")
    /\ UNCHANGED <<wrong, dir, busy, probed, tries, children, noted, changes>>

Told(qs) ==
    children' = [q \in Supervised |->
        IF q \in qs /\ children[q] \in Running THEN "ending" ELSE children[q]]

(* wait -n returns with the first end it sees, or with none to wait for. *)
FirstEnds ==
    /\ pc = "first"
    /\ missed = Supervised \/ \E q \in Supervised \ missed : Gone(q)
    /\ Told(Supervised)
    /\ Goto("all")
    /\ UNCHANGED <<wrong, dir, busy, probed, tries, noted, missed, changes>>

AllEnd ==
    /\ pc = "all" /\ \A q \in Supervised : Gone(q)
    /\ End("together")
    /\ UNCHANGED <<wrong, dir, busy, probed, tries, noted, missed, changes>>

-----------------------------------------------------------------------------
(* Where the traps are set; before that a stop finds no handler, and is a kill once
   its grace is over. *)
Armed == pc \in {"health", "keys", "app", "note", "wait", "first", "all"}

Stop ==
    /\ Armed /\ stop = "no"
    /\ stop' = "pending"
    /\ UNCHANGED <<wrong, dir, busy, probed, pc, tries, children, noted, missed, how, cut,
                   changes>>

(* Variant: the app is forgotten. *)
IdpOnly == {"idp"}

(* The pids that are signalled and waited for. *)
TrapPids == noted

(* The trap runs between two commands, or in the middle of a wait. *)
Shutdown ==
    /\ stop = "pending" /\ Armed
    /\ stop' = "handled" /\ pc' = "stopping"
    /\ Told(TrapPids)
    /\ UNCHANGED <<wrong, dir, busy, probed, tries, noted, missed, how, cut, changes>>

Stopped ==
    /\ pc = "stopping" /\ \A q \in TrapPids : Gone(q)
    /\ End("stopped")
    /\ UNCHANGED <<wrong, dir, busy, probed, tries, noted, missed, changes>>

(* The runtime kills the container, or the kernel its first process. *)
Killed ==
    /\ pc # "ended"
    /\ End("killed")
    /\ UNCHANGED <<wrong, dir, busy, probed, tries, noted, missed, changes>>

-----------------------------------------------------------------------------
Becomes(q, state) ==
    /\ children' = [children EXCEPT ![q] = state]
    /\ UNCHANGED <<wrong, dir, busy, probed, pc, tries, noted, missed, stop, how, cut,
                   changes>>

(* A process ends with the ports it cannot bind. *)
Bind(q) ==
    /\ children[q] = "starting"
    /\ Becomes(q, IF q \in busy THEN "exited" ELSE "up")

(* A process ends, as it was told or by itself, or a signal ends it. *)
Ends(q) == children[q] = "ending" /\ Becomes(q, "exited")

Dies(q) ==
    /\ children[q] \in Running
    /\ \E state \in {"exited", "killed"} : Becomes(q, state)

(* A port is taken or let go; the volume is taken away, sealed or put right. *)
Happens ==
    /\ pc # "ended" /\ changes < MaxChanges
    /\ changes' = changes + 1
    /\ \/ /\ \E q \in Supervised :
                \/ q \in busy /\ busy' = busy \ {q}
                \/ /\ q \notin busy /\ children[q] \notin {"up", "ending"}
                   /\ busy' = busy \cup {q}
          /\ UNCHANGED dir
       \/ /\ dir' \in {"absent", "sealed", "writable"} \ {dir}
          /\ UNCHANGED busy
    /\ UNCHANGED <<wrong, probed, pc, tries, children, noted, missed, stop, how, cut>>

Shell ==
    \/ CheckDataDir \/ (\E q \in Supervised : ProbePort(q)) \/ Verdict \/ FirstBoot
    \/ StartIdp \/ Healthy \/ NotHealthy \/ ReadKeys \/ StartApp \/ NoteApp
    \/ Wait \/ FirstEnds \/ AllEnd \/ Shutdown \/ Stopped

Next ==
    \/ Shell \/ Stop \/ Killed \/ Happens
    \/ \E q \in Supervised : Bind(q) \/ Ends(q) \/ Dies(q)

Spec ==
    /\ Init /\ [][Next]_vars
    /\ WF_vars(Shell)
    /\ \A q \in Supervised : WF_vars(Ends(q))

-----------------------------------------------------------------------------
(* The shell has ended; and of what it has noted, all had ended before, unless it was
   killed itself or failed for a volume that was taken from it. *)
Settled ==
    /\ pc = "ended"
    /\ cut \cap noted = {} \/ how \in {"killed", "failed"}

Due == stop # "no" \/ \E q \in Supervised \ missed : Gone(q)

(***************************************************************************)
(* A stop that the traps see, and the end of either process, end the       *)
(* container, and neither process is cut off: "if either process exits,    *)
(* the container exits" (entrypoint.sh:3-4), and a stop "has to reach the  *)
(* supervised processes" (206-212), which otherwise leave their locks.     *)
(* What is due stays so, but for an end that wait -n no longer knows.      *)
(***************************************************************************)
DiesTogether == []<>(Due => Settled)

(* The stop, and the end, of which nothing is left out; the app may be forked and
   not noted yet, or have been missed. *)
StopReachesAll == stop = "pending" ~> pc = "ended" /\ (cut = {} \/ how \in {"killed", "failed"})

EitherEnds == \A q \in Supervised : Gone(q) ~> Settled

(* "The entrypoint waits for rauthy health on loopback before starting the app" (spec
   007:102). *)
HealthFirst == pc = "keys" => tries < MaxTries
=============================================================================
