---------------------------- MODULE MCProcesses ----------------------------
(***************************************************************************)
(* Five things that live on their own, for TLC in one graph: the           *)
(* controllers' loops of one process, the container's boot, its first      *)
(* process, the watch loop of development, and the Decision ledger of one  *)
(* process.  `part` says which of them a behaviour is of; the others stay  *)
(* where they begin.  Their variables and constants are named as there,    *)
(* with boot, entry, dev or ledger before a name that two of them have.    *)
(***************************************************************************)
EXTENDS WatchLoop

CONSTANTS
    c1, c2, None,
    Backups, Torn, Tearable, MaxRequests,
    MaxTries, MaxChanges,
    Contents, Pids, Polling, MaxEdits, MaxStuck,
    Procs, Models, Denials, Allows, BootJob, CASAttempts, MaxCrashes, MaxErrors

TwoControllers == {c1, c2}

VARIABLES
    part,
    request, ambient, private, public, secrets, marker, envFile, lines, shell, bootPc,
    data, asked, served, requests, bootFaults,
    wrong, dir, busy, probed, entryPc, tries, children, noted, missed, stop, how, cut,
    changes,
    tree, edits, broken, read, torn, fingerprint, event, timer, main, devPc,
    pendingRebuild, dying, stopping, child, alive, stuck, abandoned, exits,
    chain, dirty, proc, ledgerAsked, unmarked, unanswered, crashes, errors

Boot == INSTANCE ContainerBoot WITH pc <- bootPc, faults <- bootFaults

Entry == INSTANCE Entrypoint WITH pc <- entryPc

Dev == INSTANCE DevWatch WITH pc <- devPc

Ledger == INSTANCE DecisionLedger WITH Founded <- <<>>, asked <- ledgerAsked

(* A marker that was torn is none that was written. *)
ASSUME TornApart == Torn \notin [Boot!Stores -> Backups \cup {None}]

(* A process is not the marker for none, nor the one for no signal. *)
ASSUME PidsApart == Pids \cap {None, "no"} = {}

bootVars == <<request, ambient, private, public, secrets, marker, envFile, lines, shell,
              bootPc, data, asked, served, requests, bootFaults>>

entryVars == <<wrong, dir, busy, probed, entryPc, tries, children, noted, missed, stop,
               how, cut, changes>>

devVars == <<tree, edits, broken, read, torn, fingerprint, event, timer, main,
             devPc, pendingRebuild, dying, stopping, child, alive, stuck, abandoned, exits>>

ledgerVars == <<chain, dirty, proc, ledgerAsked, unmarked, unanswered, crashes, errors>>

allVars == <<part, vars, bootVars, entryVars, devVars, ledgerVars>>

OfWatch(A) ==
    part = "watch" /\ A /\ UNCHANGED <<part, bootVars, entryVars, devVars, ledgerVars>>

OfBoot(A) ==
    part = "boot" /\ A /\ UNCHANGED <<part, vars, entryVars, devVars, ledgerVars>>

OfEntry(A) ==
    part = "entry" /\ A /\ UNCHANGED <<part, vars, bootVars, devVars, ledgerVars>>

OfDev(A) ==
    part = "dev" /\ A /\ UNCHANGED <<part, vars, bootVars, entryVars, ledgerVars>>

OfLedger(A) ==
    part = "ledger" /\ A /\ UNCHANGED <<part, vars, bootVars, entryVars, devVars>>

AllInit ==
    /\ part \in {"watch", "boot", "entry", "dev", "ledger"}
    /\ Init /\ Boot!Init /\ Entry!Init /\ Dev!Init /\ Ledger!Init
    /\ part # "watch" => ~schema
    /\ part # "boot" => ambient = None
    /\ part # "entry" => wrong = {} /\ dir = "absent" /\ busy = {}
    /\ tree = CHOOSE c \in Contents : TRUE
    /\ part # "dev" => broken = {}

AllNext ==
    \/ OfWatch(Next) \/ OfBoot(Boot!Next) \/ OfEntry(Entry!Next)
    \/ OfDev(Dev!Next) \/ OfLedger(Ledger!Next)

AllSpec ==
    /\ AllInit /\ [][AllNext]_allVars
    /\ WF_allVars(OfWatch(NodeUp)) /\ WF_allVars(OfWatch(StartPump))
    /\ WF_allVars(OfWatch(Deliver)) /\ WF_allVars(OfWatch(BackedOff))
    /\ \A c \in Controllers : WF_allVars(OfWatch(Loop(c)))
    /\ WF_allVars(OfBoot(Boot!Step))
    /\ WF_allVars(OfEntry(Entry!Shell))
    /\ \A q \in Entry!Supervised : WF_allVars(OfEntry(Entry!Ends(q)))
    /\ WF_allVars(OfDev(Dev!Poll)) /\ WF_allVars(OfDev(Dev!Fire))
    /\ WF_allVars(OfDev(Dev!Compile)) /\ WF_allVars(OfDev(Dev!BuildEnds))
    /\ \A p \in Pids :
          /\ WF_allVars(OfDev(Dev!Signalled(p))) /\ WF_allVars(OfDev(Dev!Exit(p)))
          /\ WF_allVars(OfDev(Dev!Abandon(p)))
    /\ \A p \in Procs :
          /\ WF_allVars(OfLedger(Ledger!Run(p)))
          /\ WF_allVars(OfLedger(\E m \in Models : Ledger!Boot(p, m)))

(* ContainerBoot: a restore is made once, and by the node it is for. *)
RestoredOnce == Boot!RestoredOnce

(* ContainerBoot: what has once been served with is never generated again. *)
KeysStable == Boot!KeysStable

(* ContainerBoot: a container that goes down comes up again. *)
Recovers == part = "boot" => Boot!Recovers

(* Entrypoint: a stop, or the end of one process, ends the container, and cuts
   nothing off. *)
DiesTogether == Entry!DiesTogether

(* DevWatch: what is in the tree comes to be what was last built. *)
EditsBuilt == Dev!EditsBuilt

(* DecisionLedger: a denial that a crash takes from an open bracket is marked by
   the next boot. *)
LossesMarked == Ledger!LossesMarked

(* DecisionLedger: a burst of denials ends and takes the flag with it. *)
BracketCloses == Ledger!BracketCloses
=============================================================================
