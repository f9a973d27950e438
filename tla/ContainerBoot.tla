--------------------------- MODULE ContainerBoot ---------------------------
(***************************************************************************)
(* The boot of the container, docker/first-boot.mjs and entrypoint.sh: the *)
(* secrets provisioned once per volume, the restore each of the two        *)
(* hiqlite nodes is to make once, and the two processes that live and die  *)
(* together.  A boot can be killed at any point of it and the restart      *)
(* policy starts the next one.                                             *)
(*                                                                         *)
(* The files that the operator's tools read are left out, one key pair     *)
(* stands for the two, and secrets.env for what is written once like it.   *)
(* A file whose write was killed half way is Torn.                         *)
(***************************************************************************)
EXTENDS Naturals

CONSTANTS
    Backups,    \* archives an operator may name
    None, Torn,
    Tearable,   \* files whose write may be killed half way
    MaxRequests,\* bound on the operator's changes of the environment
    MaxFaults   \* bound on kills and exits

Stores == {"rauthy", "app"}

VARIABLES
    request,   \* per store, ENRAHITU_RESTORE_<store>
    ambient,   \* HQL_BACKUP_RESTORE in the container's environment
    private, public, secrets, \* generation of each file, 0 for none
    marker,    \* restore-applied.json: per store, a backup; or Torn
    envFile,   \* restore.env: per store, the backup to restore or None
    lines,     \* first-boot's decisions
    shell,     \* the entrypoint's variables
    pc,        \* where the boot is
    data,      \* per store, the backup its content goes back to
    asked,     \* history: per store, a request not yet honoured, or whose
               \* record was lost with the marker
    served,    \* history: the keys the app was first started with, 0 for none
    requests, faults

vars == <<request, ambient, private, public, secrets, marker, envFile, lines,
          shell, pc, data, asked, served, requests, faults>>

keyVars == <<private, public, secrets>>

Nothing == [s \in Stores |-> None]

Init ==
    /\ request = Nothing /\ ambient \in {None} \cup Backups
    /\ private = 0 /\ public = 0 /\ secrets = 0
    /\ marker = Nothing /\ envFile = Nothing /\ lines = Nothing
    /\ shell = [restore |-> Nothing, hql |-> None]
    /\ pc = "down"
    /\ data = Nothing
    /\ asked = [s \in Stores |-> FALSE]
    /\ served = 0
    /\ requests = 0 /\ faults = 0

Goto(place) == pc' = place

-----------------------------------------------------------------------------
(* first-boot.mjs. *)

(* The restart policy, or the operator, starts the container. *)
Boot ==
    /\ pc = "down"
    /\ Goto("keys")
    /\ UNCHANGED <<request, ambient, keyVars, marker, envFile, lines, shell, data,
                   asked, served, requests, faults>>

HavePair == private # 0 /\ public # 0

(* A kill may come between the two files, and the next boot makes a new pair. *)
WritePrivate ==
    /\ pc = "keys"
    /\ IF HavePair THEN Goto("secrets") /\ UNCHANGED private
                   ELSE Goto("public") /\ private' = private + 1
    /\ UNCHANGED <<request, ambient, public, secrets, marker, envFile, lines, shell,
                   data, asked, served, requests, faults>>

WritePublic ==
    /\ pc = "public"
    /\ Goto("secrets")
    /\ public' = private
    /\ UNCHANGED <<request, ambient, private, secrets, marker, envFile, lines, shell,
                   data, asked, served, requests, faults>>

(* Variant: secrets are written at every boot. *)
NeverHeld == FALSE

HaveSecrets == secrets # 0

WriteSecrets ==
    /\ pc = "secrets"
    /\ Goto("decide")
    /\ secrets' = IF HaveSecrets THEN secrets ELSE secrets + 1
    /\ UNCHANGED <<request, ambient, private, public, marker, envFile, lines, shell,
                   data, asked, served, requests, faults>>

(* Variant: a boot refuses a marker it cannot read. *)
OpensIfWhole == marker # Torn

MarkerOpens == TRUE

Marked == IF marker = Torn THEN Nothing ELSE marker

Applied(s) == Marked[s] = request[s]

Decide ==
    /\ pc = "decide"
    /\ lines' = [s \in Stores |-> IF request[s] = None \/ Applied(s) THEN None
                                  ELSE request[s]]
    /\ Goto(IF ~MarkerOpens THEN "down" ELSE IF lines' = Nothing THEN "env"
            ELSE "marker")
    /\ UNCHANGED <<request, ambient, keyVars, marker, envFile, shell, data, asked,
                   served, requests, faults>>

(* Variant: the decisions are not recorded. *)
NotRecorded == marker

Recorded == [s \in Stores |-> IF lines[s] = None THEN Marked[s] ELSE lines[s]]

WriteMarker ==
    /\ pc = "marker"
    /\ Goto("env")
    /\ marker' = Recorded
    /\ UNCHANGED <<request, ambient, keyVars, envFile, lines, shell, data, asked,
                   served, requests, faults>>

WriteEnv ==
    /\ pc = "env"
    /\ Goto("source")
    /\ envFile' = lines
    /\ UNCHANGED <<request, ambient, keyVars, marker, lines, shell, data, asked,
                   served, requests, faults>>

-----------------------------------------------------------------------------
(* entrypoint.sh. *)

Scrubbed == None

Source ==
    /\ pc = "source"
    /\ Goto("rauthy")
    /\ shell' = [restore |-> envFile, hql |-> Scrubbed]
    /\ UNCHANGED <<request, ambient, keyVars, marker, envFile, lines, data, asked,
                   served, requests, faults>>

(* HQL_BACKUP_RESTORE as a store's process sees it; a node that sees one
   restores it before it does anything else. *)
Offered(s) == IF shell.restore[s] # None THEN shell.restore[s] ELSE shell.hql

StartNode(s) ==
    IF Offered(s) = None THEN UNCHANGED <<data, asked>>
    ELSE /\ data' = [data EXCEPT ![s] = Offered(s)]
         /\ asked' = [asked EXCEPT ![s] = FALSE]

(* With names missing from secrets.env the shell that starts rauthy exits, and
   the container with it. *)
StartRauthy ==
    /\ pc = "rauthy"
    /\ IF secrets = Torn THEN Goto("down") /\ UNCHANGED <<data, asked>>
                         ELSE Goto("wait") /\ StartNode("rauthy")
    /\ UNCHANGED <<request, ambient, keyVars, marker, envFile, lines, shell,
                   served, requests, faults>>

(* rauthy is healthy, or sixty seconds are over. *)
Healthy ==
    /\ pc = "wait"
    /\ Goto("app")
    /\ UNCHANGED <<request, ambient, keyVars, marker, envFile, lines, shell, data,
                   asked, served, requests, faults>>

StartApp ==
    /\ pc = "app"
    /\ Goto("run")
    /\ StartNode("app")
    /\ served' = IF served = 0 THEN private ELSE served
    /\ UNCHANGED <<request, ambient, keyVars, marker, envFile, lines, shell,
                   requests, faults>>

-----------------------------------------------------------------------------
(* docker stop of a running cell. *)
Stop ==
    /\ pc = "run"
    /\ Goto("down")
    /\ UNCHANGED <<request, ambient, keyVars, marker, envFile, lines, shell, data,
                   asked, served, requests, faults>>

(* A process exits and takes the other with it, or the boot is killed, perhaps
   half way through a write.  A marker torn is as if nothing that is set had
   ever been honoured. *)
Kill ==
    /\ pc # "down" /\ faults < MaxFaults
    /\ Goto("down")
    /\ faults' = faults + 1
    /\ \E torn \in {"nothing"} \cup ({pc} \cap Tearable) :
          /\ secrets' = IF torn = "secrets" /\ ~HaveSecrets THEN Torn ELSE secrets
          /\ public' = IF torn = "public" THEN Torn ELSE public
          /\ marker' = IF torn = "marker" THEN Torn ELSE marker
          /\ asked' = IF torn = "marker" THEN [s \in Stores |-> request[s] # None]
                                         ELSE asked
    /\ UNCHANGED <<request, ambient, private, envFile, lines, shell, data,
                   served, requests>>

(* The operator changes the container's environment while it is down. *)
Request(s, b) ==
    /\ pc = "down" /\ requests < MaxRequests /\ b # request[s]
    /\ requests' = requests + 1
    /\ request' = [request EXCEPT ![s] = b]
    /\ asked' = [asked EXCEPT ![s] = b # None]
    /\ UNCHANGED <<ambient, keyVars, marker, envFile, lines, shell, pc, data, served,
                   faults>>

Step ==
    \/ Boot \/ WritePrivate \/ WritePublic \/ WriteSecrets
    \/ Decide \/ WriteMarker \/ WriteEnv
    \/ Source \/ StartRauthy \/ Healthy \/ StartApp

Next ==
    \/ Step \/ Stop \/ Kill
    \/ \E s \in Stores, b \in Backups \cup {None} : Request(s, b)

(* The restart policy starts what is down, and a boot goes on. *)
Spec == Init /\ [][Next]_vars /\ WF_vars(Step)

-----------------------------------------------------------------------------

(* A restore is made once, and by the node it is for: a node restores only what
   its own variable names and it has not honoured, so a variable that is left set
   discards nothing, however boots are killed, as long as the marker that records
   it is not torn. *)
RestoredOnce ==
    [][\A s \in Stores :
          (pc = s /\ pc' \notin {pc, "down"} /\ Offered(s) # None) =>
              asked[s] /\ Offered(s) = request[s]]_vars

(* A running store goes back to the backup its variable names: "the decision is
   recorded on the volume the first time it is honoured" (OPERATIONS.md:485-486),
   and not before. *)
RecordedWhenHonoured ==
    pc = "run" => \A s \in Stores : request[s] # None => data[s] = request[s]

(* What has once been served with is never generated again. *)
KeysStable == [][served # 0 => UNCHANGED keyVars]_vars

(* A container that goes down comes up again. *)
Recovers == pc = "down" ~> pc = "run"
=============================================================================
