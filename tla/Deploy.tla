------------------------------- MODULE Deploy -------------------------------
(***************************************************************************)
(* scripts/deploy-vps.sh: runs of the script that replace the running      *)
(* container, one command at a time, any of which may fail, be interrupted *)
(* (the terminal closes, the machine restarts) or meet another run.        *)
(* Docker (external) keeps images, two tags and the container.  An image   *)
(* is its number; nothing of its content matters but whether it can become *)
(* ready.  Database, Compose and Caddy files are not restored by the       *)
(* script and are not modelled.                                            *)
(***************************************************************************)
EXTENDS Integers

CONSTANTS
    Runs,       \* invocations of the script that may overlap
    None,       \* no image, no holder of the lock
    MaxImages   \* bound: how many images are built

ASSUME RunsAssumption == None \notin Runs
ASSUME ImagesAssumption == MaxImages \in Nat \ {0} /\ None \notin 1..MaxImages

Images == 1..MaxImages

VARIABLES
    images,     \* the images there are
    fit,        \* those that can become ready
    app,        \* what APP_IMAGE tags
    kept,       \* what ROLLBACK_IMAGE tags
    container,  \* the image of the running container
    lock,       \* the run that holds the flock
    pc,         \* the line a run is at
    old,        \* its old_image_id
    found,      \* ghost: the container when the run got the lock
    restored,   \* ghost: its rollback put the tag back
    trusted,    \* ghost: the last image that passed all checks
    trouble     \* ghost: since then, a run ended on another image

docker == <<images, fit, app, kept, container>>
run == <<lock, old, found, restored>>
vars == <<docker, run, pc, trusted, trouble>>

Over == {"idle", "unchanged", "died", "restored", "complete"}
Goto(r, line) == pc' = [pc EXCEPT ![r] = line]

(***************************************************************************)
(* Docker                                                                  *)
(***************************************************************************)
(* docker image rm <tag>: the last reference takes the image with it, and  *)
(* stays if the container uses the image.                                  *)
RemoveKeptTag ==
    \/ kept = None /\ UNCHANGED <<images, kept>>
    \/ kept # None /\ kept = app /\ kept' = None /\ UNCHANGED images
    \/ kept # None /\ kept # app /\ kept = container /\ UNCHANGED <<images, kept>>
    \/ kept # None /\ kept \notin {app, container} /\ kept' = None /\ images' = images \ {kept}

(* "|| true": the removal may also fail.                                   *)
TryRemoveKeptTag == RemoveKeptTag \/ UNCHANGED <<images, kept>>

(* docker compose up: the container runs the tagged image; a failure may   *)
(* leave the old container, none, or the new one.                          *)
ComposeUp == app # None /\ container' = app
ComposeUpFails == container' \in {container, None, app}

(* With an exit, the lock and the shell variables are gone.                *)
End(r, line) ==
    /\ Goto(r, line) /\ lock' = None
    /\ old' = [old EXCEPT ![r] = None] /\ found' = [found EXCEPT ![r] = None]
    /\ restored' = [restored EXCEPT ![r] = FALSE]

(* A run that is killed, or whose rollback fails, may leave an image in    *)
(* the container that did not pass the checks, or no container.            *)
NoteTrouble == trouble' = (trouble \/ container' # trusted)

(***************************************************************************)
(* A run, from the lock to the build                                       *)
(***************************************************************************)
(* Mutant of FlockSucceeds: no lock.                                       *)
FlockNever(r) == TRUE

(* flock -n                                                                *)
FlockSucceeds(r) == lock = None

(* old_image_id is the container's image, else the tagged one; a failing   *)
(* inspection leaves it empty.                                             *)
Start(r) ==
    /\ pc[r] \in Over /\ FlockSucceeds(r)
    /\ lock' = r
    /\ old' \in {[old EXCEPT ![r] = IF container # None THEN container ELSE app],
                 [old EXCEPT ![r] = None]}
    /\ found' = [found EXCEPT ![r] = container]
    /\ restored' = [restored EXCEPT ![r] = FALSE]
    /\ Goto(r, "clear")
    /\ UNCHANGED <<docker, trusted, trouble>>

ClearTag(r) ==
    /\ pc[r] = "clear"
    /\ IF old[r] = None THEN UNCHANGED <<images, kept>> ELSE TryRemoveKeptTag
    /\ Goto(r, IF old[r] = None THEN "prepare" ELSE "preserve")
    /\ UNCHANGED <<fit, app, container, run, trusted, trouble>>

(* A failing tag ends the run, by set -e.                                  *)
Preserve(r) ==
    /\ pc[r] = "preserve"
    /\ \/ kept' = old[r] /\ Goto(r, "prepare") /\ UNCHANGED run
       \/ UNCHANGED kept /\ End(r, "died")
    /\ UNCHANGED <<images, fit, app, container, trusted, trouble>>

GiveUp(r) ==
    /\ IF old[r] = None THEN UNCHANGED <<images, kept>> ELSE TryRemoveKeptTag
    /\ End(r, "unchanged")

(* git pull, then the validation of the configuration.                     *)
Prepare(r) ==
    /\ pc[r] = "prepare"
    /\ \/ Goto(r, "build") /\ UNCHANGED <<images, kept, run>>
       \/ GiveUp(r)
    /\ UNCHANGED <<fit, app, container, trusted, trouble>>

(* A new image takes the tag; with nothing new, the same one keeps it.     *)
Build(r) ==
    /\ pc[r] = "build"
    /\ \/ \E i \in Images \ images :
             /\ \A j \in images : j < i
             /\ images' = images \cup {i} /\ app' = i
             /\ fit' \in {fit, fit \cup {i}}
             /\ Goto(r, "up") /\ UNCHANGED <<kept, run>>
       \/ app # None /\ Goto(r, "up") /\ UNCHANGED <<images, fit, app, kept, run>>
       \/ GiveUp(r) /\ UNCHANGED <<fit, app>>
    /\ UNCHANGED <<container, trusted, trouble>>

(***************************************************************************)
(* Replacing the container, and checking it                                *)
(***************************************************************************)
(* Mutant of Up: the old image is removed before the checks.               *)
UpAndClean(r) ==
    /\ pc[r] = "up"
    /\ ComposeUp /\ images' = images \ ({old[r]} \ {app}) /\ kept' = None
    /\ Goto(r, "ready")
    /\ UNCHANGED <<fit, app, run, trusted, trouble>>

Up(r) ==
    /\ pc[r] = "up"
    /\ \/ ComposeUp /\ Goto(r, "ready")
       \/ ComposeUpFails /\ Goto(r, "tag back")
    /\ UNCHANGED <<images, fit, app, kept, run, trusted, trouble>>

(* /health/ready answers in time, or not.                                  *)
AwaitReady(r) ==
    /\ pc[r] = "ready"
    /\ \/ container # None /\ container \in fit /\ Goto(r, "public")
       \/ Goto(r, "tag back")
    /\ UNCHANGED <<docker, run, trusted, trouble>>

(* BASE_URL is read from the container, and Caddy asked; or the check is   *)
(* skipped by request.                                                     *)
AwaitPublic(r) ==
    /\ pc[r] = "public"
    /\ \/ Goto(r, "clean") /\ trusted' = container /\ trouble' = FALSE
       \/ Goto(r, "tag back") /\ UNCHANGED <<trusted, trouble>>
    /\ UNCHANGED <<docker, run>>

(***************************************************************************)
(* rollback || true: its commands' failures do not stop it                 *)
(***************************************************************************)
TagBack(r) ==
    /\ pc[r] = "tag back"
    /\ UNCHANGED <<images, fit, kept, container, trusted>>
    /\ \/ /\ old[r] = None \/ kept = None
          /\ End(r, "died") /\ NoteTrouble /\ UNCHANGED app
       \/ /\ old[r] # None /\ kept # None
          /\ \/ app' = kept /\ restored' = [restored EXCEPT ![r] = TRUE]
             \/ UNCHANGED <<app, restored>>
          /\ Goto(r, "recreate") /\ UNCHANGED <<lock, old, found, trouble>>

Recreate(r) ==
    /\ pc[r] = "recreate"
    /\ \/ restored[r] /\ ComposeUp /\ End(r, "restored") /\ UNCHANGED trouble
       \/ ~restored[r] /\ ComposeUp /\ End(r, "died") /\ NoteTrouble
       \/ ComposeUpFails /\ End(r, "died") /\ NoteTrouble
    /\ UNCHANGED <<images, fit, app, kept, trusted>>

(***************************************************************************)
(* Cleaning up                                                             *)
(***************************************************************************)
(* The rollback tag goes, then the old image by its number, with a tag     *)
(* that is still on it.  A failing inspection of the new image ends the    *)
(* run first, by set -e.                                                   *)
Clean(r) ==
    /\ pc[r] = "clean"
    /\ \/ /\ IF old[r] = None THEN UNCHANGED <<images, kept>> ELSE TryRemoveKeptTag
          /\ Goto(r, "remove") /\ UNCHANGED run
       \/ End(r, "died") /\ UNCHANGED <<images, kept>>
    /\ UNCHANGED <<fit, app, container, trusted, trouble>>

RemoveOld(r) ==
    /\ pc[r] = "remove"
    /\ \/ UNCHANGED <<images, kept>>
       \/ /\ old[r] \notin {None, app, container}
          /\ images' = images \ {old[r]}
          /\ kept' = IF kept = old[r] THEN None ELSE kept
    /\ Goto(r, "prune")
    /\ UNCHANGED <<fit, app, container, run, trusted, trouble>>

(* docker image prune: what has no tag and no container; it may fail, and  *)
(* set -e ends the run.                                                    *)
Prune(r) ==
    /\ pc[r] = "prune"
    /\ \/ images' = images \cap {app, kept, container} /\ End(r, "complete")
       \/ UNCHANGED images /\ End(r, "died")
    /\ UNCHANGED <<fit, app, kept, container, trusted, trouble>>

(* The run is killed between two commands; the flock goes with it.         *)
Interrupt(r) ==
    /\ pc[r] \notin Over
    /\ End(r, "idle")
    /\ UNCHANGED <<docker, trusted>>
    /\ NoteTrouble

(***************************************************************************)
(* The specification                                                       *)
(***************************************************************************)
(* A first deployment, or one over a container that passed the checks.     *)
Init ==
    /\ \/ images = {} /\ app = None /\ container = None
       \/ images = {1} /\ app = 1 /\ container = 1
    /\ fit = images /\ trusted = container
    /\ kept = None /\ lock = None /\ trouble = FALSE
    /\ pc = [r \in Runs |-> "idle"]
    /\ old = [r \in Runs |-> None] /\ found = [r \in Runs |-> None]
    /\ restored = [r \in Runs |-> FALSE]

Step(r) ==
    \/ Start(r) \/ ClearTag(r) \/ Preserve(r) \/ Prepare(r) \/ Build(r)
    \/ Up(r) \/ AwaitReady(r) \/ AwaitPublic(r) \/ TagBack(r) \/ Recreate(r)
    \/ Clean(r) \/ RemoveOld(r) \/ Prune(r) \/ Interrupt(r)

Next == \E r \in Runs : Step(r)
Spec == Init /\ [][Next]_vars

(***************************************************************************)
(* Properties                                                              *)
(***************************************************************************)
TypeOK ==
    /\ images \subseteq Images /\ fit \subseteq Images
    /\ app \in Images \cup {None} /\ kept \in Images \cup {None}
    /\ container \in Images \cup {None} /\ trusted \in Images \cup {None}
    /\ lock \in Runs \cup {None}
    /\ pc \in [Runs -> Over \cup {"clear", "preserve", "prepare", "build", "up", "ready",
                                  "public", "tag back", "recreate", "clean", "remove", "prune"}]
    /\ old \in [Runs -> Images \cup {None}] /\ found \in [Runs -> Images \cup {None}]
    /\ restored \in [Runs -> BOOLEAN] /\ trouble \in BOOLEAN

(* What a run says last is so.  "The running containers were not changed": *)
(* the container is the one it found.  "Deployment complete": the container*)
(* runs the tagged image and was seen ready.  After a rollback whose two   *)
(* commands succeeded, it runs the image the run found                     *)
(* (deploy-vps.sh:34-38, 63, 73, 79, 88-90, 163).                          *)
LastLineIsTrue ==
    [][\A r \in Runs : pc[r] \notin Over =>
          /\ pc'[r] = "unchanged" => container' = found[r]
          /\ pc'[r] = "complete" => container' = app' /\ container' \in fit /\ container' = trusted'
          /\ pc'[r] = "restored" /\ found[r] # None => container' = found[r]]_vars

(* The image that last passed the checks is not lost before another one    *)
(* passed them, whatever fails and wherever a run is killed, unless a run  *)
(* was killed after it had replaced the container, or could not restore    *)
(* it, and so ended on another image; and during a run the image it found  *)
(* is there to go back to, even then (deploy-vps.sh:54-58, 152-161;        *)
(* README.md:278-279).                                                     *)
GoodImageKept ==
    /\ trusted # None /\ ~trouble => trusted \in images
    /\ \A r \in Runs :
          pc[r] \notin Over \cup {"clean", "remove", "prune"} /\ old[r] # None => old[r] \in images
=============================================================================
