---------------------------- MODULE DeployProofs ----------------------------
(***************************************************************************)
(* For any number of invocations of the deployment script and any number   *)
(* of images: type correctness, GoodImageKept and LastLineIsTrue.          *)
(*                                                                         *)
(* The lock makes the script sequential: whoever is past its first line    *)
(* holds it (RunInv).  Along one run, the rollback tag or the container    *)
(* always refers to the image it found, until the checks have passed; and  *)
(* the image that last passed them is the one the container runs, or the   *)
(* one the run found (TrustInv).                                           *)
(***************************************************************************)
EXTENDS Deploy, TLAPS

Early == {"clear", "preserve", "prepare", "build", "up"}
Tagged == {"prepare", "build", "up", "ready", "public", "tag back", "recreate"}
Late == {"clean", "remove", "prune"}
Lines == Early \cup Tagged \cup Late

(* Tags and container refer to images that exist.                          *)
References == {app, kept, container} \subseteq images \cup {None}

RunInv(r) ==
    pc[r] \notin Over =>
        /\ lock = r
        /\ old[r] # None /\ found[r] # None => old[r] = found[r]
        /\ pc[r] \in {"clear", "preserve"} /\ old[r] # None => old[r] \in {app, container}
        /\ pc[r] \in Tagged /\ old[r] # None => kept = old[r]
        /\ pc[r] = "recreate" => old[r] # None
        /\ restored[r] => pc[r] = "recreate" /\ app = old[r]
        /\ pc[r] \in Early => container = found[r]
        /\ pc[r] \in {"ready", "public"} \cup Late => container = app /\ app # None
        /\ pc[r] \in {"public"} \cup Late => container \in fit
        /\ pc[r] \in Late => trusted = container

TrustInv ==
    trusted # None /\ ~trouble =>
        /\ trusted \in images
        /\ \A r \in Runs : pc[r] \notin Over \cup Late => found[r] = trusted
        /\ lock = None => container = trusted

IInv == TypeOK /\ References /\ (\A r \in Runs : RunInv(r)) /\ TrustInv

(* What TrustInv says of one run.                                          *)
TrustOf(r) ==
    trusted # None /\ ~trouble =>
        /\ trusted \in images
        /\ pc[r] \notin Over \cup Late => found[r] = trusted
        /\ lock = None => container = trusted

(***************************************************************************)
(* Steps                                                                   *)
(***************************************************************************)
(* While a run is past the lock, or nobody holds it, no other run is.      *)
LEMMA OneRun ==
    ASSUME IInv, NEW r \in Runs, pc[r] \notin Over \/ lock = None
    PROVE  \A u \in Runs \ {r} : pc[u] \in Over
BY RunsAssumption DEF IInv, RunInv

(* A step of one run need only be examined for that run.                   *)
LEMMA Local ==
    ASSUME IInv, NEW r \in Runs, pc[r] \notin Over \/ lock = None,
           pc' = [pc EXCEPT ![r] = pc'[r]],
           TypeOK', References', RunInv(r)', TrustOf(r)'
    PROVE  IInv'
<1>1. \A u \in Runs \ {r} : pc'[u] = pc[u] /\ pc[u] \in Over BY OneRun DEF IInv, TypeOK
<1>2. \A u \in Runs : RunInv(u)' BY <1>1 DEF RunInv
<1>3. TrustInv' BY <1>1 DEF TrustInv, TrustOf
<1> QED BY <1>2, <1>3 DEF IInv

(* What a removal of the rollback tag leaves alone.                        *)
LEMMA RemoveFacts ==
    ASSUME TypeOK, References, TryRemoveKeptTag
    PROVE  /\ images' \subseteq images /\ kept' \in {kept, None}
           /\ {app, container, kept'} \subseteq images' \cup {None}
BY DEF TryRemoveKeptTag, RemoveKeptTag, References, TypeOK

(* Where a run ends, only its trust is left to examine.                    *)
LEMMA EndFacts ==
    ASSUME TypeOK, NEW r \in Runs, NEW line \in Over, End(r, line)
    PROVE  /\ pc' = [pc EXCEPT ![r] = pc'[r]] /\ pc'[r] = line
           /\ RunInv(r)'
           /\ lock' = None
           /\ pc' \in [Runs -> Over \cup Lines]
           /\ old' \in [Runs -> Images \cup {None}] /\ found' \in [Runs -> Images \cup {None}]
           /\ restored' \in [Runs -> BOOLEAN]
BY DEF TypeOK, End, Goto, RunInv, Lines, Early, Tagged, Late

LEMMA NoteType == ASSUME TypeOK, NoteTrouble PROVE trouble' \in BOOLEAN
BY DEF TypeOK, NoteTrouble

(* Where trouble is noted and not found, the trusted image runs.           *)
LEMMA EndTrust ==
    ASSUME IInv, NEW r \in Runs, pc'[r] \in Over, NoteTrouble, UNCHANGED <<images, trusted>>
    PROVE  TrustOf(r)'
BY DEF NoteTrouble, TrustOf, IInv, TrustInv

LEMMA StartInv == ASSUME IInv, NEW r \in Runs, Start(r) PROVE IInv'
<1> USE DEF IInv, Start, Goto, FlockSucceeds, docker
<1>1. TypeOK' BY DEF TypeOK
<1>2. References' BY DEF References
<1>3. RunInv(r)' BY DEF TypeOK, RunInv, Over, Early, Tagged, Late
<1>4. TrustOf(r)' BY RunsAssumption DEF TypeOK, TrustOf, TrustInv
<1>5. pc' = [pc EXCEPT ![r] = pc'[r]] BY DEF TypeOK
<1> QED BY <1>1, <1>2, <1>3, <1>4, <1>5, Local

LEMMA ClearTagInv == ASSUME IInv, NEW r \in Runs, ClearTag(r) PROVE IInv'
<1> USE DEF IInv, ClearTag, Goto, run
<1>1. /\ images' \subseteq images /\ kept' \in {kept, None}
      /\ {app, container, kept'} \subseteq images' \cup {None}
  BY RemoveFacts DEF References
<1>2. TypeOK' BY <1>1 DEF TypeOK
<1>3. References' BY <1>1 DEF References
<1>4. pc[r] \notin Over /\ RunInv(r) BY DEF Over
<1>5. RunInv(r)' BY <1>4 DEF TypeOK, RunInv, Over, Early, Tagged, Late
<1>6. TrustOf(r)'
  <2>1. lock = r /\ container = found[r] BY <1>4 DEF RunInv, Early
  <2> QED BY <1>1, <1>4, <2>1, RunsAssumption DEF TypeOK, TrustOf, TrustInv, Late
<1> QED BY <1>2, <1>3, <1>4, <1>5, <1>6, Local DEF TypeOK

LEMMA PreserveInv == ASSUME IInv, NEW r \in Runs, Preserve(r) PROVE IInv'
<1> USE DEF IInv, Preserve
<1>1. pc[r] \notin Over /\ RunInv(r) /\ container = found[r]
      /\ (old[r] # None => old[r] \in {app, container}) /\ lock = r
  BY DEF Over, RunInv, Early
<1>2. trusted # None /\ ~trouble => trusted \in images /\ container = trusted
  BY <1>1 DEF TrustInv, Late
<1>3. CASE kept' = old[r] /\ Goto(r, "prepare") /\ UNCHANGED run
  <2> USE <1>3 DEF Goto, run
  <2>1. TypeOK' BY DEF TypeOK
  <2>2. References' BY <1>1 DEF References
  <2>3. RunInv(r)' BY <1>1 DEF TypeOK, RunInv, Over, Early, Tagged, Late
  <2>4. TrustOf(r)' BY <1>1, <1>2, RunsAssumption DEF TrustOf
  <2> QED BY <1>1, <2>1, <2>2, <2>3, <2>4, Local DEF TypeOK
<1>4. CASE UNCHANGED kept /\ End(r, "died")
  <2>1. "died" \in Over BY DEF Over
  <2>2. TypeOK' BY <1>4, <2>1, EndFacts, RunsAssumption
    DEF TypeOK, Lines, Early, Tagged, Late
  <2>3. References' BY <1>4 DEF References
  <2>4. TrustOf(r)' BY <1>2, <1>4, <2>1, EndFacts DEF TrustOf
  <2> QED BY <1>1, <1>4, <2>1, <2>2, <2>3, <2>4, EndFacts, Local
<1> QED BY <1>3, <1>4

(* Giving up leaves the container as it was found.                         *)
LEMMA GiveUpInv ==
    ASSUME IInv, NEW r \in Runs, pc[r] \in {"prepare", "build"}, GiveUp(r),
           UNCHANGED <<fit, app, container, trusted, trouble>>
    PROVE  IInv'
<1> USE DEF IInv
<1>1. pc[r] \notin Over /\ RunInv(r) /\ container = found[r]
  BY DEF Over, RunInv, Early
<1>2. trusted # None /\ ~trouble => trusted \in images /\ container = trusted
  BY <1>1 DEF TrustInv, Late
<1>3. /\ images' \subseteq images /\ kept' \in {kept, None}
      /\ {app, container, kept'} \subseteq images' \cup {None}
  BY RemoveFacts DEF References, GiveUp
<1>4. End(r, "unchanged") /\ "unchanged" \in Over BY DEF GiveUp, Over
<1>5. TypeOK' BY <1>3, <1>4, EndFacts, RunsAssumption
  DEF TypeOK, Lines, Early, Tagged, Late
<1>6. References' BY <1>3 DEF References
<1>7. TrustOf(r)' BY <1>2, <1>3, <1>4, EndFacts DEF TrustOf
<1> QED BY <1>1, <1>4, <1>5, <1>6, <1>7, EndFacts, Local

LEMMA PrepareInv == ASSUME IInv, NEW r \in Runs, Prepare(r) PROVE IInv'
<1>1. CASE GiveUp(r) BY <1>1, GiveUpInv DEF Prepare
<1>2. CASE Goto(r, "build") /\ UNCHANGED <<images, kept, run>>
  <2> USE <1>2 DEF IInv, Prepare, Goto, run
  <2>1. pc[r] \notin Over /\ RunInv(r) BY DEF Over
  <2>2. TypeOK' BY DEF TypeOK
  <2>3. References' BY DEF References
  <2>4. RunInv(r)' BY <2>1 DEF TypeOK, RunInv, Over, Early, Tagged, Late
  <2>5. TrustOf(r)' BY <2>1 DEF TypeOK, TrustOf, TrustInv, Late
  <2> QED BY <2>1, <2>2, <2>3, <2>4, <2>5, Local DEF TypeOK
<1> QED BY <1>1, <1>2 DEF Prepare

LEMMA BuildInv == ASSUME IInv, NEW r \in Runs, Build(r) PROVE IInv'
<1>1. CASE GiveUp(r) /\ UNCHANGED <<fit, app>> BY <1>1, GiveUpInv DEF Build
<1>2. CASE /\ Goto(r, "up") /\ UNCHANGED <<kept, run>>
           /\ images \subseteq images' /\ images' \subseteq Images /\ app' \in images'
           /\ fit \subseteq fit' /\ fit' \subseteq Images
  <2> USE <1>2 DEF IInv, Build, Goto, run
  <2>1. pc[r] \notin Over /\ RunInv(r) BY DEF Over
  <2>2. TypeOK' BY DEF TypeOK
  <2>3. References' BY DEF References
  <2>4. RunInv(r)' BY <2>1 DEF TypeOK, RunInv, Over, Early, Tagged, Late
  <2>5. TrustOf(r)' BY <2>1 DEF TypeOK, TrustOf, TrustInv, Late
  <2> QED BY <2>1, <2>2, <2>3, <2>4, <2>5, Local DEF TypeOK
<1>3. CASE \E i \in Images \ images :
              /\ images' = images \cup {i} /\ app' = i
              /\ fit' \in {fit, fit \cup {i}}
              /\ Goto(r, "up") /\ UNCHANGED <<kept, run>>
  BY <1>2, <1>3 DEF IInv, TypeOK
<1>4. CASE app # None /\ Goto(r, "up") /\ UNCHANGED <<images, fit, app, kept, run>>
  BY <1>2, <1>4 DEF IInv, TypeOK, References
<1> QED BY <1>1, <1>3, <1>4 DEF Build

LEMMA UpInv == ASSUME IInv, NEW r \in Runs, Up(r) PROVE IInv'
<1> USE DEF IInv, Up, Goto, run, ComposeUp, ComposeUpFails
<1>1. pc[r] \notin Over /\ RunInv(r) BY DEF Over
<1>2. TypeOK' BY DEF TypeOK
<1>3. References' BY DEF References
<1>4. RunInv(r)' BY <1>1 DEF TypeOK, RunInv, Over, Early, Tagged, Late
<1>5. TrustOf(r)' BY <1>1, RunsAssumption DEF TypeOK, TrustOf, TrustInv, RunInv, Late
<1> QED BY <1>1, <1>2, <1>3, <1>4, <1>5, Local DEF TypeOK

LEMMA AwaitReadyInv == ASSUME IInv, NEW r \in Runs, AwaitReady(r) PROVE IInv'
<1> USE DEF IInv, AwaitReady, Goto, run, docker
<1>1. pc[r] \notin Over /\ RunInv(r) BY DEF Over
<1>2. TypeOK' BY DEF TypeOK
<1>3. References' BY DEF References
<1>4. RunInv(r)' BY <1>1 DEF TypeOK, RunInv, Over, Early, Tagged, Late
<1>5. TrustOf(r)' BY <1>1, RunsAssumption DEF TypeOK, TrustOf, TrustInv, RunInv, Late
<1> QED BY <1>1, <1>2, <1>3, <1>4, <1>5, Local DEF TypeOK

LEMMA AwaitPublicInv == ASSUME IInv, NEW r \in Runs, AwaitPublic(r) PROVE IInv'
<1> USE DEF IInv, AwaitPublic, Goto, run, docker
<1>1. pc[r] \notin Over /\ RunInv(r) BY DEF Over
<1>2. TypeOK' BY DEF TypeOK
<1>3. References' BY DEF References
<1>4. RunInv(r)' BY <1>1 DEF TypeOK, RunInv, Over, Early, Tagged, Late
<1>5. TrustOf(r)'
  BY <1>1, RunsAssumption DEF TypeOK, TrustOf, TrustInv, RunInv, Late, References
<1> QED BY <1>1, <1>2, <1>3, <1>4, <1>5, Local DEF TypeOK

LEMMA TagBackInv == ASSUME IInv, NEW r \in Runs, TagBack(r) PROVE IInv'
<1> USE DEF IInv, TagBack
<1>1. pc[r] \notin Over /\ RunInv(r) BY DEF Over
<1>2. CASE End(r, "died") /\ NoteTrouble /\ UNCHANGED app
  <2>1. "died" \in Over BY DEF Over
  <2>2. TypeOK' BY <1>2, <2>1, EndFacts, RunsAssumption, NoteType
    DEF TypeOK, Lines, Early, Tagged, Late
  <2>3. References' BY <1>2 DEF References
  <2>4. TrustOf(r)' BY <1>2, <2>1, EndFacts, EndTrust
  <2> QED BY <1>1, <1>2, <2>1, <2>2, <2>3, <2>4, EndFacts, Local
<1>3. CASE /\ old[r] # None /\ kept # None
           /\ \/ app' = kept /\ restored' = [restored EXCEPT ![r] = TRUE]
              \/ UNCHANGED <<app, restored>>
           /\ Goto(r, "recreate") /\ UNCHANGED <<lock, old, found, trouble>>
  <2> USE <1>3 DEF Goto
  <2>1. TypeOK' BY DEF TypeOK
  <2>2. References' BY DEF References
  <2>3. RunInv(r)' BY <1>1 DEF TypeOK, RunInv, Over, Early, Tagged, Late
  <2>4. TrustOf(r)' BY <1>1, RunsAssumption DEF TypeOK, TrustOf, TrustInv, RunInv, Late
  <2> QED BY <1>1, <2>1, <2>2, <2>3, <2>4, Local DEF TypeOK
<1> QED BY <1>2, <1>3 DEF TagBack

(* The rollback that worked brings back the image the run found.           *)
LEMMA RecreateInv == ASSUME IInv, NEW r \in Runs, Recreate(r) PROVE IInv'
<1> USE DEF IInv, Recreate
<1>1. pc[r] \notin Over /\ RunInv(r) BY DEF Over
<1>2. {container'} \subseteq images \cup {None} BY DEF ComposeUp, ComposeUpFails, References
<1>3. PICK line \in {"restored", "died"} :
         /\ End(r, line)
         /\ \/ restored[r] /\ container' = app /\ UNCHANGED trouble
            \/ NoteTrouble
  BY DEF ComposeUp
<1>4. line \in Over BY DEF Over
<1>5. TypeOK' BY <1>2, <1>3, <1>4, EndFacts, RunsAssumption, NoteType
  DEF TypeOK, Lines, Early, Tagged, Late
<1>6. References' BY <1>2 DEF References
<1>7. TrustOf(r)'
  <2>1. restored[r] => old[r] # None /\ app = old[r] /\ (found[r] # None => old[r] = found[r])
    BY <1>1 DEF RunInv
  <2>2. trusted # None /\ ~trouble => trusted \in images /\ found[r] = trusted
    BY <1>1 DEF TrustInv, Late
  <2>3. CASE NoteTrouble BY <1>3, <1>4, <2>3, EndFacts, EndTrust
  <2>4. CASE restored[r] /\ container' = app /\ UNCHANGED trouble
    BY <1>3, <1>4, <2>1, <2>2, <2>4, EndFacts DEF TrustOf
  <2> QED BY <1>3, <2>3, <2>4
<1> QED BY <1>1, <1>3, <1>4, <1>5, <1>6, <1>7, EndFacts, Local

LEMMA CleanInv == ASSUME IInv, NEW r \in Runs, Clean(r) PROVE IInv'
<1> USE DEF IInv, Clean
<1>1. pc[r] \notin Over /\ RunInv(r) BY DEF Over
<1>2. /\ images' \subseteq images /\ kept' \in {kept, None}
      /\ {app, container, kept'} \subseteq images' \cup {None}
  BY RemoveFacts DEF References
<1>3. References' BY <1>2 DEF References
<1>4. trusted = container /\ container # None
  BY <1>1, RunsAssumption DEF RunInv, Late
<1>5. CASE Goto(r, "remove") /\ UNCHANGED run
  <2> USE <1>5 DEF Goto, run
  <2>1. TypeOK' BY <1>2 DEF TypeOK
  <2>2. RunInv(r)' BY <1>1 DEF TypeOK, RunInv, Over, Early, Tagged, Late
  <2>3. TrustOf(r)' BY <1>2, <1>4 DEF TypeOK, TrustOf, Late
  <2> QED BY <1>1, <1>3, <2>1, <2>2, <2>3, Local DEF TypeOK
<1>6. CASE End(r, "died") /\ UNCHANGED <<images, kept>>
  <2>1. "died" \in Over BY DEF Over
  <2>2. TypeOK' BY <1>6, <2>1, EndFacts, RunsAssumption
    DEF TypeOK, Lines, Early, Tagged, Late
  <2>3. TrustOf(r)' BY <1>2, <1>4, <1>6, <2>1, EndFacts DEF TrustOf
  <2> QED BY <1>1, <1>3, <1>6, <2>1, <2>2, <2>3, EndFacts, Local
<1> QED BY <1>5, <1>6

LEMMA RemoveOldInv == ASSUME IInv, NEW r \in Runs, RemoveOld(r) PROVE IInv'
<1> USE DEF IInv, RemoveOld, Goto, run
<1>1. pc[r] \notin Over /\ RunInv(r) BY DEF Over
<1>2. TypeOK' BY DEF TypeOK
<1>3. References' BY DEF References
<1>4. trusted = container /\ container # None
  BY <1>1, RunsAssumption DEF RunInv, Late
<1>5. RunInv(r)' BY <1>1 DEF TypeOK, RunInv, Over, Early, Tagged, Late
<1>6. TrustOf(r)' BY <1>3, <1>4 DEF TypeOK, TrustOf, References, Late
<1> QED BY <1>1, <1>2, <1>3, <1>5, <1>6, Local DEF TypeOK

LEMMA PruneInv == ASSUME IInv, NEW r \in Runs, Prune(r) PROVE IInv'
<1> USE DEF IInv, Prune
<1>1. pc[r] \notin Over /\ RunInv(r) BY DEF Over
<1>2. images' \subseteq images /\ References' BY DEF References
<1>3. trusted = container /\ container # None
  BY <1>1, RunsAssumption DEF RunInv, Late
<1>4. PICK line \in {"complete", "died"} : End(r, line) OBVIOUS
<1>5. line \in Over BY DEF Over
<1>6. TypeOK' BY <1>2, <1>4, <1>5, EndFacts, RunsAssumption
  DEF TypeOK, Lines, Early, Tagged, Late
<1>7. TrustOf(r)' BY <1>2, <1>3, <1>4, <1>5, EndFacts DEF TrustOf, References
<1> QED BY <1>1, <1>2, <1>4, <1>5, <1>6, <1>7, EndFacts, Local

LEMMA InterruptInv == ASSUME IInv, NEW r \in Runs, Interrupt(r) PROVE IInv'
<1> USE DEF IInv, Interrupt, docker
<1>1. "idle" \in Over BY DEF Over
<1>2. TypeOK' BY <1>1, EndFacts, RunsAssumption, NoteType
  DEF TypeOK, Lines, Early, Tagged, Late
<1>3. References' BY DEF References
<1>4. TrustOf(r)' BY <1>1, EndFacts, EndTrust
<1> QED BY <1>1, <1>2, <1>3, <1>4, EndFacts, Local

LEMMA InitInv == Init => IInv
<1> SUFFICES ASSUME Init PROVE IInv
  OBVIOUS
<1> USE DEF Init
<1>1. images \subseteq Images /\ container \in Images \cup {None} /\ app \in Images \cup {None}
  BY ImagesAssumption DEF Images
<1>2. \A r \in Runs : pc[r] \in Over BY DEF Over
<1>3. TypeOK BY <1>1 DEF TypeOK, Over
<1>4. References BY DEF References
<1>5. TrustInv BY <1>2 DEF TrustInv
<1> QED BY <1>2, <1>3, <1>4, <1>5 DEF IInv, RunInv

LEMMA NextInv == IInv /\ [Next]_vars => IInv'
<1> SUFFICES ASSUME IInv, [Next]_vars PROVE IInv'
  OBVIOUS
<1>1. CASE UNCHANGED vars
  BY <1>1 DEF vars, docker, run, IInv, TypeOK, References, RunInv, TrustInv
<1>2. ASSUME NEW r \in Runs, Step(r) PROVE IInv'
  BY <1>2, StartInv, ClearTagInv, PreserveInv, PrepareInv, BuildInv, UpInv,
     AwaitReadyInv, AwaitPublicInv, TagBackInv, RecreateInv, CleanInv, RemoveOldInv,
     PruneInv, InterruptInv DEF Step
<1> QED BY <1>1, <1>2 DEF Next

(***************************************************************************)
(* Theorems                                                                *)
(***************************************************************************)
(* At every moment, one run at most is past the lock, its tag, container   *)
(* and trust are as its line says (deploy-vps.sh).                         *)
THEOREM Invariance == Spec => []IInv
<1> QED BY InitInv, NextInv, PTL DEF Spec

(* Tags, container and the runs' variables keep their types.               *)
THEOREM TypeCorrect == Spec => []TypeOK
<1>1. IInv => TypeOK BY DEF IInv
<1> QED BY <1>1, Invariance, PTL

(* The image that last passed the checks is not lost, and during a run the *)
(* image it found is there to go back to, whatever command fails           *)
(* (deploy-vps.sh:54-58, 152-161).                                         *)
THEOREM GoodImageStays == Spec => []GoodImageKept
<1>1. IInv => GoodImageKept
  <2> SUFFICES ASSUME IInv PROVE GoodImageKept
    OBVIOUS
  <2>1. trusted # None /\ ~trouble => trusted \in images BY DEF IInv, TrustInv
  <2>2. ASSUME NEW r \in Runs, pc[r] \notin Over \cup Late, old[r] # None
        PROVE  old[r] \in images
    <3>1. /\ pc[r] \in {"clear", "preserve"} => old[r] \in {app, container}
          /\ pc[r] \in Tagged => kept = old[r]
      BY <2>2 DEF IInv, RunInv
    <3>2. pc[r] \in {"clear", "preserve"} \cup Tagged
      BY <2>2 DEF IInv, TypeOK, Over, Tagged, Late
    <3> QED BY <2>2, <3>1, <3>2 DEF IInv, References
  <2> QED BY <2>1, <2>2 DEF GoodImageKept, Late
<1> QED BY <1>1, Invariance, PTL

(* What a run says last is so: the container was not changed, or runs the  *)
(* checked image, or the one that was restored (deploy-vps.sh:63-90, 163). *)
THEOREM LastLinesTrue == Spec => LastLineIsTrue
<1> DEFINE Says == \A r \in Runs : pc[r] \notin Over =>
          /\ pc'[r] = "unchanged" => container' = found[r]
          /\ pc'[r] = "complete" => container' = app' /\ container' \in fit /\ container' = trusted'
          /\ pc'[r] = "restored" /\ found[r] # None => container' = found[r]
<1>1. IInv /\ [Next]_vars => [Says]_vars
  <2> SUFFICES ASSUME IInv, NEW u \in Runs, Step(u), NEW r \in Runs, pc[r] \notin Over
               PROVE  /\ pc'[r] = "unchanged" => container' = found[r]
                      /\ pc'[r] = "complete" =>
                            container' = app' /\ container' \in fit /\ container' = trusted'
                      /\ pc'[r] = "restored" /\ found[r] # None => container' = found[r]
    BY DEF Next, vars
  <2>1. TypeOK /\ RunInv(r) BY DEF IInv
  <2>2. pc'[r] \in {"unchanged", "complete", "restored"} => pc'[r] # pc[r]
    BY DEF Over
  <2>3. pc'[r] # pc[r] => u = r
    BY <2>1 DEF Step, Start, ClearTag, Preserve, Prepare, Build, Up, AwaitReady,
       AwaitPublic, TagBack, Recreate, Clean, RemoveOld, Prune, Interrupt, GiveUp,
       Goto, End, TypeOK
  <2>4. CASE pc'[r] = "unchanged"
    <3>1. Prepare(r) \/ Build(r)
      BY <2>1, <2>2, <2>3, <2>4 DEF Step, Start, ClearTag, Preserve, Up, AwaitReady,
         AwaitPublic, TagBack, Recreate, Clean, RemoveOld, Prune, Interrupt,
         Goto, End, TypeOK
    <3> QED BY <2>1, <2>4, <3>1 DEF Prepare, Build, RunInv, Over, Early
  <2>5. CASE pc'[r] = "complete"
    <3>1. Prune(r)
      BY <2>1, <2>2, <2>3, <2>5 DEF Step, Start, ClearTag, Preserve, Prepare, Build, Up,
         AwaitReady, AwaitPublic, TagBack, Recreate, Clean, RemoveOld, Interrupt, GiveUp,
         Goto, End, TypeOK
    <3> QED BY <2>1, <2>5, <3>1 DEF Prune, RunInv, Over, Late
  <2>6. CASE pc'[r] = "restored"
    <3>1. Recreate(r)
      BY <2>1, <2>2, <2>3, <2>6 DEF Step, Start, ClearTag, Preserve, Prepare, Build, Up,
         AwaitReady, AwaitPublic, TagBack, Clean, RemoveOld, Prune, Interrupt, GiveUp,
         Goto, End, TypeOK
    <3>2. restored[r] /\ container' = app
      BY <2>1, <2>6, <3>1 DEF Recreate, ComposeUp, End, Goto, TypeOK
    <3> QED BY <2>1, <2>6, <3>1, <3>2 DEF Recreate, RunInv, Over
  <2> QED BY <2>4, <2>5, <2>6
<1> QED BY <1>1, Invariance, PTL DEF LastLineIsTrue, Spec
=============================================================================
