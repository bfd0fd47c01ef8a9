---------------------------- MODULE PreviewLedger ----------------------------
(***************************************************************************)
(* What the components that read a photo may rely on, without queue, store *)
(* or worker: a commit brings a new image and takes the preview away, a    *)
(* request takes it away, and it comes back showing the present image.     *)
(* ThumbPipeline makes the previews; Embedding and AIJobs read them.       *)
(***************************************************************************)
EXTENDS Naturals

CONSTANT Asset

VARIABLES
    preview,    \* "pending", or how it settled
    image,      \* number of the present image
    served      \* images a reader may be shown

pvars == <<preview, image, served>>

Init ==
    /\ preview = [m \in Asset |-> "pending"]
    /\ image \in [Asset -> Nat]
    /\ served = [m \in Asset |-> {}]

Withdraw(S) ==
    /\ preview' = [m \in Asset |-> IF m \in S THEN "pending" ELSE preview[m]]
    /\ served' = [m \in Asset |-> IF m \in S THEN {} ELSE served[m]]

NewImage(m) == image' = [image EXCEPT ![m] = @ + 1]

\* The file is replaced.
Commit(m) == NewImage(m) /\ Withdraw({m})

\* The previews are to be made again, of the same images.
Again(S) == Withdraw(S) /\ UNCHANGED image

\* A reader may take each rendering for an image of its own.
Render(m) ==
    /\ preview[m] = "pending"
    /\ preview' = [preview EXCEPT ![m] = "ready"]
    /\ NewImage(m) \/ UNCHANGED image
    /\ served' = [served EXCEPT ![m] = {image'[m]}]

\* There is nothing to show.
GiveUp(m, outcome) ==
    /\ preview[m] = "pending"
    /\ preview' = [preview EXCEPT ![m] = outcome]
    /\ UNCHANGED <<image, served>>

Next ==
    \/ \E m \in Asset : Commit(m) \/ Render(m)
    \/ \E m \in Asset, outcome \in {"no_preview", "failed"} : GiveUp(m, outcome)
    \/ \E S \in SUBSET Asset : Again(S)

Spec == Init /\ [][Next]_pvars
=============================================================================
