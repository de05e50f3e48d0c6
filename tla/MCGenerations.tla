----------------------------- MODULE MCGenerations -----------------------------
(***************************************************************************)
(* What the generations of the live overlay are made of, in parts that     *)
(* share no state: the requests of agents, the sessions, the capture of    *)
(* the page, previews of components, the parameters of variants, and edits *)
(* of text.  A behaviour runs one of them, the others resting where they   *)
(* begin.                                                                  *)
(***************************************************************************)
EXTENDS AgentTarget, LiveSession, CopyEdits, ComponentPreview, GenerateCapture,
        TuneParameters

VARIABLE part      \* the part that runs

generationVars ==
  <<part, agentVars, liveVars, copyVars, previewVars, captureVars, tuneVars>>

\* The pages are alike, and so one of them may be the first.
FirstTab == CHOOSE p \in Tabs : TRUE

GenerationParts == {"target", "session", "edits", "preview", "capture", "tune"}

\* A part that rests has one state to begin in.  A page that a framework rebuilds and a
\* document that is served out of date are taken one at a time.
GenerationInit ==
  /\ part \in GenerationParts
  /\ AgentInit
  /\ tabs = [p \in Tabs |-> IF part = "target" /\ p = FirstTab THEN "open" ELSE "unopened"]
  /\ LiveInit
  /\ IF part = "session" THEN framework # stale ELSE ~framework /\ ~stale
  /\ CopyInit
  /\ PreviewInit
  /\ CaptureInit
  /\ part # "capture" => ~component
  /\ TuneInit
  /\ part # "tune" => ~compiled

OthersRest ==
  /\ UNCHANGED part
  /\ IF part = "target" THEN TRUE ELSE UNCHANGED agentVars
  /\ IF part = "session" THEN TRUE ELSE UNCHANGED liveVars
  /\ IF part = "edits" THEN TRUE ELSE UNCHANGED copyVars
  /\ IF part = "preview" THEN TRUE ELSE UNCHANGED previewVars
  /\ IF part = "capture" THEN TRUE ELSE UNCHANGED captureVars
  /\ IF part = "tune" THEN TRUE ELSE UNCHANGED tuneVars

TargetStep == part = "target" /\ OthersRest /\ AgentNext

SessionStep == part = "session" /\ OthersRest /\ LiveNext

EditStep == part = "edits" /\ OthersRest /\ CopyNext

\* The properties of a preview say nothing of what follows a race that it has met.
PreviewStep == part = "preview" /\ met = {} /\ OthersRest /\ PreviewNext

CaptureStep == part = "capture" /\ OthersRest /\ CaptureNext

\* Nor of what follows values that are no longer those of what is on the page.
TuneStep == part = "tune" /\ ~outdated /\ OthersRest /\ TuneNext

GenerationNext ==
  TargetStep \/ SessionStep \/ EditStep \/ PreviewStep \/ CaptureStep \/ TuneStep

GenerationSpec == GenerationInit /\ [][GenerationNext]_generationVars

\* What the part that runs keeps between its steps: its inductive invariant where the
\* proofs give one, and its types.
GenerationsInv ==
  CASE part = "target"  -> AgentInv
    [] part = "session" -> LiveInv
    [] part = "edits"   -> CopyInv
    [] part = "preview" -> PreviewTypeOK /\ PreviewInv
    [] part = "capture" -> CaptureInv
    [] part = "tune"    -> TuneInv
=============================================================================
