--------------------------- MODULE VariantProofs ----------------------------
(***************************************************************************)
(* Proofs about what the live overlay asks of an agent: what a capture     *)
(* does to the page between Go and the first variant, what the page shows  *)
(* of the components that it mounts by itself, and what an accept carries  *)
(* of the parameters that were tuned; and about the composition of the     *)
(* generations.                                                            *)
(***************************************************************************)
EXTENDS MCGenerations, LiveProofs, FiniteSetTheorems, TLAPS

-----------------------------------------------------------------------------
(* Between Go and the first variant.                                       *)

\* A capture that goes on is the capture it was at another await.
LEMMA MovedIs ==
  ASSUME NEW c \in Captures, NEW at \in {"post", "fonts", "load", "crop", "shot", "upload"}
  PROVE  LET h == [c EXCEPT !.at = at] IN
         /\ h \in Captures /\ h.session = c.session /\ h.kind = c.kind /\ h.at = at
         /\ h.saved = c.saved
BY DEF Captures

LEMMA CropIs ==
  ASSUME NEW c \in Captures, chrome \in {"visible", "hidden"}
  PROVE  LET g == [c EXCEPT !.at = "crop", !.saved = chrome] IN
         /\ g \in Captures /\ g.session = c.session /\ g.kind = c.kind /\ g.at = "crop"
         /\ g.saved = chrome
BY DEF Captures

\* One that begins is of the session that is on.
LEMMA CaptureIs ==
  ASSUME session' \in Nat \ {0}, NEW k \in {"plain", "annotated", "resumed"}, NEW at \in {"post", "fonts"}
  PROVE  LET g == Capture(k, at) IN
         g \in Captures /\ g.session = session' /\ g.kind = k /\ g.at = at /\ g.saved = "visible"
BY DEF Capture, Captures

LEMMA LoaderMoves ==
  ASSUME CaptureTypeOK,
         \/ HideLoader \/ UNCHANGED loaderVars
         \/ LeaveLoader
         \/ ShowLoader /\ stage' = "generating",
         UNCHANGED loaderVars => stage' = stage \/ stage' = "generating",
         LoaderHeld
  PROVE  LoaderHeld' /\ loader' \in BOOLEAN /\ building' \in BOOLEAN /\ frozen' \in BOOLEAN
<1> USE DEF CaptureTypeOK, loaderVars, LoaderHeld
<1>1. CASE HideLoader
  BY <1>1 DEF HideLoader, BuildingAfterHide
<1>2. CASE LeaveLoader
  <2>1. frozen' \in BOOLEAN
    BY <1>2, Zenon DEF LeaveLoader
  <2>2. (loader' \/ building') => frozen'
    BY <1>2 DEF LeaveLoader
  <2> QED
    BY <1>2, <2>1, <2>2 DEF LeaveLoader
<1>3. CASE ShowLoader /\ stage' = "generating"
  <2>1. building' \in BOOLEAN
    BY <1>3, Zenon DEF ShowLoader
  <2> QED
    BY <1>3, <2>1 DEF ShowLoader
<1>4. CASE UNCHANGED loaderVars
  BY <1>4
<1> QED
  BY <1>1, <1>2, <1>3, <1>4

\* A capture c goes on as d, or ends, where a step says so; what is held is held by others
\* or by d.
LEMMA GoingOn ==
  ASSUME CaptureInv, NEW c \in captures, NEW d \in Captures, d.session = c.session, d.kind = c.kind,
         d.at # "crop", c.at # "crop" \/ chrome' = c.saved,
         c.at # "crop" => chrome' = chrome,
         crossed' = crossed, goes' = goes,
         captures' = (captures \ {c}) \cup {d} \/ captures' = captures \ {c}
  PROVE  /\ captures' \subseteq Captures /\ \A x \in captures' : x.session <= goes'
         /\ chrome' \in {"visible", "hidden"} /\ ChromeHeld'
<1> USE DEF CaptureInv
<1>1. captures' \subseteq Captures /\ \A x \in captures' : x.session <= goes'
  BY DEF CaptureTypeOK
<1>2. chrome' \in {"visible", "hidden"}
  BY DEF CaptureTypeOK, Captures
<1>3. \A x \in captures' : x.at = "crop" => x \in captures /\ x # c
  OBVIOUS
<1>4. \A x \in captures : x # c => x \in captures'
  OBVIOUS
<1>5. ASSUME ~crossed PROVE chrome' = "hidden" <=> \E x \in captures' : x.at = "crop"
  <2>1. CASE c.at = "crop"
    BY <1>3, <1>5, <2>1 DEF ChromeHeld
  <2>2. CASE c.at # "crop"
    BY <1>3, <1>4, <1>5, <2>2 DEF ChromeHeld
  <2> QED
    BY <2>1, <2>2
<1> QED
  BY <1>1, <1>2, <1>3, <1>5 DEF ChromeHeld

LEMMA GoingOnHolds ==
  ASSUME CaptureInv, NEW c \in captures, NEW d \in Captures, d.session = c.session, d.kind = c.kind,
         captures' = (captures \ {c}) \cup {d} \/ captures' = captures \ {c},
         \/ marked' \subseteq marked
         \/ /\ d.at = "load" /\ d \in captures'
            /\ marked' = marked \cup {c.session},
         \/ c.at \notin {"load", "crop", "shot"}
         \/ c.session \notin marked'
         \/ /\ d \in captures'
            /\ d.at \in {"load", "crop", "shot"},
         owed' \subseteq owed,
         \/ c.kind # "annotated"
         \/ c.at = "post"
         \/ c.session \notin owed'
         \/ /\ d \in captures'
            /\ d.at # "post"
  PROVE  MarksHeld' /\ RequestsHeld'
<1> USE DEF CaptureInv
<1>0. \A x \in captures : x # c => x \in captures'
  OBVIOUS
<1>1. ASSUME NEW s \in marked'
      PROVE  \E x \in captures' : x.session = s /\ x.at \in {"load", "crop", "shot"}
  <2>1. CASE s \in marked
    <3>1. PICK x \in captures : x.session = s /\ x.at \in {"load", "crop", "shot"}
      BY <2>1 DEF MarksHeld
    <3>2. CASE x # c
      BY <1>0, <3>1, <3>2
    <3>3. CASE x = c
      BY <1>1, <3>1, <3>3
    <3> QED
      BY <3>2, <3>3
  <2>2. CASE s \notin marked
    BY <1>1, <2>2
  <2> QED
    BY <2>1, <2>2
<1>2. ASSUME NEW s \in owed'
      PROVE  \E x \in captures' : x.session = s /\ x.kind = "annotated" /\ x.at # "post"
  <2>1. PICK x \in captures : x.session = s /\ x.kind = "annotated" /\ x.at # "post"
    BY <1>2 DEF RequestsHeld
  <2>2. CASE x # c
    BY <1>0, <2>1, <2>2
  <2>3. CASE x = c
    BY <1>2, <2>1, <2>3
  <2> QED
    BY <2>2, <2>3
<1> QED
  BY <1>1, <1>2 DEF MarksHeld, RequestsHeld

\* A capture that ends, whether or not it worked.
LEMMA CapturedKeeps ==
  ASSUME CaptureInv, NEW c \in captures, NEW works \in BOOLEAN, Captured(c, works),
         c.at \in {"load", "crop", "shot"},
         c.at = "crop" => chrome' = c.saved,
         c.at # "crop" => chrome' = chrome,
         crossed' = crossed
  PROVE  CaptureInv'
<1> USE CaptureAssumption
<1>0. CaptureTypeOK /\ c \in Captures
  BY DEF CaptureInv, CaptureTypeOK
<1>1. PICK d \in Captures :
        /\ d.session = c.session /\ d.kind = c.kind /\ d.at \in {"upload", "post"}
        /\ \/ c.kind = "annotated" /\ captures' = (captures \ {c}) \cup {d}
           \/ c.kind # "annotated" /\ captures' = captures \ {c}
  <2> DEFINE at == IF works THEN "upload" ELSE "post"
  <2>1. at \in {"upload", "post"}
    OBVIOUS
  <2> DEFINE d == [c EXCEPT !.at = at]
  <2>2. \/ c.kind = "annotated" /\ captures' = (captures \ {c}) \cup {d}
        \/ c.kind # "annotated" /\ captures' = captures \ {c}
    BY DEF Captured, GoesOnTo, Moved
  <2> HIDE DEF at
  <2>3. at \in {"post", "fonts", "load", "crop", "shot", "upload"}
    BY <2>1
  <2>4. d \in Captures /\ d.session = c.session /\ d.kind = c.kind /\ d.at = at
    BY <1>0, <2>3, MovedIs
  <2> HIDE DEF d
  <2> QED
    BY <2>1, <2>2, <2>4
<1>2. /\ marked' = marked \ {c.session} /\ UNCHANGED <<stage, session, goes, component>>
      /\ owed' = owed \ {x.session : x \in {y \in captures' : y.at = "post"}}
  BY DEF Captured, PostSent, sessionVars
<1>3. /\ captures' \subseteq Captures /\ \A x \in captures' : x.session <= goes'
      /\ chrome' \in {"visible", "hidden"} /\ ChromeHeld'
  BY <1>1, <1>2, GoingOn
<1>4. owed' \subseteq owed /\ \A x \in captures' : x.at = "post" => x.session \notin owed'
  BY <1>2
<1>5. MarksHeld' /\ RequestsHeld'
  BY <1>1, <1>2, <1>4, GoingOnHolds
<1>6. LoaderHeld' /\ loader' \in BOOLEAN /\ building' \in BOOLEAN /\ frozen' \in BOOLEAN
  <2>1. \/ UNCHANGED loaderVars
        \/ ShowLoader /\ stage' = "generating"
    <3>1. CASE works /\ stage = "generating"
      BY <1>2, <3>1 DEF Captured
    <3>2. CASE works = FALSE
      BY <3>2 DEF Captured
    <3>3. CASE stage # "generating"
      BY <3>3 DEF Captured
    <3> QED
      BY <3>1, <3>2, <3>3
  <2> QED
    BY <1>0, <1>2, <2>1, LoaderMoves DEF CaptureInv
<1> QED
  BY <1>0, <1>2, <1>3, <1>4, <1>5, <1>6 DEF CaptureInv, CaptureTypeOK

LEMMA CaptureStepInv ==
  ASSUME CaptureInv, [CaptureNext]_captureVars
  PROVE  CaptureInv'
<1> USE CaptureAssumption
<1> USE DEF CaptureInv
<1>0. CaptureTypeOK
  OBVIOUS
<1>a. ASSUME NEW kind \in {"plain", "annotated"}, GoCaptures(kind)
      PROVE  CaptureInv'
  <2> DEFINE at == IF kind = "plain" THEN "post" ELSE "fonts"
  <2>1. /\ stage' = "generating" /\ goes' = goes + 1 /\ goes < MaxGoes /\ session' = goes'
        /\ captures' = captures \cup {Capture(kind, at)}
        /\ IF kind = "plain" THEN UNCHANGED owed ELSE owed' = owed \cup {session'}
        /\ UNCHANGED <<component, pageVars, loaderVars>>
    BY <1>a DEF GoCaptures
  <2>2. session' \in Nat \ {0}
    BY <1>0, <2>1 DEF CaptureTypeOK
  <2>3. at \in {"post", "fonts"} /\ kind \in {"plain", "annotated", "resumed"}
    OBVIOUS
  <2>4. (kind = "plain" /\ at = "post") \/ (kind = "annotated" /\ at = "fonts")
    OBVIOUS
  <2> HIDE DEF at
  <2>5. PICK g \in Captures : /\ g = Capture(kind, at) /\ g.session = session' /\ g.kind = kind
                              /\ g.at = at /\ g.saved = "visible"
    BY <2>2, <2>3, CaptureIs
  <2>6. captures' = captures \cup {g}
    BY <2>1, <2>5
  <2>7. CaptureTypeOK'
    <3>1. goes \in Nat /\ goes' \in 0..MaxGoes /\ session' \in 0..goes' /\ 1..goes \subseteq 1..goes'
      BY <1>0, <2>1 DEF CaptureTypeOK
    <3>2. owed' \subseteq 1..goes' /\ marked' \subseteq 1..goes'
      <4>1. owed' = owed \/ owed' = owed \cup {goes'}
        BY <2>1
      <4>2. owed \subseteq 1..goes' /\ marked' \subseteq 1..goes' /\ goes' \in 1..goes'
        BY <1>0, <2>1, <3>1 DEF CaptureTypeOK, pageVars
      <4> QED
        BY <4>1, <4>2
    <3>3. captures' \subseteq Captures /\ \A x \in captures' : x.session <= goes'
      <4>1. captures' \subseteq Captures
        BY <1>0, <2>6 DEF CaptureTypeOK
      <4>2. \A x \in captures : x.session \in Nat /\ x.session <= goes
        BY <1>0 DEF CaptureTypeOK, Captures
      <4>3. g.session = goes'
        BY <2>1, <2>5
      <4> QED
        BY <2>1, <2>6, <3>1, <4>1, <4>2, <4>3
    <3> QED
      BY <1>0, <2>1, <3>1, <3>2, <3>3 DEF CaptureTypeOK, pageVars, loaderVars
  <2>8. LoaderHeld'
    BY <2>1 DEF LoaderHeld, loaderVars
  <2>9. RequestsHeld'
    BY <2>1, <2>4, <2>5, <2>6 DEF RequestsHeld
  <2>10. MarksHeld'
    BY <2>1, <2>6 DEF MarksHeld, pageVars
  <2>11. ChromeHeld'
    BY <2>1, <2>3, <2>5, <2>6 DEF ChromeHeld, pageVars
  <2> QED
    BY <2>7, <2>8, <2>9, <2>10, <2>11
<1>b. ASSUME VariantsArrive \/ SessionEnds \/ OtherFails \/ LoaderTornDown \/ CardDismissed \/ LoaderBuilt
      PROVE  CaptureInv'
  <2>1. /\ stage' \in {"picking", "generating", "cycling"} /\ session' \in {0, session}
        /\ UNCHANGED <<goes, component, captures, owed, pageVars>>
    BY <1>0, <1>b DEF CaptureTypeOK, VariantsArrive, SessionEnds, OtherFails, LoaderTornDown, CardDismissed,
             LoaderBuilt, sessionVars
  <2>2. LoaderHeld' /\ loader' \in BOOLEAN /\ building' \in BOOLEAN /\ frozen' \in BOOLEAN
    <3>1. CASE LoaderBuilt
      BY <1>0, <3>1 DEF LoaderBuilt, LoaderHeld, CaptureTypeOK, sessionVars
    <3>2. CASE ~LoaderBuilt
      <4>1. HideLoader \/ LeaveLoader
        BY <1>b, <3>2 DEF VariantsArrive, SessionEnds, OtherFails, LoaderTornDown, CardDismissed
      <4>2. UNCHANGED loaderVars => stage' = stage \/ stage' = "generating" \/ LoaderHeld'
        BY <4>1, <1>0 DEF LeaveLoader, HideLoader, LoaderHeld, loaderVars, BuildingAfterHide, CaptureTypeOK
      <4> QED
        BY <1>0, <4>1, <4>2, LoaderMoves DEF LeaveLoader, HideLoader, LoaderHeld, loaderVars, CaptureTypeOK
    <3> QED
      BY <3>1, <3>2
  <2>3. CaptureTypeOK'
    BY <1>0, <2>1, <2>2 DEF CaptureTypeOK, pageVars
  <2>4. RequestsHeld' /\ MarksHeld' /\ ChromeHeld'
    BY <2>1 DEF RequestsHeld, MarksHeld, ChromeHeld, pageVars
  <2> QED
    BY <2>2, <2>3, <2>4
<1>c. ASSUME ReloadPage
      PROVE  CaptureInv'
  <2>1. /\ owed' = {} /\ marked' = {} /\ chrome' = "visible"
        /\ loader' = FALSE /\ building' = FALSE /\ frozen' = FALSE
        /\ UNCHANGED <<goes, component, crossed>>
        /\ session # 0 /\ stage' \in {"picking", "generating", "cycling"} /\ session' \in {0, session}
        /\ stage' = "generating" => session' = session
        /\ \/ captures' = {}
           \/ stage' = "generating" /\ captures' = {Capture("resumed", "fonts")}
    <3>1. /\ owed' = {} /\ marked' = {} /\ chrome' = "visible"
          /\ loader' = FALSE /\ building' = FALSE /\ frozen' = FALSE
          /\ UNCHANGED <<goes, component, crossed>> /\ session # 0
          /\ captures' \in IF stage' = "generating" THEN {{}, {Capture("resumed", "fonts")}} ELSE {{}}
      BY <1>c DEF ReloadPage
    <3>2. \/ stage' = "picking" /\ session' = 0
          \/ stage' = (IF stage = "cycling" THEN "cycling" ELSE "generating") /\ session' = session
      BY <1>c DEF ReloadPage
    <3>3. \/ captures' = {}
          \/ stage' = "generating" /\ captures' = {Capture("resumed", "fonts")}
      BY <3>1
    <3>4. stage' \in {"picking", "cycling", "generating"} /\ session' \in {0, session}
      BY <3>2
    <3> QED
      BY <3>1, <3>2, <3>3, <3>4
  <2>2. CASE captures' = {}
    <3>1. CaptureTypeOK'
      <4>1. session' \in 0..goes' /\ goes' = goes
        BY <1>0, <2>1 DEF CaptureTypeOK
      <4> QED
        BY <1>0, <2>1, <2>2, <4>1 DEF CaptureTypeOK
    <3> QED
      BY <2>1, <2>2, <3>1 DEF LoaderHeld, RequestsHeld, MarksHeld, ChromeHeld
  <2>3. CASE captures' = {Capture("resumed", "fonts")} /\ session' = session
    <3>1. session' \in Nat \ {0}
      BY <1>0, <2>1, <2>3 DEF CaptureTypeOK
    <3>2. PICK g \in Captures : /\ g = Capture("resumed", "fonts") /\ g.session = session'
                                /\ g.at = "fonts" /\ g.saved = "visible"
      BY <3>1, CaptureIs
    <3>3. captures' = {g}
      BY <2>3, <3>2
    <3>4. g.session <= goes' /\ goes' = goes
      BY <1>0, <2>1, <2>3, <3>2 DEF CaptureTypeOK
    <3>5. CaptureTypeOK'
      BY <1>0, <2>1, <2>3, <3>2, <3>3, <3>4 DEF CaptureTypeOK
    <3> QED
      BY <2>1, <3>2, <3>3, <3>5 DEF LoaderHeld, RequestsHeld, MarksHeld, ChromeHeld
  <2> QED
    BY <2>1, <2>2, <2>3
<1>d. ASSUME NEW c \in captures, RequestPosted(c)
      PROVE  CaptureInv'
  <2>0. c \in Captures
    BY <1>0 DEF CaptureTypeOK
  <2> DEFINE d == [c EXCEPT !.at = "fonts"]
  <2>1. /\ c.at = "post" /\ UNCHANGED <<goes, component, owed, pageVars>>
        /\ captures' = (captures \ {c}) \cup {d} \/ captures' = captures \ {c}
        /\ \/ UNCHANGED <<stage, session, loaderVars>>
           \/ stage' = "picking" /\ session' = 0 /\ LeaveLoader
    BY <1>d DEF RequestPosted, Moved
  <2>2. d \in Captures /\ d.session = c.session /\ d.kind = c.kind /\ d.at = "fonts"
    BY <2>0, MovedIs
  <2> HIDE DEF d
  <2>3. /\ captures' \subseteq Captures /\ \A x \in captures' : x.session <= goes'
        /\ chrome' \in {"visible", "hidden"} /\ ChromeHeld'
    BY <2>1, <2>2, GoingOn DEF pageVars
  <2>4. MarksHeld' /\ RequestsHeld'
    BY <2>1, <2>2, GoingOnHolds DEF pageVars
  <2>5. LoaderHeld' /\ loader' \in BOOLEAN /\ building' \in BOOLEAN /\ frozen' \in BOOLEAN
    <3>1. CASE LeaveLoader
      <4>1. frozen' \in BOOLEAN
        BY <3>1, Zenon DEF LeaveLoader
      <4> QED
        BY <1>0, <3>1, <4>1 DEF LeaveLoader, LoaderHeld, CaptureTypeOK
    <3>2. CASE UNCHANGED <<stage, session, loaderVars>>
      BY <1>0, <3>2 DEF LoaderHeld, loaderVars, CaptureTypeOK
    <3> QED
      BY <2>1, <3>1, <3>2
  <2>6. CaptureTypeOK'
    BY <1>0, <2>1, <2>3, <2>5 DEF CaptureTypeOK, pageVars
  <2> QED
    BY <2>3, <2>4, <2>5, <2>6
<1>e. ASSUME NEW c \in captures, FontsReady(c)
      PROVE  CaptureInv'
  <2>0. c \in Captures /\ c.session \in 1..goes
    BY <1>0 DEF CaptureTypeOK, Captures
  <2> DEFINE d == [c EXCEPT !.at = "load"]
  <2>1. /\ c.at = "fonts" /\ UNCHANGED <<sessionVars, owed, chrome, crossed, loaderVars>>
        /\ captures' = (captures \ {c}) \cup {d}
        /\ marked' = marked \/ marked' = marked \cup {c.session}
    BY <1>e DEF FontsReady, Moved
  <2>2. d \in Captures /\ d.session = c.session /\ d.kind = c.kind /\ d.at = "load"
    BY <2>0, MovedIs
  <2> HIDE DEF d
  <2>3. /\ captures' \subseteq Captures /\ \A x \in captures' : x.session <= goes'
        /\ chrome' \in {"visible", "hidden"} /\ ChromeHeld'
    BY <2>1, <2>2, GoingOn DEF sessionVars
  <2>4. MarksHeld' /\ RequestsHeld'
    BY <2>1, <2>2, GoingOnHolds
  <2>5. LoaderHeld'
    BY <2>1 DEF LoaderHeld, loaderVars, sessionVars
  <2>6. CaptureTypeOK'
    BY <1>0, <2>0, <2>1, <2>3 DEF CaptureTypeOK, sessionVars, loaderVars
  <2> QED
    BY <2>3, <2>4, <2>5, <2>6
<1>f. ASSUME NEW c \in captures, ScriptLoaded(c)
      PROVE  CaptureInv'
  <2>0. c \in Captures
    BY <1>0 DEF CaptureTypeOK
  <2>1. c.at = "load" /\ UNCHANGED <<sessionVars, owed, marked, loaderVars>>
    BY <1>f DEF ScriptLoaded
  <2>2. CASE component
    <3> DEFINE d == [c EXCEPT !.at = "crop", !.saved = chrome]
    <3>1. /\ captures' = (captures \ {c}) \cup {d} /\ chrome' = "hidden"
          /\ crossed' = (crossed \/ chrome = "hidden")
      BY <1>f, <2>2 DEF ScriptLoaded
    <3>2. /\ d \in Captures /\ d.session = c.session /\ d.kind = c.kind /\ d.at = "crop"
          /\ d.saved = chrome
      BY <1>0, <2>0, CropIs DEF CaptureTypeOK
    <3> HIDE DEF d
    <3>3. crossed' \in BOOLEAN
      BY <3>1, Zenon
    <3>4. captures' \subseteq Captures /\ \A x \in captures' : x.session <= goes'
      BY <1>0, <2>1, <3>1, <3>2 DEF CaptureTypeOK, sessionVars
    <3>5. CaptureTypeOK'
      BY <1>0, <2>1, <3>1, <3>3, <3>4 DEF CaptureTypeOK, sessionVars, loaderVars
    <3>6. MarksHeld' /\ RequestsHeld'
      BY <2>1, <3>1, <3>2, GoingOnHolds
    <3>7. LoaderHeld'
      BY <2>1 DEF LoaderHeld, loaderVars, sessionVars
    <3>8. ASSUME ~crossed' PROVE ~crossed /\ chrome = "visible"
      BY <1>0, <3>1, <3>8 DEF CaptureTypeOK
    <3>9. ASSUME ~crossed' PROVE \A x \in captures' : x.at = "crop" => x = d
      BY <3>1, <3>8, <3>9 DEF ChromeHeld
    <3>10. ChromeHeld'
      BY <3>1, <3>2, <3>8, <3>9 DEF ChromeHeld
    <3> QED
      BY <3>5, <3>6, <3>7, <3>10
  <2>3. CASE ~component
    <3> DEFINE d == [c EXCEPT !.at = "shot"]
    <3>1. captures' = (captures \ {c}) \cup {d} /\ UNCHANGED <<chrome, crossed>>
      BY <1>f, <2>3 DEF ScriptLoaded, Moved
    <3>2. d \in Captures /\ d.session = c.session /\ d.kind = c.kind /\ d.at = "shot"
      BY <2>0, MovedIs
    <3> HIDE DEF d
    <3>3. /\ captures' \subseteq Captures /\ \A x \in captures' : x.session <= goes'
          /\ chrome' \in {"visible", "hidden"} /\ ChromeHeld'
      BY <2>1, <3>1, <3>2, GoingOn DEF sessionVars
    <3>4. MarksHeld' /\ RequestsHeld'
      BY <2>1, <3>1, <3>2, GoingOnHolds
    <3>5. LoaderHeld'
      BY <2>1 DEF LoaderHeld, loaderVars, sessionVars
    <3>6. CaptureTypeOK'
      BY <1>0, <2>1, <3>1, <3>3 DEF CaptureTypeOK, sessionVars, loaderVars
    <3> QED
      BY <3>3, <3>4, <3>5, <3>6
  <2> QED
    BY <2>2, <2>3
<1>g. ASSUME NEW c \in captures, ScriptFails(c) \/ \E works \in BOOLEAN : ShotReturns(c, works)
      PROVE  CaptureInv'
  <2>1. PICK works \in BOOLEAN : /\ Captured(c, works) /\ c.at \in {"load", "shot"}
                                 /\ UNCHANGED <<chrome, crossed>>
    BY <1>g DEF ScriptFails, ShotReturns
  <2> QED
    BY <2>1, CapturedKeeps
<1>h. ASSUME NEW c \in captures, NEW works \in BOOLEAN, CropReturns(c, works)
      PROVE  CaptureInv'
  <2>0. c \in Captures
    BY <1>0 DEF CaptureTypeOK
  <2>1. c.at = "crop" /\ chrome' = c.saved /\ UNCHANGED crossed
    BY <1>h DEF CropReturns, ShownAfterCrop
  <2>2. CASE works
    <3>1. Captured(c, TRUE)
      BY <1>h, <2>2 DEF CropReturns
    <3> QED
      BY <2>1, <3>1, CapturedKeeps
  <2>3. CASE ~works
    <3> DEFINE d == [c EXCEPT !.at = "shot"]
    <3>1. captures' = (captures \ {c}) \cup {d} /\ UNCHANGED <<sessionVars, owed, marked, loaderVars>>
      BY <1>h, <2>3 DEF CropReturns, Moved
    <3>2. d \in Captures /\ d.session = c.session /\ d.kind = c.kind /\ d.at = "shot"
      BY <2>0, MovedIs
    <3> HIDE DEF d
    <3>3. /\ captures' \subseteq Captures /\ \A x \in captures' : x.session <= goes'
          /\ chrome' \in {"visible", "hidden"} /\ ChromeHeld'
      BY <2>1, <3>1, <3>2, GoingOn DEF sessionVars
    <3>4. MarksHeld' /\ RequestsHeld'
      BY <2>1, <3>1, <3>2, GoingOnHolds
    <3>5. LoaderHeld'
      BY <3>1 DEF LoaderHeld, loaderVars, sessionVars
    <3>6. CaptureTypeOK'
      BY <1>0, <2>1, <3>1, <3>3 DEF CaptureTypeOK, sessionVars, loaderVars
    <3> QED
      BY <3>3, <3>4, <3>5, <3>6
  <2> QED
    BY <2>2, <2>3
<1>i. ASSUME NEW c \in captures, UploadReturns(c)
      PROVE  CaptureInv'
  <2>0. c \in Captures
    BY <1>0 DEF CaptureTypeOK
  <2> DEFINE d == [c EXCEPT !.at = "post"]
  <2>1. /\ c.at = "upload" /\ UNCHANGED <<sessionVars, pageVars, loaderVars>>
        /\ captures' = (captures \ {c}) \cup {d}
        /\ owed' = owed \ {x.session : x \in {y \in captures' : y.at = "post"}}
    BY <1>i DEF UploadReturns, Moved, PostSent
  <2>2. d \in Captures /\ d.session = c.session /\ d.kind = c.kind /\ d.at = "post"
    BY <2>0, MovedIs
  <2> HIDE DEF d
  <2>3. /\ captures' \subseteq Captures /\ \A x \in captures' : x.session <= goes'
        /\ chrome' \in {"visible", "hidden"} /\ ChromeHeld'
    BY <2>1, <2>2, GoingOn DEF sessionVars, pageVars
  <2>4. owed' \subseteq owed /\ c.session \notin owed'
    BY <2>1, <2>2
  <2>5. MarksHeld' /\ RequestsHeld'
    BY <2>1, <2>2, <2>4, GoingOnHolds DEF pageVars
  <2>6. LoaderHeld'
    BY <2>1 DEF LoaderHeld, loaderVars, sessionVars
  <2>7. CaptureTypeOK'
    BY <1>0, <2>1, <2>3, <2>4 DEF CaptureTypeOK, sessionVars, pageVars, loaderVars
  <2> QED
    BY <2>3, <2>5, <2>6, <2>7
<1>j. CASE UNCHANGED captureVars
  BY <1>0, <1>j DEF captureVars, CaptureTypeOK, LoaderHeld, RequestsHeld, MarksHeld, ChromeHeld
<1> QED
  BY <1>a, <1>b, <1>c, <1>d, <1>e, <1>f, <1>g, <1>h, <1>i, <1>j DEF CaptureNext

LEMMA CaptureBegins == CaptureInit => CaptureInv
<1> SUFFICES ASSUME CaptureInit PROVE CaptureInv
  OBVIOUS
<1>1. CaptureTypeOK
  <2>1. goes = 0 /\ session = 0 /\ 0 \in 0..MaxGoes /\ 0 \in 0..0
    BY CaptureAssumption DEF CaptureInit
  <2> QED
    BY <2>1 DEF CaptureInit, CaptureTypeOK
<1>2. LoaderHeld /\ RequestsHeld /\ MarksHeld /\ ChromeHeld
  BY DEF CaptureInit, LoaderHeld, RequestsHeld, MarksHeld, ChromeHeld
<1> QED
  BY <1>1, <1>2 DEF CaptureInv

\* However captures, arrivals and teardowns fall, the loader is over the page only while it
\* generates, captures leave no trace, and a request that is owed has a capture that posts it.
THEOREM CapturesLeaveNoTrace == CaptureSpec => []CapturesEndWell
<1>1. CaptureInit => CaptureInv
  BY CaptureBegins
<1>2. CaptureInv /\ [CaptureNext]_captureVars => CaptureInv'
  BY CaptureStepInv
<1>3. CaptureInv => CapturesEndWell
  <2> SUFFICES ASSUME CaptureInv PROVE CapturesEndWell
    OBVIOUS
  <2>1. LoaderWhileGenerating
    BY DEF CaptureInv, LoaderHeld, LoaderWhileGenerating
  <2>2. \A s \in owed : \E c \in captures : c.session = s /\ c.kind = "annotated"
    BY DEF CaptureInv, RequestsHeld
  <2>3. ASSUME \A c \in captures : c.at \in {"post", "fonts", "upload"}
        PROVE  marked = {} /\ (~crossed => chrome = "visible")
    BY <2>3 DEF CaptureInv, CaptureTypeOK, MarksHeld, ChromeHeld
  <2> QED
    BY <2>1, <2>2, <2>3 DEF CapturesEndWell
<1> QED
  BY <1>1, <1>2, <1>3, PTL DEF CaptureSpec

-----------------------------------------------------------------------------
(* The types of the component previews, whichever races are met.           *)

\* What the types are made of.
BarTypes ==
  [current : 0..MaxPreviews, arrived : 0..Components, visible : 0..Components,
   state : {"PICKING", "GENERATING", "CYCLING", "SAVING"}, begun : 0..MaxPreviews]

PreviewTypes == [id : 0..MaxPreviews, target : 0..MaxTargets, instance : Nat,
                 mounted : 0..Components]

InstanceTypes == [tag : Nat, target : 0..MaxTargets, variant : 0..Components]

WrapperTypes == [id : 0..MaxPreviews, target : 0..MaxTargets]

CardTypes == [id : 0..MaxPreviews, variant : 0..Components]

LeavingTypes == [how : {"", "accept", "discard"}, id : 0..MaxPreviews]

TaskTypes ==
  [kind : {"injection", "selection"}, no : 0..MaxTasks, id : Previews,
   at : {"manifest", "import", "ending", "probing"}, seen : 0..Components,
   target : 0..MaxTargets, variant : 0..Components, fresh : BOOLEAN, back : 0..Components]

PageTyped ==
  /\ preview \in PreviewTypes /\ (preview.id = 0 => preview = NoPreview)
  /\ instances \subseteq InstanceTypes /\ IsFiniteSet(instances)
  /\ wrapper \in WrapperTypes

OthersTyped ==
  /\ bar \in BarTypes /\ retryFor \in 0..MaxPreviews /\ card \in CardTypes
  /\ leaving \in LeavingTypes /\ tasks \subseteq TaskTypes
  /\ published \in [Previews -> 0..Components] /\ untold \cup handled \subseteq Previews

CountsTyped ==
  /\ met \subseteq {"uprooted", "outlived", "overlapped", "dismissed"}
  /\ troubles \in 0..MaxTroubles

LEMMA TypesAre == PreviewTypeOK <=> PageTyped /\ OthersTyped /\ CountsTyped
BY DEF PreviewTypeOK, PageTyped, OthersTyped, CountsTyped, BarTypes, PreviewTypes, InstanceTypes,
       WrapperTypes, CardTypes, LeavingTypes, TaskTypes

LEMMA TypeBounds ==
  /\ MaxPreviews \in Nat /\ MaxTargets \in Nat /\ MaxTasks \in Nat /\ Components \in Nat
  /\ MaxTroubles \in Nat /\ 0 \in 0..MaxPreviews /\ 0 \in 0..MaxTargets /\ 0 \in 0..Components
  /\ 1 \in 0..Components /\ 0 \in 0..MaxTasks
  /\ Previews = (0..MaxPreviews) \ {0} /\ MountTargets \subseteq 0..MaxTargets
  /\ 1..MaxTasks \subseteq 0..MaxTasks /\ 0..Components \subseteq Nat
  /\ NoPreview \in PreviewTypes /\ NoPreview.id = 0 /\ NoWrapper \in WrapperTypes
  /\ NoCard \in CardTypes /\ NotLeaving \in LeavingTypes
BY ComponentPreviewAssumption
   DEF Previews, MountTargets, NoPreview, NoWrapper, NoCard, NotLeaving, PreviewTypes,
       WrapperTypes, CardTypes, LeavingTypes

\* A field of a record is of its type.
LEMMA TypeFields ==
  /\ \A b \in BarTypes : /\ b.current \in 0..MaxPreviews /\ b.begun \in 0..MaxPreviews
                         /\ b.arrived \in 0..Components /\ b.visible \in 0..Components
                         /\ b.state \in {"PICKING", "GENERATING", "CYCLING", "SAVING"}
  /\ \A p \in PreviewTypes : /\ p.id \in 0..MaxPreviews /\ p.target \in 0..MaxTargets
                             /\ p.instance \in Nat /\ p.mounted \in 0..Components
  /\ \A i \in InstanceTypes : /\ i.tag \in Nat /\ i.target \in 0..MaxTargets
                              /\ i.variant \in 0..Components
  /\ \A c \in CardTypes : c.id \in 0..MaxPreviews /\ c.variant \in 0..Components
  /\ \A l \in LeavingTypes : l.how \in {"", "accept", "discard"} /\ l.id \in 0..MaxPreviews
  /\ \A t \in TaskTypes :
       /\ t.kind \in {"injection", "selection"} /\ t.id \in Previews
       /\ t.at \in {"manifest", "import", "ending", "probing"} /\ t.seen \in 0..Components
       /\ t.target \in 0..MaxTargets /\ t.variant \in 0..Components /\ t.fresh \in BOOLEAN
       /\ t.back \in 0..Components
BY DEF BarTypes, PreviewTypes, InstanceTypes, WrapperTypes, CardTypes, LeavingTypes, TaskTypes

\* Fields that are given others of their types leave a record of its type.
LEMMA TypeUpdates ==
  /\ \A b \in BarTypes :
       /\ [b EXCEPT !.state = "GENERATING"] \in BarTypes
       /\ [b EXCEPT !.state = "CYCLING"] \in BarTypes
       /\ [b EXCEPT !.state = "PICKING"] \in BarTypes
       /\ [b EXCEPT !.current = 0, !.state = "PICKING"] \in BarTypes
  /\ \A b \in BarTypes, v \in 0..Components :
       /\ [b EXCEPT !.visible = v] \in BarTypes
       /\ [b EXCEPT !.state = "SAVING", !.visible = v] \in BarTypes
  /\ \A t \in TaskTypes, a \in {"manifest", "import", "ending", "probing"} :
       [t EXCEPT !.at = a] \in TaskTypes
<1>1. ASSUME NEW b \in BarTypes, NEW v \in 0..Components
      PROVE  /\ [b EXCEPT !.state = "GENERATING"] \in BarTypes
             /\ [b EXCEPT !.state = "CYCLING"] \in BarTypes
             /\ [b EXCEPT !.state = "PICKING"] \in BarTypes
             /\ [b EXCEPT !.visible = v] \in BarTypes
             /\ [b EXCEPT !.state = "SAVING", !.visible = v] \in BarTypes
  BY DEF BarTypes
<1>2. ASSUME NEW b \in BarTypes PROVE [b EXCEPT !.current = 0, !.state = "PICKING"] \in BarTypes
  BY TypeBounds DEF BarTypes
<1>3. ASSUME NEW t \in TaskTypes, NEW a \in {"manifest", "import", "ending", "probing"}
      PROVE  [t EXCEPT !.at = a] \in TaskTypes
  BY DEF TaskTypes
<1>4. 0 \in 0..Components
  BY TypeBounds
<1> QED
  BY <1>1, <1>2, <1>3, <1>4

LEMMA TeardownTyped ==
  ASSUME PageTyped, NEW id, Teardown(id)
  PROVE  PageTyped'
<1>1. IsFiniteSet({i \in instances : i.tag # preview.instance})
  BY FS_Subset DEF PageTyped
<1>2. CASE UNCHANGED <<preview, instances, wrapper>>
  BY <1>2 DEF PageTyped
<1>3. CASE /\ preview' = NoPreview
           /\ instances' = {i \in instances : i.tag # preview.instance}
           /\ wrapper' \in {wrapper, NoWrapper}
  BY <1>1, <1>3, TypeBounds DEF PageTyped
<1> QED
  BY <1>2, <1>3 DEF Teardown

LEMMA AbortTyped ==
  ASSUME PageTyped, OthersTyped, NEW id, NEW shown \in CardTypes, Abort(id, shown)
  PROVE  PageTyped' /\ retryFor' \in 0..MaxPreviews /\ card' \in CardTypes
<1>1. CASE preview.id = id
  BY <1>1, TeardownTyped, TypeBounds DEF Abort
<1>2. CASE preview.id # id
  <2>1. wrapper' \in WrapperTypes /\ UNCHANGED <<preview, instances>>
    BY <1>2, TypeBounds DEF Abort, PageTyped
  <2> QED
    BY <2>1, TypeBounds DEF Abort, PageTyped
<1> QED
  BY <1>1, <1>2

\* An injection that begins.
LEMMA InjectionTyped ==
  ASSUME OthersTyped, NEW id \in Previews, NEW them \in SUBSET TaskTypes,
         WithInjection(id, them)
  PROVE  tasks' \subseteq TaskTypes
<1>1. PICK no \in 1..MaxTasks : tasks' = them \cup {AnInjection(id, no)}
  BY DEF WithInjection
<1>2. published[id] \in 0..Components /\ no \in 0..MaxTasks
  BY <1>1, TypeBounds DEF OthersTyped
<1>3. AnInjection(id, no) \in TaskTypes
  BY <1>2, TypeBounds DEF AnInjection, TaskTypes
<1> QED
  BY <1>1, <1>3

\* Some number is free for the next instance.
LEMMA FreshTag ==
  ASSUME NEW them, IsFiniteSet(them)
  PROVE  (CHOOSE n \in 1..Cardinality(them) + 1 : \A i \in them : i.tag # n) \in Nat
<1> DEFINE k == Cardinality(them)
           used == {i.tag : i \in them}
<1>1. k \in Nat
  BY FS_CardinalityType
<1>2. IsFiniteSet(used) /\ Cardinality(used) <= k
  <2> DEFINE f == [i \in them |-> i.tag]
  <2>1. f \in Surjection(them, used)
    BY DEF Surjection
  <2> QED
    BY <2>1, FS_Surjection
<1>3. \E n \in 1..k + 1 : n \notin used
  <2>1. SUFFICES ASSUME 1..k + 1 \subseteq used PROVE FALSE
    OBVIOUS
  <2>2. Cardinality(1..k + 1) <= Cardinality(used)
    BY <2>1, <1>2, FS_Subset
  <2>3. Cardinality(1..k + 1) = k + 1
    BY <1>1, FS_Interval
  <2>4. Cardinality(used) \in Nat
    BY <1>2, FS_CardinalityType
  <2> QED
    BY <2>2, <2>3, <2>4, <1>1, <1>2
<1>4. \E n \in 1..k + 1 : \A i \in them : i.tag # n
  BY <1>3
<1> QED
  BY <1>1, <1>4

LEMMA FailsTyped ==
  ASSUME OthersTyped, NEW t \in tasks, Fails(t)
  PROVE  tasks' \subseteq TaskTypes /\ UNCHANGED <<instances, bar, card>>
BY TypeUpdates DEF OthersTyped, Fails, Moves

LEMMA MountsTyped ==
  ASSUME PageTyped, OthersTyped, preview # NoPreview, NEW t \in tasks, Mounts(t, instances),
         UNCHANGED wrapper
  PROVE  PageTyped' /\ bar' \in BarTypes /\ card' \in CardTypes /\ tasks' \subseteq TaskTypes
<1> DEFINE tag == CHOOSE n \in 1..Cardinality(instances) + 1 : \A i \in instances : i.tag # n
           new == [tag |-> tag, target |-> t.target, variant |-> t.variant]
<1>1. tag \in Nat
  BY FreshTag DEF PageTyped
<1>2. /\ preview' = [preview EXCEPT !.instance = tag, !.mounted = t.variant]
      /\ instances' = instances \cup {new}
      /\ GoesOn(t)
  BY DEF Mounts
<1> HIDE DEF tag
<1>3. t \in TaskTypes
  BY DEF OthersTyped
<1>4. new \in InstanceTypes
  BY <1>1, <1>3, TypeFields DEF InstanceTypes
<1>5. preview' \in PreviewTypes /\ preview'.id = preview.id /\ preview.id # 0
  BY <1>1, <1>2, <1>3, TypeFields DEF PageTyped, PreviewTypes
<1> HIDE DEF new
<1>6. IsFiniteSet(instances')
  BY <1>2, FS_AddElement DEF PageTyped
<1>7. tasks' \subseteq TaskTypes
  BY <1>2 DEF GoesOn, Ends, OthersTyped
<1>8. bar' \in BarTypes /\ card' \in CardTypes
  <2>1. /\ bar' = bar \/ bar' = [bar EXCEPT !.state = "CYCLING"]
             \/ bar' = [bar EXCEPT !.current = 0, !.state = "PICKING"]
        /\ card' \in {card, NoCard}
    BY <1>2 DEF GoesOn
  <2> QED
    BY <2>1, TypeUpdates, TypeBounds DEF OthersTyped
<1> QED
  BY <1>2, <1>4, <1>5, <1>6, <1>7, <1>8 DEF PageTyped

LEMMA UserTyped ==
  ASSUME PageTyped, OthersTyped, PreviewUserStep
  PROVE  PageTyped' /\ OthersTyped'
<1>1. CASE Begin
  <2>1. bar.begun + 1 \in 0..MaxPreviews
    <3>1. bar.begun \in 0..MaxPreviews
      BY TypeFields DEF OthersTyped
    <3> QED
      BY <1>1, <3>1, TypeBounds DEF Begin
  <2>2. bar' \in BarTypes
    BY <1>1, <2>1, TypeBounds DEF Begin, BarTypes
  <2> QED
    BY <1>1, <2>2, TypeBounds DEF Begin, PageTyped, OthersTyped
<1>2. CASE AcceptPreview
  <2>1. AcceptedVariant \in 0..Components
    BY TypeFields DEF AcceptedVariant, PageTyped, OthersTyped
  <2>2. bar' \in BarTypes
    BY <1>2, <2>1, TypeUpdates DEF AcceptPreview, OthersTyped
  <2>3. leaving' \in LeavingTypes
    BY <1>2, TypeFields DEF AcceptPreview, OthersTyped, LeavingTypes
  <2> QED
    BY <1>2, <2>2, <2>3 DEF AcceptPreview, PageTyped, OthersTyped
<1>3. CASE DiscardPreview
  <2>1. leaving' \in LeavingTypes
    BY <1>3, TypeFields DEF DiscardPreview, OthersTyped, LeavingTypes
  <2> QED
    BY <1>3, <2>1 DEF DiscardPreview, PageTyped, OthersTyped
<1>4. CASE RetryCard
  <2>1. card.id \in Previews
    BY <1>4, TypeFields, TypeBounds DEF RetryCard, OthersTyped
  <2>2. tasks' \subseteq TaskTypes
    BY <1>4, <2>1, InjectionTyped DEF RetryCard, OthersTyped
  <2>3. bar' \in BarTypes
    BY <1>4, TypeUpdates DEF RetryCard, OthersTyped
  <2> QED
    BY <1>4, <2>2, <2>3, TypeBounds DEF RetryCard, PageTyped, OthersTyped
<1>5. CASE DismissCard
  <2>1. bar' \in BarTypes
    BY <1>5, TypeUpdates DEF DismissCard, OthersTyped
  <2> QED
    BY <1>5, <2>1, TypeBounds DEF DismissCard, PageTyped, OthersTyped
<1>6. CASE SelectVariant
  <2>1. PICK next \in 1..bar.arrived \ {bar.visible} :
          /\ bar' = [bar EXCEPT !.visible = next]
          /\ tasks' = tasks \cup {Selection(next, bar.visible)}
    BY <1>6 DEF SelectVariant
  <2>2. next \in 0..Components
    <3>1. bar.arrived \in 0..Components
      BY TypeFields DEF OthersTyped
    <3> QED
      BY <2>1, <3>1, TypeBounds
  <2>3. bar' \in BarTypes
    BY <2>1, <2>2, TypeUpdates DEF OthersTyped
  <2>4. /\ bar.current \in Previews /\ preview.target \in 0..MaxTargets
        /\ bar.visible \in 0..Components
    BY <1>6, TypeFields, TypeBounds DEF SelectVariant, PageTyped, OthersTyped
  <2>5. Selection(next, bar.visible) \in TaskTypes
    BY <2>2, <2>4, TypeBounds DEF Selection, TaskTypes
  <2> QED
    BY <1>6, <2>1, <2>3, <2>5 DEF SelectVariant, PageTyped, OthersTyped
<1> QED
  BY <1>1, <1>2, <1>3, <1>4, <1>5, <1>6 DEF PreviewUserStep

LEMMA AnswerTyped ==
  ASSUME PageTyped, OthersTyped, AnswerStep
  PROVE  PageTyped' /\ OthersTyped'
<1>1. CASE LeaveAnswered
  <2>1. /\ PageTyped' /\ card' \in {card, NoCard}
        /\ bar' = [bar EXCEPT !.current = 0, !.state = "PICKING"]
    <3>1. CASE Accepted
      BY <3>1, TeardownTyped DEF Accepted, PageTyped
    <3>2. CASE Discarded
      BY <3>2, TeardownTyped DEF Discarded, CleanupPreview
    <3> QED
      BY <1>1, <3>1, <3>2 DEF LeaveAnswered
  <2>2. bar' \in BarTypes /\ card' \in CardTypes
    BY <2>1, TypeUpdates, TypeBounds DEF OthersTyped
  <2>3. bar.current \in 0..MaxPreviews
    BY TypeFields DEF OthersTyped
  <2>4. /\ handled' \subseteq Previews /\ leaving' \in LeavingTypes
        /\ UNCHANGED <<retryFor, tasks, published, untold>>
    BY <1>1, <2>3, TypeBounds DEF LeaveAnswered, OthersTyped
  <2> QED
    BY <2>1, <2>2, <2>4 DEF OthersTyped
<1>2. CASE LeaveFails
  <2>1. bar' \in BarTypes
    BY <1>2, TypeUpdates DEF LeaveFails, OthersTyped
  <2> QED
    BY <1>2, <2>1, TypeBounds DEF LeaveFails, PageTyped, OthersTyped
<1> QED
  BY <1>1, <1>2 DEF AnswerStep

LEMMA AgentTyped ==
  ASSUME PageTyped, OthersTyped, PreviewAgentStep
  PROVE  PageTyped' /\ OthersTyped'
<1>1. PICK i \in Previews : Publish(i) \/ HearPublication(i)
  BY DEF PreviewAgentStep
<1>2. CASE Publish(i)
  <2>1. published[i] + 1 \in 0..Components
    BY <1>2, TypeBounds DEF Publish, OthersTyped
  <2>2. published' \in [Previews -> 0..Components]
    BY <1>2, <2>1 DEF Publish, OthersTyped
  <2> QED
    BY <1>2, <2>2 DEF Publish, PageTyped, OthersTyped
<1>3. CASE HearPublication(i)
  <2>1. tasks' \subseteq TaskTypes
    BY <1>3, InjectionTyped DEF HearPublication, OthersTyped
  <2> QED
    BY <1>3, <2>1 DEF HearPublication, PageTyped, OthersTyped
<1> QED
  BY <1>1, <1>2, <1>3

LEMMA PageStepTyped ==
  ASSUME PageTyped, OthersTyped, PageStep
  PROVE  PageTyped' /\ OthersTyped'
<1>1. CASE RenderPage
  BY <1>1, TypeBounds DEF RenderPage, PageTyped, OthersTyped
<1>2. CASE RetryObserved
  <2>1. retryFor \in Previews
    BY <1>2, TypeBounds DEF RetryObserved, OthersTyped
  <2>2. tasks' \subseteq TaskTypes
    BY <1>2, <2>1, InjectionTyped DEF RetryObserved, OthersTyped
  <2> QED
    BY <1>2, <2>2, TypeBounds DEF RetryObserved, PageTyped, OthersTyped
<1>3. CASE ReloadPreview
  <2>1. PageTyped'
    BY <1>3, TypeBounds, FS_EmptySet DEF ReloadPreview, PageTyped
  <2>2. /\ retryFor' = 0 /\ card' = NoCard /\ leaving' = NotLeaving /\ untold' = {}
        /\ published' = published
        /\ handled' \in {handled, handled \cup ({leaving.id} \ {0})}
    BY <1>3 DEF ReloadPreview
  <2>3. handled' \subseteq Previews
    BY <2>2, TypeFields, TypeBounds DEF OthersTyped
  <2>4. bar' \in BarTypes /\ tasks' \subseteq TaskTypes
    <3> DEFINE id == bar.current
    <3>1. CASE id = 0 \/ id \in handled' \/ bar.state = "SAVING"
      <4>1. bar' = [bar EXCEPT !.current = 0, !.state = "PICKING"] /\ tasks' = {}
        BY <1>3, <3>1 DEF ReloadPreview
      <4> QED
        BY <4>1, TypeUpdates, TypeBounds DEF OthersTyped
    <3>2. CASE ~(id = 0 \/ id \in handled' \/ bar.state = "SAVING")
      <4>1. id \in Previews /\ bar.visible \in 0..Components
        BY <3>2, TypeFields, TypeBounds DEF OthersTyped
      <4>2. published[id] \in 0..Components
        BY <4>1 DEF OthersTyped
      <4>3. /\ bar' = [bar EXCEPT !.state = "GENERATING", !.arrived = published[id],
                         !.visible = IF @ > 0 THEN @ ELSE IF published[id] > 0 THEN 1 ELSE 0]
            /\ IF published[id] > 0 THEN WithInjection(id, {}) ELSE tasks' = {}
        BY <1>3, <3>2 DEF ReloadPreview
      <4>4. bar' \in BarTypes
        BY <4>1, <4>2, <4>3, TypeBounds DEF OthersTyped, BarTypes
      <4>5. tasks' \subseteq TaskTypes
        <5>1. {} \in SUBSET TaskTypes
          OBVIOUS
        <5> QED
          BY <4>1, <4>3, <5>1, InjectionTyped
      <4> QED
        BY <4>4, <4>5
    <3> QED
      BY <3>1, <3>2
  <2> QED
    BY <2>1, <2>2, <2>3, <2>4, TypeBounds DEF OthersTyped
<1> QED
  BY <1>1, <1>2, <1>3 DEF PageStep

LEMMA ReadTyped ==
  ASSUME PageTyped, OthersTyped, NEW t \in tasks, ReadManifest(t)
  PROVE  PageTyped' /\ OthersTyped'
<1>0. /\ t \in TaskTypes /\ t.id \in Previews /\ t.id \in 0..MaxPreviews /\ t.id # 0
      /\ t.seen \in 0..Components /\ published[t.id] \in 0..Components /\ bar \in BarTypes
      /\ preview \in PreviewTypes
      /\ UNCHANGED <<instances, card, leaving, handled, published, untold>>
  <2>1. t \in TaskTypes
    BY DEF OthersTyped
  <2>2. t.id \in Previews /\ t.seen \in 0..Components
    BY <2>1, TypeFields
  <2> QED
    BY <2>1, <2>2, TypeBounds DEF ReadManifest, OthersTyped, PageTyped
<1>1. PICK n \in t.seen..published[t.id] :
        LET now == [bar EXCEPT !.current = t.id, !.arrived = n, !.visible = VariantOf(n),
                      !.state = IF @ = "CYCLING" THEN @ ELSE "GENERATING"]
        IN \/ /\ wrapper.id = t.id /\ preview.id = t.id
              /\ bar' = now
              /\ Moves(t, Mounting(t, preview, VariantOf(n), FALSE))
              /\ UNCHANGED <<preview, wrapper, retryFor>>
           \/ /\ ~(wrapper.id = t.id /\ preview.id = t.id)
              /\ ~rendered \/ wrapper # NoWrapper
              /\ bar' = [now EXCEPT !.state = "GENERATING"]
              /\ retryFor' = t.id
              /\ Ends(t)
              /\ UNCHANGED <<preview, wrapper>>
           \/ /\ rendered /\ wrapper = NoWrapper /\ Unused # {}
              /\ bar' = now
              /\ preview' = [NoPreview EXCEPT !.id = t.id, !.target = FreshTarget]
              /\ wrapper' = [id |-> t.id, target |-> FreshTarget]
              /\ retryFor' = 0
              /\ Moves(t, Mounting(t, preview', VariantOf(n), TRUE))
  BY DEF ReadManifest
<1> DEFINE v == VariantOf(n)
           now == [bar EXCEPT !.current = t.id, !.arrived = n, !.visible = v,
                     !.state = IF @ = "CYCLING" THEN @ ELSE "GENERATING"]
<1>2. n \in 0..Components
  BY <1>0, <1>1, TypeBounds
<1>3. v \in 0..Components
  BY <1>0, <1>2, TypeBounds, TypeFields DEF VariantOf
<1> HIDE DEF v
<1>4. now \in BarTypes
  BY <1>0, <1>2, <1>3 DEF BarTypes
<1>5. ASSUME NEW p \in PreviewTypes, NEW fresh \in BOOLEAN
      PROVE  Mounting(t, p, v, fresh) \in TaskTypes
  BY <1>0, <1>3 DEF Mounting, TaskTypes, PreviewTypes
<1> HIDE DEF now
<1>6. CASE /\ bar' = now
           /\ Moves(t, Mounting(t, preview, v, FALSE))
           /\ UNCHANGED <<preview, wrapper, retryFor>>
  <2>1. FALSE \in BOOLEAN
    OBVIOUS
  <2>2. Mounting(t, preview, v, FALSE) \in TaskTypes
    BY <1>0, <1>5, <2>1
  <2> QED
    BY <1>0, <1>4, <1>6, <2>2 DEF Moves, PageTyped, OthersTyped
<1>7. CASE /\ bar' = [now EXCEPT !.state = "GENERATING"]
           /\ retryFor' = t.id
           /\ Ends(t)
           /\ UNCHANGED <<preview, wrapper>>
  <2>1. bar' \in BarTypes
    BY <1>4, <1>7, TypeUpdates
  <2> QED
    BY <1>0, <1>7, <2>1 DEF Ends, PageTyped, OthersTyped
<1>8. CASE /\ Unused # {}
           /\ bar' = now
           /\ preview' = [NoPreview EXCEPT !.id = t.id, !.target = FreshTarget]
           /\ wrapper' = [id |-> t.id, target |-> FreshTarget]
           /\ retryFor' = 0
           /\ Moves(t, Mounting(t, preview', v, TRUE))
  <2>1. FreshTarget \in 0..MaxTargets
    BY <1>8, TypeBounds DEF FreshTarget, Unused
  <2>2. /\ preview' \in PreviewTypes /\ preview'.id # 0
        /\ wrapper' \in WrapperTypes /\ TRUE \in BOOLEAN
    BY <1>0, <1>8, <2>1, TypeBounds DEF NoPreview, PreviewTypes, WrapperTypes
  <2>3. Mounting(t, preview', v, TRUE) \in TaskTypes
    BY <1>5, <2>2
  <2> QED
    BY <1>0, <1>4, <1>8, <2>2, <2>3, TypeBounds DEF Moves, PageTyped, OthersTyped
<1> QED
  BY <1>1, <1>6, <1>7, <1>8 DEF v, now

LEMMA TaskTyped ==
  ASSUME PageTyped, OthersTyped, TaskStep
  PROVE  PageTyped' /\ OthersTyped'
<1>1. PICK t \in tasks : ReadManifest(t) \/ ManifestFails(t) \/ Imported(t) \/ Ended(t)
                          \/ MountFails(t) \/ Probed(t)
  BY DEF TaskStep
<1>2. /\ t \in TaskTypes /\ t.id \in Previews /\ t.id \in 0..MaxPreviews
      /\ t.variant \in 0..Components /\ t.back \in 0..Components
  <2>1. t \in TaskTypes
    BY DEF OthersTyped
  <2> QED
    BY <2>1, TypeFields, TypeBounds
<1>3. CASE ManifestFails(t)
  <2>1. [id |-> t.id, variant |-> bar.visible] \in CardTypes
    BY <1>2, TypeFields DEF CardTypes, OthersTyped
  <2>2. PageTyped' /\ retryFor' \in 0..MaxPreviews /\ card' \in CardTypes
    BY <1>3, <2>1, AbortTyped DEF ManifestFails
  <2> QED
    BY <1>3, <2>2 DEF ManifestFails, Ends, OthersTyped
<1>4. CASE Imported(t)
  <2>1. UNCHANGED <<wrapper, retryFor, leaving, handled, published, untold>>
    BY <1>4 DEF Imported
  <2>2. CASE Fails(t) /\ UNCHANGED preview
    BY <2>1, <2>2, FailsTyped DEF PageTyped, OthersTyped
  <2>3. CASE /\ instances' = {i \in instances : i.tag # preview.instance}
             /\ Moves(t, [t EXCEPT !.at = "ending"])
             /\ UNCHANGED <<bar, preview, card>>
    <3>1. IsFiniteSet(instances') /\ instances' \subseteq InstanceTypes
      BY <2>3, FS_Subset DEF PageTyped
    <3>2. tasks' \subseteq TaskTypes
      BY <1>2, <2>3, TypeUpdates DEF Moves, OthersTyped
    <3> QED
      BY <2>1, <2>3, <3>1, <3>2 DEF PageTyped, OthersTyped
  <2>4. CASE preview # NoPreview /\ Mounts(t, instances)
    BY <2>1, <2>4, MountsTyped DEF OthersTyped
  <2> QED
    BY <1>4, <2>2, <2>3, <2>4 DEF Imported
<1>5. CASE Ended(t)
  <2>1. UNCHANGED <<wrapper, retryFor, leaving, handled, published, untold>>
    BY <1>5 DEF Ended
  <2>2. CASE Fails(t) /\ UNCHANGED preview
    BY <2>1, <2>2, FailsTyped DEF PageTyped, OthersTyped
  <2>3. CASE preview # NoPreview /\ Mounts(t, instances)
    BY <2>1, <2>3, MountsTyped DEF OthersTyped
  <2> QED
    BY <1>5, <2>2, <2>3 DEF Ended
<1>6. CASE MountFails(t)
  <2>1. UNCHANGED <<wrapper, retryFor, leaving, handled, published, untold>> /\ Fails(t)
    BY <1>6 DEF MountFails
  <2>2. preview' \in PreviewTypes /\ (preview'.id = 0 => preview' = NoPreview)
    <3>1. preview' = preview \/ (preview # NoPreview /\ preview' = [preview EXCEPT !.instance = 0])
      BY <1>6 DEF MountFails
    <3> QED
      BY <3>1 DEF PageTyped, PreviewTypes
  <2> QED
    BY <2>1, <2>2, FailsTyped DEF PageTyped, OthersTyped
<1>7. CASE Probed(t)
  <2>1. UNCHANGED <<leaving, handled, published, untold>>
    BY <1>7 DEF Probed
  <2>2. [id |-> t.id, variant |-> t.variant] \in CardTypes
    BY <1>2 DEF CardTypes
  <2>3. CASE t.fresh
    <3>1. Abort(t.id, [id |-> t.id, variant |-> t.variant]) /\ Ends(t) /\ UNCHANGED bar
      BY <1>7, <2>3 DEF Probed, AbortsFresh
    <3>2. PageTyped' /\ retryFor' \in 0..MaxPreviews /\ card' \in CardTypes
      BY <3>1, <2>2, AbortTyped
    <3> QED
      BY <2>1, <3>1, <3>2 DEF Ends, OthersTyped
  <2>4. CASE ~t.fresh
    <3>1. /\ card' = [id |-> t.id, variant |-> t.variant]
          /\ UNCHANGED <<preview, instances, wrapper, retryFor>>
          /\ IF t.back = 0 THEN Ends(t) /\ UNCHANGED bar
             ELSE /\ bar' = [bar EXCEPT !.visible = t.back]
                  /\ IF preview.id = bar.current /\ preview # NoPreview
                     THEN Moves(t, [Mounting(t, preview, t.back, FALSE)
                                      EXCEPT !.id = preview.id, !.back = 0])
                     ELSE Ends(t)
      BY <1>7, <2>4 DEF Probed
    <3>2. bar' \in BarTypes
      BY <1>2, <3>1, TypeUpdates DEF OthersTyped
    <3>3. tasks' \subseteq TaskTypes
      <4>1. CASE Ends(t)
        BY <4>1 DEF Ends, OthersTyped
      <4>2. CASE preview # NoPreview /\ Moves(t, [Mounting(t, preview, t.back, FALSE)
                                                    EXCEPT !.id = preview.id, !.back = 0])
        <5> DEFINE m == [Mounting(t, preview, t.back, FALSE) EXCEPT !.id = preview.id, !.back = 0]
        <5>1. /\ preview.id \in 0..MaxPreviews /\ preview.id # 0
              /\ preview.target \in 0..MaxTargets
          BY <4>2, TypeFields DEF PageTyped
        <5>2. preview.id \in Previews
          BY <5>1, TypeBounds
        <5>3. m \in TaskTypes
          BY <1>2, <5>1, <5>2, TypeBounds DEF Mounting, TaskTypes
        <5>4. tasks' = (tasks \ {t}) \cup {m}
          BY <4>2 DEF Moves
        <5> HIDE DEF m
        <5> QED
          BY <5>3, <5>4 DEF OthersTyped
      <4> QED
        BY <3>1, <4>1, <4>2
    <3> QED
      BY <2>1, <2>2, <3>1, <3>2, <3>3 DEF PageTyped, OthersTyped
  <2> QED
    BY <2>3, <2>4
<1> QED
  BY <1>1, <1>3, <1>4, <1>5, <1>6, <1>7, ReadTyped

LEMMA TotalsKept ==
  ASSUME CountsTyped, PreviewNext
  PROVE  CountsTyped'
<1>1. troubles' \in 0..MaxTroubles
  <2>1. troubles' = troubles \/ (troubles < MaxTroubles /\ troubles' = troubles + 1)
    BY DEF PreviewNext, PreviewUserStep, AnswerStep, PreviewAgentStep, PageStep, TaskStep, Trouble,
       Begin, AcceptPreview, DiscardPreview, RetryCard, DismissCard, SelectVariant,
       LeaveAnswered, LeaveFails, Publish, HearPublication, RenderPage, RetryObserved,
       ReloadPreview, ReadManifest, ManifestFails, Imported, Ended, MountFails, Probed
  <2> QED
    BY <2>1, TypeBounds DEF CountsTyped
<1>2. met' \subseteq {"uprooted", "outlived", "overlapped", "dismissed"}
  BY DEF CountsTyped, PreviewNext, PreviewUserStep, AnswerStep, PreviewAgentStep, PageStep, TaskStep,
     Begin, AcceptPreview, DiscardPreview, RetryCard, DismissCard, SelectVariant,
     LeaveAnswered, LeaveFails, Publish, HearPublication, RenderPage, RetryObserved,
     ReloadPreview, ReadManifest, ManifestFails, Imported, Ended, MountFails, Probed, Meets
<1> QED
  BY <1>1, <1>2 DEF CountsTyped

LEMMA PreviewTypesStay == PreviewTypeOK /\ [PreviewNext]_previewVars => PreviewTypeOK'
<1> SUFFICES ASSUME PreviewTypeOK, [PreviewNext]_previewVars PROVE PreviewTypeOK'
  OBVIOUS
<1>1. PageTyped /\ OthersTyped /\ CountsTyped
  BY TypesAre
<1>2. CASE UNCHANGED previewVars
  BY <1>2 DEF previewVars, PreviewTypeOK
<1>3. CASE PreviewNext
  <2>1. PageTyped' /\ OthersTyped'
    BY <1>1, <1>3, UserTyped, AnswerTyped, AgentTyped, PageStepTyped, TaskTyped DEF PreviewNext
  <2>2. CountsTyped'
    BY <1>1, <1>3, TotalsKept
  <2>3. (PreviewTypeOK <=> PageTyped /\ OthersTyped /\ CountsTyped)'
    BY DEF PreviewTypeOK, PageTyped, OthersTyped, CountsTyped, BarTypes, PreviewTypes, InstanceTypes,
           WrapperTypes, CardTypes, LeavingTypes, TaskTypes
  <2> QED
    BY <2>1, <2>2, <2>3
<1> QED
  BY <1>2, <1>3

LEMMA PreviewTypesBegin == PreviewInit => PreviewTypeOK
<1> SUFFICES ASSUME PreviewInit PROVE PreviewTypeOK
  OBVIOUS
<1>1. bar \in BarTypes
  BY TypeBounds DEF PreviewInit, BarTypes
<1>2. PageTyped
  BY TypeBounds, FS_EmptySet DEF PreviewInit, PageTyped
<1>3. OthersTyped
  BY <1>1, TypeBounds DEF PreviewInit, OthersTyped
<1>4. CountsTyped
  BY TypeBounds DEF PreviewInit, CountsTyped
<1> QED
  BY <1>2, <1>3, <1>4, TypesAre

\* Every task that the page awaits, and whatever it keeps of a session that is long gone,
\* stays within the sessions, targets and variants that there are.
THEOREM PreviewTypeCorrect == PreviewSpec => []PreviewTypeOK
BY PreviewTypesBegin, PreviewTypesStay, PTL DEF PreviewSpec

-----------------------------------------------------------------------------
(* Component previews.                                                     *)

PreviewParts == PreviewsHeld /\ OnlyPublished /\ PreviewInPlace /\ PreviewAttended
                  /\ NothingStranded

LEMMA PreviewBounds ==
  /\ MaxPreviews \in Nat /\ MaxTargets \in Nat /\ MaxTasks \in Nat /\ Components \in Nat
  /\ MaxTroubles \in Nat /\ 0 \in 0..MaxPreviews /\ 0 \in 0..MaxTargets
  /\ Previews = (0..MaxPreviews) \ {0} /\ Previews \subseteq Nat
  /\ MountTargets \subseteq 0..MaxTargets /\ 0 \notin MountTargets
  /\ NoPreview \in PreviewRecords /\ NoPreview.id = 0 /\ NoPreview.target = 0
  /\ NoPreview.instance = 0
  /\ NoWrapper \in MountWrappers /\ NoWrapper.id = 0 /\ NoWrapper.target = 0
  /\ NoCard \in Cards /\ NoCard.id = 0
  /\ NotLeaving \in Leavings /\ NotLeaving.how = ""
BY ComponentPreviewAssumption
   DEF Previews, MountTargets, NoPreview, NoWrapper, NoCard, NotLeaving, PreviewRecords, MountWrappers,
       Cards, Leavings

LEMMA PreviewFields ==
  /\ \A b \in Bars : /\ b.current \in 0..MaxPreviews /\ b.begun \in 0..MaxPreviews
                    /\ b.arrived \in Nat /\ b.visible \in Nat
                    /\ b.state \in {"PICKING", "GENERATING", "CYCLING", "SAVING"}
  /\ \A p \in PreviewRecords : /\ p.id \in 0..MaxPreviews /\ p.target \in 0..MaxTargets
                              /\ p.instance \in Nat /\ p.mounted \in Nat
  /\ \A i \in PreviewInstances : i.tag \in Nat \ {0} /\ i.target \in MountTargets
                                /\ i.variant \in Nat \ {0}
  /\ \A w \in MountWrappers : w.id \in 0..MaxPreviews /\ w.target \in 0..MaxTargets
  /\ \A c \in Cards : c.id \in 0..MaxPreviews /\ c.variant \in Nat
  /\ \A l \in Leavings : l.how \in {"", "accept", "discard"} /\ l.id \in 0..MaxPreviews
  /\ \A t \in PreviewTask :
       /\ t.kind \in {"injection", "selection"} /\ t.id \in Previews
       /\ t.at \in {"manifest", "import", "ending", "probing"} /\ t.seen \in Nat
       /\ t.target \in 0..MaxTargets /\ t.variant \in Nat /\ t.fresh \in BOOLEAN /\ t.back \in Nat
BY DEF Bars, PreviewRecords, PreviewInstances, MountWrappers, Cards, Leavings, PreviewTask

LEMMA BeginKeeps ==
  ASSUME PreviewParts, met = {}, Begin, met' = {}
  PROVE  PreviewParts'
<1>p. bar \in Bars /\ bar.begun < MaxPreviews /\ bar.current <= bar.begun /\ bar.state = "PICKING"
  BY DEF PreviewParts, PreviewsHeld, OnlyPublished, Begin
<1>q. bar.begun \in Nat /\ bar.begun + 1 \in Previews /\ MaxPreviews \in Nat
  <2>1. bar.begun \in 0..MaxPreviews /\ MaxPreviews \in Nat
    BY <1>p, PreviewBounds DEF Bars
  <2> QED BY <2>1, <1>p DEF Previews
<1>a. /\ bar' \in Bars /\ bar'.current = bar.begun + 1 /\ bar'.begun = bar.begun + 1
      /\ bar'.state = "GENERATING"
  BY <1>p, <1>q DEF Begin, Bars, Previews
<1>b. /\ card' = NoCard /\ leaving' \in Leavings /\ leaving'.how # "accept"
      /\ UNCHANGED <<preview, instances, wrapper, rendered, retryFor, tasks, published, untold>>
  BY PreviewBounds DEF Begin, PreviewParts, PreviewsHeld
<1>c. \A i \in Previews : published[i] > 0 => i <= bar.begun
  BY <1>q DEF PreviewParts, OnlyPublished, Previews
<1>d. /\ \A t \in tasks : t.id # bar.begun + 1
      /\ preview.id # bar.begun + 1
  <2>1. \A t \in tasks : t.id \in Previews
    BY PreviewFields DEF PreviewParts, PreviewsHeld
  <2>2. (preview.id = 0 \/ published[preview.id] > 0) /\ \A t \in tasks : published[t.id] > 0
    BY DEF PreviewParts, OnlyPublished
  <2>3. ~(bar.begun + 1 <= bar.begun)
    BY <1>q
  <2> QED BY <2>1, <2>2, <2>3, <1>c, <1>q
<1>e. published[bar.begun + 1] = 0 /\ preview.instance = 0
  BY <1>c, <1>p, <1>q DEF PreviewParts, PreviewsHeld, OnlyPublished, PreviewAttended
<1>1. PreviewsHeld'
  BY <1>a, <1>b, PreviewBounds DEF PreviewParts, PreviewsHeld
<1>2. OnlyPublished'
  <2>1. \A i \in Previews : i > bar.begun + 1 => published[i] = 0
    BY <1>q DEF PreviewParts, OnlyPublished, Previews
  <2>2. bar.begun + 1 <= bar.begun + 1
    BY <1>q
  <2> QED BY <1>a, <1>b, <1>d, <2>1, <2>2, PreviewBounds DEF PreviewParts, OnlyPublished
<1>3. PreviewInPlace'
  BY <1>b DEF PreviewParts, PreviewInPlace
<1>4. PreviewAttended'
  BY <1>a, <1>b, <1>d, <1>p DEF PreviewParts, PreviewAttended
<1>5. NothingStranded'
  BY <1>a, <1>b, <1>e, <1>q DEF PreviewParts, NothingStranded, InPage
<1> QED BY <1>1, <1>2, <1>3, <1>4, <1>5 DEF PreviewParts

LEMMA AcceptPreviewKeeps ==
  ASSUME PreviewParts, met = {}, AcceptPreview, met' = {}
  PROVE  PreviewParts'
<1>a. /\ bar' \in Bars /\ bar'.current = bar.current /\ bar'.begun = bar.begun
      /\ bar'.state = "SAVING" /\ bar.state = "CYCLING" /\ bar'.arrived = bar.arrived
  BY PreviewFields DEF PreviewParts, PreviewsHeld, AcceptPreview, AcceptedVariant, Bars
<1>b. /\ leaving' \in Leavings /\ leaving'.how = "accept" /\ leaving'.id = bar.current
      /\ bar.current # 0 /\ \A t \in tasks : t.kind # "selection"
      /\ UNCHANGED <<preview, instances, wrapper, retryFor, card, tasks, published, untold>>
  BY PreviewFields DEF AcceptPreview, Leavings, PreviewParts, PreviewsHeld
<1>1. PreviewsHeld'
  BY <1>a, <1>b DEF PreviewParts, PreviewsHeld
<1>2. OnlyPublished'
  BY <1>a, <1>b DEF PreviewParts, OnlyPublished
<1>3. PreviewInPlace'
  BY <1>b DEF PreviewParts, PreviewInPlace
<1>4. PreviewAttended'
  BY <1>a, <1>b DEF PreviewParts, PreviewAttended
<1>5. NothingStranded'
  BY <1>a, <1>b DEF PreviewParts, NothingStranded, InPage
<1> QED BY <1>1, <1>2, <1>3, <1>4, <1>5 DEF PreviewParts

LEMMA DiscardPreviewKeeps ==
  ASSUME PreviewParts, met = {}, DiscardPreview, met' = {}
  PROVE  PreviewParts'
<1>a. /\ leaving' \in Leavings /\ leaving'.how = "discard" /\ bar.state = "CYCLING"
      /\ leaving = NotLeaving
      /\ UNCHANGED <<bar, preview, instances, wrapper, retryFor, card, tasks, published, untold>>
  BY PreviewFields DEF DiscardPreview, Leavings, PreviewParts, PreviewsHeld
<1>1. PreviewsHeld'
  BY <1>a DEF PreviewParts, PreviewsHeld
<1>2. OnlyPublished'
  BY <1>a DEF PreviewParts, OnlyPublished
<1>3. PreviewInPlace'
  BY <1>a DEF PreviewParts, PreviewInPlace
<1>4. PreviewAttended'
  BY <1>a DEF PreviewParts, PreviewAttended
<1>5. NothingStranded'
  BY <1>a DEF PreviewParts, NothingStranded, InPage
<1> QED BY <1>1, <1>2, <1>3, <1>4, <1>5 DEF PreviewParts

LEMMA LeaveFailsKeeps ==
  ASSUME PreviewParts, met = {}, LeaveFails, met' = {}
  PROVE  PreviewParts'
<1>a. /\ bar' \in Bars /\ bar'.current = bar.current /\ bar'.begun = bar.begun
      /\ bar'.state = (IF leaving.how = "accept" THEN "CYCLING" ELSE bar.state)
      /\ bar'.arrived = bar.arrived
  BY DEF PreviewParts, PreviewsHeld, LeaveFails, Bars
<1>b. /\ leaving' \in Leavings /\ leaving'.how = ""
      /\ UNCHANGED <<preview, instances, wrapper, retryFor, card, tasks, published, untold>>
  BY PreviewBounds DEF LeaveFails
<1>1. PreviewsHeld'
  BY <1>a, <1>b DEF PreviewParts, PreviewsHeld
<1>2. OnlyPublished'
  BY <1>a, <1>b DEF PreviewParts, OnlyPublished
<1>3. PreviewInPlace'
  BY <1>b DEF PreviewParts, PreviewInPlace
<1>4. PreviewAttended'
  BY <1>a, <1>b DEF PreviewParts, PreviewAttended
<1>5. NothingStranded'
  BY <1>a, <1>b, PreviewBounds, PreviewFields DEF PreviewParts, PreviewAttended, NothingStranded,
     InPage
<1> QED BY <1>1, <1>2, <1>3, <1>4, <1>5 DEF PreviewParts

LEMMA RenderPageKeeps ==
  ASSUME PreviewParts, met = {}, RenderPage, met' = {}
  PROVE  PreviewParts'
<1>a. /\ wrapper = NoWrapper \/ preview = NoPreview
      /\ wrapper' = NoWrapper
      /\ UNCHANGED <<bar, preview, instances, retryFor, card, tasks, leaving, published, untold>>
  BY DEF RenderPage, Meets
<1>b. wrapper' = wrapper
  BY <1>a, PreviewBounds DEF PreviewParts, PreviewInPlace
<1>1. PreviewsHeld'
  BY <1>a, <1>b DEF PreviewParts, PreviewsHeld
<1>2. OnlyPublished'
  BY <1>a DEF PreviewParts, OnlyPublished
<1>3. PreviewInPlace'
  BY <1>a, <1>b DEF PreviewParts, PreviewInPlace
<1>4. PreviewAttended'
  BY <1>a DEF PreviewParts, PreviewAttended
<1>5. NothingStranded'
  BY <1>a, <1>b DEF PreviewParts, NothingStranded, InPage
<1> QED BY <1>1, <1>2, <1>3, <1>4, <1>5 DEF PreviewParts

LEMMA DismissCardKeeps ==
  ASSUME PreviewParts, met = {}, DismissCard, met' = {}
  PROVE  PreviewParts'
<1>a. /\ bar' \in Bars /\ bar'.current = bar.current /\ bar'.begun = bar.begun
      /\ bar'.state = (IF bar.state = "GENERATING" THEN "PICKING" ELSE bar.state)
      /\ bar'.arrived = bar.arrived
  BY DEF PreviewParts, PreviewsHeld, DismissCard, Bars
<1>b. /\ card' = NoCard /\ bar.state # "CYCLING" /\ leaving = NotLeaving
      /\ UNCHANGED <<preview, instances, wrapper, retryFor, tasks, leaving, published, untold>>
  BY PreviewBounds DEF DismissCard, Meets
<1>c. bar'.state = "PICKING"
  BY <1>a, <1>b, PreviewBounds, PreviewFields DEF PreviewParts, PreviewsHeld, PreviewAttended
<1>1. PreviewsHeld'
  BY <1>a, <1>b, PreviewBounds DEF PreviewParts, PreviewsHeld
<1>2. OnlyPublished'
  BY <1>a, <1>b, PreviewBounds DEF PreviewParts, OnlyPublished
<1>3. PreviewInPlace'
  BY <1>b DEF PreviewParts, PreviewInPlace
<1>4. PreviewAttended'
  BY <1>a, <1>b, PreviewBounds DEF PreviewParts, PreviewAttended
<1>5. NothingStranded'
  BY <1>c DEF PreviewParts, NothingStranded, InPage
<1> QED BY <1>1, <1>2, <1>3, <1>4, <1>5 DEF PreviewParts

\* Another injection asks for the manifest of its session.
LEMMA InjectionIs ==
  ASSUME PreviewsHeld, NEW id \in Previews, NEW them, them \subseteq PreviewTask,
         WithInjection(id, them)
  PROVE  \E t \in PreviewTask :
           /\ tasks' = them \cup {t}
           /\ t.kind = "injection" /\ t.at = "manifest" /\ t.id = id /\ t.seen = published[id]
<1>1. PICK no \in 1..MaxTasks : tasks' = them \cup {AnInjection(id, no)}
  BY DEF WithInjection
<1>2. AnInjection(id, no) \in PreviewTask
  <2>1. published[id] \in Nat /\ no \in Nat
    BY DEF PreviewsHeld
  <2> QED BY <2>1, PreviewBounds DEF AnInjection, PreviewTask
<1>3. /\ AnInjection(id, no).kind = "injection" /\ AnInjection(id, no).at = "manifest"
      /\ AnInjection(id, no).id = id /\ AnInjection(id, no).seen = published[id]
  BY DEF AnInjection
<1> QED BY <1>1, <1>2, <1>3

LEMMA PublishKeeps ==
  ASSUME PreviewParts, met = {}, NEW i \in Previews, Publish(i), met' = {}
  PROVE  PreviewParts'
<1>a. /\ published' \in [Previews -> Nat] /\ published'[i] > 0
      /\ \A j \in Previews : published'[j] >= published[j]
      /\ \A j \in Previews : j # i => published'[j] = published[j]
      /\ i <= bar.begun
  BY DEF Publish, PreviewParts, PreviewsHeld
<1>b. /\ untold' = untold \cup {i}
      /\ UNCHANGED <<bar, preview, instances, wrapper, retryFor, card, tasks, leaving>>
  BY DEF Publish
<1>c. \A j \in Previews : /\ published[j] \in Nat /\ published'[j] \in Nat
                          /\ published[j] > 0 => published'[j] > 0
  <2>1. \A j \in Previews : published[j] \in Nat /\ published'[j] \in Nat
    BY <1>a DEF PreviewParts, PreviewsHeld
  <2>2. \A j \in Previews : published[j] > 0 => published'[j] > 0
    BY <1>a, <2>1
  <2> QED BY <2>1, <2>2
<1>d. bar.current # 0 => bar.current \in Previews
  BY PreviewBounds DEF PreviewParts, PreviewsHeld, Bars
<1>e. ~(i > bar.begun)
  <2>1. bar.begun \in 0..MaxPreviews /\ i \in Nat /\ MaxPreviews \in Nat
    BY PreviewBounds DEF PreviewParts, PreviewsHeld, Bars
  <2> QED BY <2>1, <1>a
<1>f. /\ \A t \in tasks : t.id \in Previews
      /\ \A x \in {card.id, retryFor, preview.id} : x = 0 \/ x \in Previews
  BY PreviewBounds, PreviewFields DEF PreviewParts, PreviewsHeld
<1>g. /\ \A j \in Previews : j > bar.begun => published'[j] = 0
      /\ \A j \in untold \cup {i} : published'[j] > 0
  BY <1>a, <1>b, <1>c, <1>e DEF PreviewParts, PreviewsHeld, OnlyPublished
<1>1. PreviewsHeld'
  BY <1>a, <1>b DEF PreviewParts, PreviewsHeld
<1>2. OnlyPublished'
  <2>1. bar'.current <= bar'.begun
    BY <1>b DEF PreviewParts, OnlyPublished
  <2>2. \A x \in {card.id, retryFor, preview.id} : x = 0 \/ published'[x] > 0
    BY <1>c, <1>f DEF PreviewParts, OnlyPublished
  <2>3. \A t \in tasks : published'[t.id] > 0
    BY <1>c, <1>f DEF PreviewParts, OnlyPublished
  <2>4. \A t \in tasks :
          IF t.at = "manifest" THEN t.kind = "injection" /\ t.seen > 0
          ELSE /\ t.variant > 0 /\ t.target \in MountTargets
               /\ t.id = bar.current => bar.arrived > 0
    BY DEF PreviewParts, OnlyPublished
  <2> QED BY <1>b, <1>g, <2>1, <2>2, <2>3, <2>4 DEF OnlyPublished
<1>3. PreviewInPlace'
  BY <1>b DEF PreviewParts, PreviewInPlace
<1>4. PreviewAttended'
  BY <1>b DEF PreviewParts, PreviewAttended
<1>5. NothingStranded'
  BY <1>a, <1>b, <1>d DEF PreviewParts, NothingStranded, InPage
<1> QED BY <1>1, <1>2, <1>3, <1>4, <1>5 DEF PreviewParts

LEMMA HearPublicationKeeps ==
  ASSUME PreviewParts, met = {}, NEW i \in Previews, HearPublication(i), met' = {}
  PROVE  PreviewParts'
<1>a. /\ i \in untold /\ untold' = untold \ {i} /\ published[i] > 0
      /\ UNCHANGED <<bar, preview, instances, wrapper, retryFor, card, leaving, published>>
  BY DEF HearPublication, PreviewParts, OnlyPublished
<1>b. \/ i # bar.current /\ tasks' = tasks
      \/ \E t \in PreviewTask :
           /\ tasks' = tasks \cup {t}
           /\ t.kind = "injection" /\ t.at = "manifest" /\ t.id = i /\ t.seen = published[i]
  BY InjectionIs DEF HearPublication, PreviewParts, PreviewsHeld
<1>1. PreviewsHeld'
  BY <1>a, <1>b DEF PreviewParts, PreviewsHeld
<1>2. OnlyPublished'
  BY <1>a, <1>b DEF PreviewParts, OnlyPublished
<1>3. PreviewInPlace'
  BY <1>a, <1>b DEF PreviewParts, PreviewInPlace
<1>4. PreviewAttended'
  BY <1>a, <1>b DEF PreviewParts, PreviewAttended
<1>5. NothingStranded'
  BY <1>a, <1>b DEF PreviewParts, NothingStranded, InPage
<1> QED BY <1>1, <1>2, <1>3, <1>4, <1>5 DEF PreviewParts

LEMMA RetryObservedKeeps ==
  ASSUME PreviewParts, met = {}, RetryObserved, met' = {}
  PROVE  PreviewParts'
<1>a. /\ retryFor # 0 /\ retryFor \in Previews /\ published[retryFor] > 0
      /\ retryFor' = 0
      /\ UNCHANGED <<bar, preview, instances, wrapper, card, leaving, published, untold>>
  BY DEF RetryObserved, PreviewParts, PreviewsHeld, OnlyPublished, Previews
<1>b. preview.id # retryFor
  BY <1>a DEF PreviewParts, PreviewInPlace
<1>c. \E t \in PreviewTask :
        /\ tasks' = tasks \cup {t}
        /\ t.kind = "injection" /\ t.at = "manifest" /\ t.id = retryFor
        /\ t.seen = published[retryFor]
  BY <1>a, <1>b, InjectionIs DEF RetryObserved, PreviewParts, PreviewsHeld
<1>1. PreviewsHeld'
  BY <1>a, <1>c, PreviewBounds DEF PreviewParts, PreviewsHeld
<1>2. OnlyPublished'
  BY <1>a, <1>c DEF PreviewParts, OnlyPublished
<1>3. PreviewInPlace'
  BY <1>a, <1>c DEF PreviewParts, PreviewInPlace
<1>4. PreviewAttended'
  BY <1>a, <1>c DEF PreviewParts, PreviewAttended
<1>5. NothingStranded'
  BY <1>c DEF PreviewParts, NothingStranded, InPage
<1> QED BY <1>1, <1>2, <1>3, <1>4, <1>5 DEF PreviewParts

LEMMA RetryCardKeeps ==
  ASSUME PreviewParts, met = {}, RetryCard, met' = {}
  PROVE  PreviewParts'
<1>a. /\ card.id # 0 /\ card.id \in Previews /\ published[card.id] > 0
      /\ card' = NoCard
      /\ UNCHANGED <<preview, instances, wrapper, retryFor, leaving, published, untold>>
  <2>1. card.id \in 0..MaxPreviews
    BY DEF PreviewParts, PreviewsHeld, Cards
  <2>2. card.id \in Previews
    BY <2>1, PreviewBounds DEF RetryCard
  <2> QED BY <2>2 DEF RetryCard, PreviewParts, OnlyPublished
<1>b. /\ bar' \in Bars /\ bar'.current = bar.current /\ bar'.begun = bar.begun
      /\ bar'.state = (IF bar.state = "CYCLING" THEN bar.state ELSE "GENERATING")
      /\ bar'.arrived = bar.arrived
  BY DEF PreviewParts, PreviewsHeld, RetryCard, Bars
<1>c. \E t \in PreviewTask :
        /\ tasks' = tasks \cup {t}
        /\ t.kind = "injection" /\ t.at = "manifest" /\ t.id = card.id
        /\ t.seen = published[card.id]
  BY <1>a, InjectionIs DEF RetryCard, PreviewParts, PreviewsHeld
<1>1. PreviewsHeld'
  BY <1>a, <1>b, <1>c, PreviewBounds DEF PreviewParts, PreviewsHeld
<1>2. OnlyPublished'
  BY <1>a, <1>b, <1>c, PreviewBounds DEF PreviewParts, OnlyPublished
<1>3. PreviewInPlace'
  BY <1>a, <1>c DEF PreviewParts, PreviewInPlace
<1>4. PreviewAttended'
  BY <1>a, <1>b, <1>c DEF PreviewParts, PreviewAttended
<1>5. NothingStranded'
  BY <1>c DEF PreviewParts, NothingStranded, InPage
<1> QED BY <1>1, <1>2, <1>3, <1>4, <1>5 DEF PreviewParts

LEMMA SelectVariantKeeps ==
  ASSUME PreviewParts, met = {}, SelectVariant, met' = {}
  PROVE  PreviewParts'
<1>a. /\ bar.state = "CYCLING" /\ preview.id = bar.current /\ bar.current # 0
      /\ preview.id \in Previews /\ preview.target \in MountTargets
      /\ UNCHANGED <<preview, instances, wrapper, retryFor, card, leaving, published, untold>>
  <2>1. bar.current \in 0..MaxPreviews
    BY DEF PreviewParts, PreviewsHeld, Bars
  <2> QED BY <2>1, PreviewBounds DEF SelectVariant, PreviewParts, PreviewInPlace
<1>b. PICK next \in 1..bar.arrived :
        bar' = [bar EXCEPT !.visible = next] /\ tasks' = tasks \cup {Selection(next, bar.visible)}
  BY DEF SelectVariant
<1>c. /\ bar' \in Bars /\ bar'.current = bar.current /\ bar'.begun = bar.begun
      /\ bar'.state = "CYCLING" /\ bar'.arrived = bar.arrived /\ bar.arrived > 0
      /\ next \in Nat /\ next > 0 /\ bar.visible \in Nat
  BY <1>a, <1>b DEF PreviewParts, PreviewsHeld, Bars
<1>d. \E t \in PreviewTask :
        /\ tasks' = tasks \cup {t}
        /\ t.kind = "selection" /\ t.at = "import" /\ t.id = bar.current
        /\ t.target = preview.target /\ t.variant = next
  <2> DEFINE t == Selection(next, bar.visible)
  <2>1. preview.target \in 0..MaxTargets /\ bar.current \in Previews
    BY <1>a, PreviewBounds
  <2>2. t \in PreviewTask
    BY <2>1, <1>c DEF Selection, PreviewTask
  <2>3. /\ t.kind = "selection" /\ t.at = "import" /\ t.id = bar.current
        /\ t.target = preview.target /\ t.variant = next
    BY DEF Selection
  <2> QED BY <2>2, <2>3, <1>b
<1>1. PreviewsHeld'
  BY <1>a, <1>c, <1>d DEF PreviewParts, PreviewsHeld
<1>2. OnlyPublished'
  BY <1>a, <1>c, <1>d DEF PreviewParts, OnlyPublished
<1>3. PreviewInPlace'
  BY <1>a, <1>d DEF PreviewParts, PreviewInPlace
<1>4. PreviewAttended'
  BY <1>a, <1>c DEF PreviewParts, PreviewAttended
<1>5. NothingStranded'
  BY <1>d DEF PreviewParts, NothingStranded, InPage
<1> QED BY <1>1, <1>2, <1>3, <1>4, <1>5 DEF PreviewParts

\* A preview that is taken down takes its wrapper with it.
LEMMA TeardownIs ==
  ASSUME PreviewsHeld, PreviewInPlace, NEW id \in 0..MaxPreviews, Teardown(id)
  PROVE  /\ instances' \subseteq instances /\ IsFiniteSet(instances')
         /\ \/ preview.id = id /\ id # 0 /\ preview' = NoPreview /\ wrapper' = NoWrapper
            \/ (preview.id # id \/ id = 0) /\ UNCHANGED <<preview, instances, wrapper>>
<1>1. instances' \subseteq instances
  BY DEF Teardown
<1>2. IsFiniteSet(instances')
  BY <1>1, FS_Subset DEF PreviewsHeld
<1>3. preview.id # 0 => wrapper.target = preview.target
  BY DEF PreviewInPlace
<1> QED BY <1>1, <1>2, <1>3 DEF Teardown

LEMMA AbortIs ==
  ASSUME PreviewsHeld, PreviewInPlace, NEW id \in Previews, NEW shown, Abort(id, shown)
  PROVE  /\ instances' \subseteq instances /\ IsFiniteSet(instances')
         /\ \/ preview.id = id /\ preview' = NoPreview /\ wrapper' = NoWrapper
            \/ preview.id # id /\ UNCHANGED <<preview, instances, wrapper>>
         /\ retryFor' = 0 /\ card' = shown
<1>1. id \in 0..MaxPreviews /\ id # 0
  BY PreviewBounds
<1>2. CASE preview.id = id
  BY <1>1, <1>2, TeardownIs DEF Abort
<1>3. CASE preview.id # id
  <2>1. /\ wrapper' = (IF wrapper.id = id THEN NoWrapper ELSE wrapper)
        /\ UNCHANGED <<preview, instances>> /\ retryFor' = 0 /\ card' = shown
    BY <1>3 DEF Abort
  <2>2. wrapper.id # id
    <3>1. CASE preview.id = 0
      BY <3>1, <1>1, PreviewBounds DEF PreviewInPlace
    <3>2. CASE preview.id # 0
      BY <3>2, <1>3 DEF PreviewInPlace
    <3> QED BY <3>1, <3>2
  <2>3. IsFiniteSet(instances') /\ instances' \subseteq instances
    BY <2>1 DEF PreviewsHeld
  <2> QED BY <1>3, <2>1, <2>2, <2>3
<1> QED BY <1>2, <1>3

LEMMA ReloadPreviewKeeps ==
  ASSUME PreviewParts, met = {}, ReloadPreview, met' = {}
  PROVE  PreviewParts'
<1>a. /\ preview' = NoPreview /\ instances' = {} /\ wrapper' = NoWrapper /\ retryFor' = 0
      /\ card' = NoCard /\ leaving' = NotLeaving /\ untold' = {} /\ published' = published
  BY DEF ReloadPreview
<1>b. bar \in Bars /\ published \in [Previews -> Nat] /\ bar.current <= bar.begun
  BY DEF PreviewParts, PreviewsHeld, OnlyPublished
<1>c. IsFiniteSet({})
  BY FS_EmptySet
<1>d. \/ /\ bar' \in Bars /\ bar'.current = 0 /\ bar'.state = "PICKING" /\ bar'.begun = bar.begun
         /\ tasks' = {} /\ 0 <= bar.begun
      \/ /\ bar' \in Bars /\ bar'.current = bar.current /\ bar'.state = "GENERATING"
         /\ bar'.begun = bar.begun /\ bar.current \in Previews
         /\ \/ published[bar.current] = 0 /\ tasks' = {}
            \/ /\ published[bar.current] > 0
               /\ \E t \in PreviewTask :
                    /\ tasks' = {t} /\ t.kind = "injection" /\ t.at = "manifest"
                    /\ t.id = bar.current /\ t.seen = published[bar.current]
  <2> DEFINE id == bar.current
  <2>1. CASE id = 0 \/ id \in handled' \/ bar.state = "SAVING"
    <3>1. bar' = [bar EXCEPT !.current = 0, !.state = "PICKING"] /\ tasks' = {}
      BY <2>1 DEF ReloadPreview
    <3>2. bar.begun \in 0..MaxPreviews /\ MaxPreviews \in Nat
      BY <1>b, PreviewBounds DEF Bars
    <3>3. bar' \in Bars /\ bar'.current = 0 /\ bar'.state = "PICKING" /\ bar'.begun = bar.begun
      BY <3>1, <1>b, PreviewBounds DEF Bars
    <3> QED BY <3>1, <3>2, <3>3
  <2>2. CASE ~(id = 0 \/ id \in handled' \/ bar.state = "SAVING")
    <3>1. id \in Previews /\ bar.visible \in Nat
      BY <2>2, <1>b, PreviewBounds DEF Bars
    <3>2. published[id] \in Nat
      BY <3>1, <1>b
    <3>3. bar' = [bar EXCEPT !.state = "GENERATING", !.arrived = published[id],
                    !.visible = IF @ > 0 THEN @ ELSE IF published[id] > 0 THEN 1 ELSE 0]
      BY <2>2 DEF ReloadPreview
    <3>4. /\ bar' \in Bars /\ bar'.current = bar.current /\ bar'.state = "GENERATING"
          /\ bar'.begun = bar.begun
      BY <3>1, <3>2, <3>3, <1>b DEF Bars
    <3>5. IF published[id] > 0 THEN WithInjection(id, {}) ELSE tasks' = {}
      BY <2>2 DEF ReloadPreview
    <3>6. CASE published[id] > 0
      <4>1. WithInjection(id, {}) /\ {} \subseteq PreviewTask
        BY <3>5, <3>6
      <4>2. \E t \in PreviewTask :
               /\ tasks' = {} \cup {t}
               /\ t.kind = "injection" /\ t.at = "manifest" /\ t.id = id /\ t.seen = published[id]
        BY <4>1, <3>1, InjectionIs DEF PreviewParts
      <4> QED BY <3>1, <3>4, <3>6, <4>2
    <3> QED BY <3>1, <3>2, <3>4, <3>5, <3>6
  <2> QED BY <2>1, <2>2
<1>1. PreviewsHeld'
  BY <1>a, <1>c, <1>d, PreviewBounds DEF PreviewParts, PreviewsHeld
<1>2. OnlyPublished'
  BY <1>a, <1>d, PreviewBounds DEF PreviewParts, OnlyPublished
<1>3. PreviewInPlace'
  BY <1>a, <1>d, PreviewBounds DEF PreviewParts, PreviewInPlace
<1>4. PreviewAttended'
  BY <1>a, <1>d, PreviewBounds DEF PreviewParts, PreviewAttended
<1>5. NothingStranded'
  BY <1>a, <1>d, PreviewBounds DEF PreviewParts, NothingStranded, InPage
<1> QED BY <1>1, <1>2, <1>3, <1>4, <1>5 DEF PreviewParts

LEMMA LeaveAnsweredKeeps ==
  ASSUME PreviewParts, met = {}, LeaveAnswered, met' = {}
  PROVE  PreviewParts'
<1>a. /\ bar' \in Bars /\ bar'.current = 0 /\ bar'.begun = bar.begun /\ bar'.state = "PICKING"
      /\ bar'.current <= bar.begun
  <2>1. bar \in Bars /\ bar' = [bar EXCEPT !.current = 0, !.state = "PICKING"]
    BY DEF LeaveAnswered, Accepted, Discarded, CleanupPreview, PreviewParts, PreviewsHeld
  <2>2. bar.begun \in 0..MaxPreviews /\ MaxPreviews \in Nat
    BY <2>1, PreviewBounds DEF Bars
  <2>3. 0 <= bar.begun /\ 0 \in 0..MaxPreviews
    <3>1. 0 <= bar.begun
      BY <2>2
    <3> QED BY <3>1, PreviewBounds
  <2>4. bar' \in Bars /\ bar'.current = 0 /\ bar'.begun = bar.begun /\ bar'.state = "PICKING"
    BY <2>1, <2>3 DEF Bars
  <2> QED BY <2>3, <2>4
<1>b. /\ leaving' = NotLeaving /\ card' \in {card, NoCard}
      /\ UNCHANGED <<retryFor, tasks, published, untold>>
  BY DEF LeaveAnswered, Accepted, Discarded, CleanupPreview
<1>c. /\ instances' \subseteq instances /\ IsFiniteSet(instances')
      /\ \/ preview' = NoPreview /\ wrapper' = NoWrapper
         \/ UNCHANGED <<preview, instances, wrapper>> /\ preview.instance = 0
  <2>1. CASE Discarded
    <3>1. Teardown(bar.current) /\ bar.current \in 0..MaxPreviews
      BY <2>1, PreviewFields DEF Discarded, CleanupPreview, PreviewParts, PreviewsHeld
    <3>2. preview.instance # 0 => preview.id = bar.current /\ preview.id # 0
      BY PreviewBounds DEF PreviewParts, PreviewAttended, PreviewInPlace
    <3> QED BY <3>1, <3>2, TeardownIs DEF PreviewParts
  <2>2. CASE Accepted
    <3>1. leaving.id = bar.current
      BY <2>2 DEF Accepted, PreviewParts, PreviewAttended
    <3>2. preview.instance # 0 => /\ preview.id = bar.current /\ preview.id # 0
                                /\ wrapper.target = preview.target
      <4>1. preview.instance # 0 => preview.id # 0
        BY PreviewBounds DEF PreviewParts, PreviewInPlace
      <4>2. preview.id # 0 => wrapper.target = preview.target
        BY DEF PreviewParts, PreviewInPlace
      <4>3. preview.instance # 0 => preview.id = bar.current
        BY DEF PreviewParts, PreviewAttended
      <4> QED BY <4>1, <4>2, <4>3
    <3>3. preview.id \in 0..MaxPreviews
      BY PreviewFields DEF PreviewParts, PreviewsHeld
    <3>4. CASE preview.instance # 0
      <4>1. Teardown(preview.id)
        BY <2>2, <3>1, <3>2, <3>4 DEF Accepted
      <4> QED BY <4>1, <3>2, <3>3, <3>4, TeardownIs DEF PreviewParts
    <3>5. CASE preview.instance = 0
      BY <2>2, <3>5 DEF Accepted, PreviewParts, PreviewsHeld
    <3> QED BY <3>4, <3>5 DEF PreviewParts, PreviewsHeld
  <2> QED BY <2>1, <2>2 DEF LeaveAnswered
<1>1. PreviewsHeld'
  BY <1>a, <1>b, <1>c, PreviewBounds DEF PreviewParts, PreviewsHeld
<1>2. OnlyPublished'
  BY <1>a, <1>b, <1>c, PreviewBounds, PreviewFields DEF PreviewParts, PreviewsHeld, OnlyPublished
<1>3. PreviewInPlace'
  <2>1. CASE preview' = NoPreview /\ wrapper' = NoWrapper
    <3>1. \A i \in instances' : i.target # 0
      BY <1>c, PreviewFields, PreviewBounds DEF PreviewParts, PreviewsHeld
    <3>2. \A t \in tasks : t.at # "manifest" => t.target # 0
      BY PreviewBounds DEF PreviewParts, OnlyPublished
    <3>3. retryFor = 0 \/ retryFor # 0
      OBVIOUS
    <3> QED BY <2>1, <3>1, <3>2, <1>b, PreviewBounds DEF PreviewParts, PreviewInPlace
  <2>2. CASE UNCHANGED <<preview, instances, wrapper>>
    BY <2>2, <1>b DEF PreviewParts, PreviewInPlace
  <2> QED BY <1>c, <2>1, <2>2
<1>4. PreviewAttended'
  BY <1>a, <1>b, <1>c, PreviewBounds, PreviewFields DEF PreviewParts, PreviewsHeld,
     PreviewAttended
<1>5. NothingStranded'
  BY <1>a DEF PreviewParts, NothingStranded, InPage
<1> QED BY <1>1, <1>2, <1>3, <1>4, <1>5 DEF PreviewParts

LEMMA TaskIs ==
  ASSUME PreviewParts, NEW t \in tasks
  PROVE  /\ t \in PreviewTask /\ t.id \in Previews /\ t.id # 0 /\ published[t.id] > 0
         /\ published[t.id] \in Nat
         /\ t.at # "manifest" =>
              /\ t.variant \in Nat /\ t.variant > 0 /\ t.target \in MountTargets /\ t.target # 0
              /\ t.id = bar.current => bar.arrived > 0
         /\ t.at = "manifest" => t.kind = "injection" /\ t.seen \in Nat /\ t.seen > 0
<1>1. t \in PreviewTask
  BY DEF PreviewParts, PreviewsHeld
<1>2. t.id \in Previews /\ t.variant \in Nat /\ t.seen \in Nat
  BY <1>1 DEF PreviewTask
<1>3. published[t.id] \in Nat
  BY <1>2 DEF PreviewParts, PreviewsHeld
<1> QED BY <1>1, <1>2, <1>3, PreviewBounds DEF PreviewParts, OnlyPublished

\* A task that goes on in time belongs to the preview that is in the page.
LEMMA InTime ==
  ASSUME PreviewParts, NEW t \in tasks, t.at # "manifest", ~Outlives(t)
  PROVE  /\ t.id = bar.current /\ t.target = preview.target /\ t.id = preview.id
         /\ preview # NoPreview /\ wrapper.id = preview.id /\ wrapper.target = preview.target
         /\ retryFor # preview.id
<1>1. t.id = bar.current /\ t.target = preview.target
  BY DEF Outlives
<1>2. t.id = preview.id
  BY <1>1 DEF PreviewParts, PreviewInPlace
<1>3. preview.id # 0
  BY <1>2, TaskIs
<1>4. preview # NoPreview
  BY <1>3, PreviewBounds
<1>5. wrapper.id = preview.id /\ wrapper.target = preview.target
  BY <1>3 DEF PreviewParts, PreviewInPlace
<1>6. retryFor # preview.id
  BY <1>3 DEF PreviewParts, PreviewInPlace
<1> QED BY <1>1, <1>2, <1>4, <1>5, <1>6

\* A preview that is taken down leaves nothing in its place.
LEMMA TakenDown ==
  ASSUME PreviewParts, instances' \subseteq instances, tasks' \subseteq tasks,
         \/ preview' = NoPreview /\ wrapper' = NoWrapper
         \/ UNCHANGED <<preview, wrapper>>,
         retryFor' = 0
  PROVE  PreviewInPlace'
<1>1. CASE preview' = NoPreview /\ wrapper' = NoWrapper
  <2>1. \A i \in instances' : i.target # 0
    BY PreviewFields, PreviewBounds DEF PreviewParts, PreviewsHeld
  <2>2. \A t \in tasks' : t.at # "manifest" => t.target # 0
    BY PreviewBounds DEF PreviewParts, OnlyPublished
  <2> QED BY <1>1, <2>1, <2>2, PreviewBounds DEF PreviewParts, PreviewInPlace
<1>2. CASE UNCHANGED <<preview, wrapper>>
  BY <1>2 DEF PreviewParts, PreviewInPlace
<1> QED BY <1>1, <1>2

\* The same of what the session is kept by.
LEMMA TakenDownAttended ==
  ASSUME PreviewParts, tasks' \subseteq tasks, UNCHANGED <<bar, leaving>>,
         preview' = NoPreview \/ preview' = preview
  PROVE  PreviewAttended'
<1>1. \A t \in tasks' : t.kind = "selection" => t.target # 0
  BY TaskIs, PreviewBounds
<1>2. CASE preview' = NoPreview
  BY <1>1, <1>2, PreviewBounds DEF PreviewParts, PreviewAttended
<1>3. CASE preview' = preview
  BY <1>3 DEF PreviewParts, PreviewAttended
<1> QED BY <1>2, <1>3

LEMMA ManifestFailsKeeps ==
  ASSUME PreviewParts, met = {}, NEW t \in tasks, ManifestFails(t), met' = {}
  PROVE  PreviewParts'
<1>a. /\ t.id = bar.current /\ t.id \in Previews /\ t.id \in 0..MaxPreviews /\ published[t.id] > 0
      /\ t.at = "manifest" /\ bar.visible \in Nat /\ t.id # 0
  BY TaskIs, PreviewBounds, PreviewFields DEF ManifestFails, Meets, PreviewParts, PreviewsHeld
<1>b. /\ instances' \subseteq instances /\ IsFiniteSet(instances')
      /\ \/ preview' = NoPreview /\ wrapper' = NoWrapper
         \/ UNCHANGED <<preview, wrapper>>
      /\ retryFor' = 0 /\ card' = [id |-> t.id, variant |-> bar.visible]
  <2>1. Abort(t.id, [id |-> t.id, variant |-> bar.visible])
    BY <1>a DEF ManifestFails, Ends
  <2> QED BY <2>1, <1>a, AbortIs DEF PreviewParts
<1>c. card' \in Cards /\ card'.id = bar.current
  BY <1>a, <1>b, PreviewBounds DEF Cards
<1>d. tasks' \subseteq tasks /\ UNCHANGED <<bar, leaving, published, untold>>
  BY <1>a DEF ManifestFails, Ends
<1>1. PreviewsHeld'
  BY <1>b, <1>c, <1>d, PreviewBounds DEF PreviewParts, PreviewsHeld
<1>2. OnlyPublished'
  BY <1>b, <1>d, PreviewBounds DEF PreviewParts, OnlyPublished
<1>3. PreviewInPlace'
  BY <1>b, <1>d, TakenDown
<1>4. PreviewAttended'
  BY <1>b, <1>d, TakenDownAttended
<1>5. NothingStranded'
  BY <1>a, <1>c, <1>d DEF PreviewParts, NothingStranded, InPage
<1> QED BY <1>1, <1>2, <1>3, <1>4, <1>5 DEF PreviewParts

LEMMA ProbedFreshKeeps ==
  ASSUME PreviewParts, met = {}, NEW t \in tasks, Probed(t), t.fresh, met' = {}
  PROVE  PreviewParts'
<1>a. /\ t.id = bar.current /\ t.id \in Previews /\ t.id \in 0..MaxPreviews /\ published[t.id] > 0
      /\ t.fresh /\ t.variant \in Nat /\ t.id # 0
  BY TaskIs, PreviewBounds DEF Probed, Meets, Outlives
<1>b. /\ instances' \subseteq instances /\ IsFiniteSet(instances')
      /\ \/ preview' = NoPreview /\ wrapper' = NoWrapper
         \/ UNCHANGED <<preview, wrapper>>
      /\ retryFor' = 0 /\ card' = [id |-> t.id, variant |-> t.variant]
  <2>1. Abort(t.id, [id |-> t.id, variant |-> t.variant])
    BY <1>a DEF Probed, AbortsFresh, Ends
  <2> QED BY <2>1, <1>a, AbortIs DEF PreviewParts
<1>c. card' \in Cards /\ card'.id = bar.current
  BY <1>a, <1>b, PreviewBounds DEF Cards
<1>d. tasks' \subseteq tasks /\ UNCHANGED <<bar, leaving, published, untold>>
  BY <1>a DEF Probed, AbortsFresh, Ends
<1>1. PreviewsHeld'
  BY <1>b, <1>c, <1>d, PreviewBounds DEF PreviewParts, PreviewsHeld
<1>2. OnlyPublished'
  BY <1>b, <1>d, PreviewBounds DEF PreviewParts, OnlyPublished
<1>3. PreviewInPlace'
  BY <1>b, <1>d, TakenDown
<1>4. PreviewAttended'
  BY <1>b, <1>d, TakenDownAttended
<1>5. NothingStranded'
  BY <1>a, <1>c, <1>d DEF PreviewParts, NothingStranded, InPage
<1> QED BY <1>1, <1>2, <1>3, <1>4, <1>5 DEF PreviewParts

LEMMA ProbedAgainKeeps ==
  ASSUME PreviewParts, met = {}, NEW t \in tasks, Probed(t), ~t.fresh, met' = {}
  PROVE  PreviewParts'
<1>a. /\ ~Outlives(t) /\ t.at = "probing"
      /\ UNCHANGED <<preview, instances, wrapper, retryFor, leaving, published, untold>>
      /\ card' = [id |-> t.id, variant |-> t.variant]
  BY DEF Probed, Meets
<1>b. /\ t.id = bar.current /\ t.target = preview.target /\ t.id = preview.id
      /\ preview # NoPreview /\ t \in PreviewTask /\ t.id \in Previews /\ published[t.id] > 0
      /\ t.variant \in Nat /\ t.back \in Nat /\ t.id # 0 /\ t.target \in MountTargets
      /\ bar.arrived > 0
  BY <1>a, InTime, TaskIs, PreviewFields
<1>c. card' \in Cards /\ card'.id = bar.current
  <2>1. t.id \in 0..MaxPreviews
    BY <1>b, PreviewBounds
  <2> QED BY <1>a, <1>b, <2>1 DEF Cards
<1>d. /\ bar' \in Bars /\ bar'.current = bar.current /\ bar'.begun = bar.begun
      /\ bar'.state = bar.state /\ bar'.arrived = bar.arrived
      /\ \/ tasks' = tasks \ {t}
         \/ \E m \in PreviewTask :
              /\ tasks' = (tasks \ {t}) \cup {m}
              /\ m.kind = t.kind /\ m.id = t.id /\ m.at = "import" /\ m.target = t.target
              /\ m.variant > 0
  <2>0. bar \in Bars
    BY DEF PreviewParts, PreviewsHeld
  <2>1. CASE t.back = 0
    BY <2>0, <2>1 DEF Probed, Ends
  <2>2. CASE t.back # 0
    <3> DEFINE m == [Mounting(t, preview, t.back, FALSE) EXCEPT !.id = preview.id, !.back = 0]
    <3>1. bar' = [bar EXCEPT !.visible = t.back] /\ tasks' = (tasks \ {t}) \cup {m}
      BY <2>2, <1>b DEF Probed, Moves
    <3>2. m \in PreviewTask /\ m.kind = t.kind /\ m.id = t.id /\ m.at = "import"
          /\ m.target = t.target /\ m.variant = t.back
      BY <1>b DEF Mounting, PreviewTask
    <3>3. t.back > 0
      BY <2>2, <1>b
    <3>4. /\ bar' \in Bars /\ bar'.current = bar.current /\ bar'.begun = bar.begun
          /\ bar'.state = bar.state /\ bar'.arrived = bar.arrived
      BY <2>0, <3>1, <1>b DEF Bars
    <3> HIDE DEF m
    <3> QED BY <3>1, <3>2, <3>3, <3>4
  <2> QED BY <2>1, <2>2
<1>1. PreviewsHeld'
  BY <1>a, <1>c, <1>d DEF PreviewParts, PreviewsHeld
<1>2. OnlyPublished'
  BY <1>a, <1>d DEF PreviewParts, OnlyPublished
<1>3. PreviewInPlace'
  BY <1>a, <1>d DEF PreviewParts, PreviewInPlace
<1>4. PreviewAttended'
  BY <1>a, <1>d DEF PreviewParts, PreviewAttended
<1>5. NothingStranded'
  BY <1>b, <1>c, <1>d DEF PreviewParts, NothingStranded, InPage
<1> QED BY <1>1, <1>2, <1>3, <1>4, <1>5 DEF PreviewParts

LEMMA MountFailsKeeps ==
  ASSUME PreviewParts, met = {}, NEW t \in tasks, MountFails(t), met' = {}
  PROVE  PreviewParts'
<1>a. /\ ~Outlives(t) /\ t.at \in {"import", "ending"}
      /\ UNCHANGED <<instances, wrapper, retryFor, card, bar, leaving, published, untold>>
      /\ preview' = IF t.at = "ending" /\ preview # NoPreview
                    THEN [preview EXCEPT !.instance = 0] ELSE preview
  BY DEF MountFails, Meets, Fails
<1>b. /\ t.id = bar.current /\ t.target = preview.target /\ t.id = preview.id
      /\ preview # NoPreview /\ t \in PreviewTask /\ t.id \in Previews /\ published[t.id] > 0
      /\ t.variant \in Nat /\ t.variant > 0 /\ t.id # 0 /\ t.target \in MountTargets
      /\ bar.arrived > 0
  BY <1>a, InTime, TaskIs, PreviewFields
<1>c. \E m \in PreviewTask :
        /\ tasks' = (tasks \ {t}) \cup {m}
        /\ m.kind = t.kind /\ m.id = t.id /\ m.at = "probing" /\ m.target = t.target
        /\ m.variant = t.variant
  <2> DEFINE m == [t EXCEPT !.at = "probing"]
  <2>1. tasks' = (tasks \ {t}) \cup {m}
    BY DEF MountFails, Fails, Moves
  <2>2. m \in PreviewTask /\ m.kind = t.kind /\ m.id = t.id /\ m.at = "probing"
        /\ m.target = t.target /\ m.variant = t.variant
    BY <1>b DEF PreviewTask
  <2> QED BY <2>1, <2>2
<1>d. /\ preview' \in PreviewRecords /\ preview'.id = preview.id /\ preview'.target = preview.target
      /\ \/ preview' = preview
         \/ preview'.instance = 0 /\ \A i \in instances : i.target # preview.target
  <2>1. preview \in PreviewRecords
    BY DEF PreviewParts, PreviewsHeld
  <2>2. t.at = "ending" => \A i \in instances : i.target # preview.target
    BY <1>a, <1>b DEF PreviewParts, PreviewInPlace
  <2> QED BY <1>a, <1>b, <2>1, <2>2 DEF PreviewRecords
<1>e. preview'.id # 0
  BY <1>b, <1>d
<1>1. PreviewsHeld'
  BY <1>a, <1>c, <1>d DEF PreviewParts, PreviewsHeld
<1>2. OnlyPublished'
  BY <1>a, <1>c DEF PreviewParts, OnlyPublished
<1>3. PreviewInPlace'
  <2>1. PICK m \in PreviewTask :
          /\ tasks' = (tasks \ {t}) \cup {m}
          /\ m.id = t.id /\ m.at = "probing" /\ m.target = t.target
    BY <1>c
  <2>2. /\ wrapper' = [id |-> preview'.id, target |-> preview'.target]
        /\ preview'.target \in MountTargets
        /\ retryFor' = 0 \/ retryFor' # preview'.id
    BY <1>a, <1>b, <1>d DEF PreviewParts, PreviewInPlace
  <2>3. \A i \in instances' : i.target = preview'.target =>
          i.tag = preview'.instance /\ i.variant = preview'.mounted
    BY <1>a, <1>d DEF PreviewParts, PreviewInPlace
  <2>4. \A u \in tasks' : u.at # "manifest" /\ u.target = preview'.target =>
          /\ u.id = preview'.id
          /\ u.at = "ending" => \A i \in instances' : i.target # preview'.target
    BY <1>a, <1>b, <1>d, <2>1 DEF PreviewParts, PreviewInPlace
  <2>5. \A u, v \in tasks' : u.at = "ending" /\ v.at = "ending" => u = v
    BY <2>1 DEF PreviewParts, PreviewInPlace
  <2> QED BY <1>e, <2>2, <2>3, <2>4, <2>5 DEF PreviewInPlace
<1>4. PreviewAttended'
  BY <1>a, <1>c DEF PreviewParts, PreviewAttended
<1>5. NothingStranded'
  BY <1>c DEF PreviewParts, NothingStranded, InPage
<1> QED BY <1>1, <1>2, <1>3, <1>4, <1>5 DEF PreviewParts

\* The component of a task is mounted in its preview.
LEMMA MountsKeep ==
  ASSUME PreviewParts, NEW t \in tasks, t.at # "manifest", ~Outlives(t), Mounts(t, instances),
         \A i \in instances : i.target # preview.target,
         \A u \in tasks \ {t} : u.at # "ending",
         UNCHANGED <<wrapper, retryFor, leaving, published, untold>>
  PROVE  PreviewParts'
<1>b. /\ t.id = bar.current /\ t.target = preview.target /\ t.id = preview.id
      /\ preview # NoPreview /\ t \in PreviewTask /\ t.id \in Previews /\ published[t.id] > 0
      /\ t.variant \in Nat \ {0} /\ t.id # 0 /\ t.target \in MountTargets
      /\ bar.arrived > 0 /\ wrapper.target = preview.target /\ wrapper.id = preview.id
      /\ retryFor # preview.id /\ preview.id # 0 /\ preview.target # 0
  <2>1. /\ t.id = bar.current /\ t.target = preview.target /\ t.id = preview.id
        /\ preview # NoPreview /\ wrapper.target = preview.target /\ wrapper.id = preview.id
        /\ retryFor # preview.id
    BY InTime
  <2>2. /\ t \in PreviewTask /\ t.id \in Previews /\ published[t.id] > 0 /\ t.id # 0
        /\ t.variant \in Nat /\ t.variant > 0 /\ t.target \in MountTargets /\ t.target # 0
        /\ t.id = bar.current => bar.arrived > 0
    BY TaskIs
  <2>3. t.variant \in Nat \ {0}
    BY <2>2
  <2> QED BY <2>1, <2>2, <2>3
<1> DEFINE tag == CHOOSE n \in 1..Cardinality(instances) + 1 : \A i \in instances : i.tag # n
           new == [tag |-> tag, target |-> t.target, variant |-> t.variant]
<1>c. tag \in Nat \ {0} /\ \A i \in instances : i.tag # tag
  <2>1. IsFiniteSet(instances) /\ Cardinality(instances) \in Nat
    BY FS_CardinalityType DEF PreviewParts, PreviewsHeld
  <2> DEFINE k == Cardinality(instances)
             used == {i.tag : i \in instances}
  <2>2. IsFiniteSet(used) /\ Cardinality(used) <= k
    <3> DEFINE f == [i \in instances |-> i.tag]
    <3>1. f \in Surjection(instances, used)
      BY DEF Surjection
    <3> QED BY <3>1, <2>1, FS_Surjection
  <2>3. \E n \in 1..k + 1 : n \notin used
    <3>1. SUFFICES ASSUME 1..k + 1 \subseteq used PROVE FALSE
      OBVIOUS
    <3>2. Cardinality(1..k + 1) <= Cardinality(used)
      BY <3>1, <2>2, FS_Subset
    <3>3. Cardinality(1..k + 1) = k + 1
      BY <2>1, FS_Interval
    <3>4. Cardinality(used) \in Nat
      BY <2>2, FS_CardinalityType
    <3> QED BY <3>2, <3>3, <3>4, <2>1, <2>2
  <2>4. \E n \in 1..k + 1 : \A i \in instances : i.tag # n
    BY <2>3
  <2>5. tag \in 1..k + 1 /\ \A i \in instances : i.tag # tag
    BY <2>4
  <2> QED BY <2>5, <2>1
<1>d. /\ preview' = [preview EXCEPT !.instance = tag, !.mounted = t.variant]
      /\ instances' = instances \cup {new} /\ tasks' = tasks \ {t}
  BY DEF Mounts, GoesOn, Ends
<1>e. /\ preview' \in PreviewRecords /\ preview'.id = preview.id /\ preview'.target = preview.target
      /\ preview'.instance = tag /\ preview'.mounted = t.variant
      /\ new \in PreviewInstances /\ new.target = preview.target /\ new.tag = tag
      /\ new.variant = t.variant
  <2>1. preview \in PreviewRecords
    BY DEF PreviewParts, PreviewsHeld
  <2> QED BY <2>1, <1>b, <1>c, <1>d DEF PreviewRecords, PreviewInstances
<1>f. /\ bar' \in Bars /\ bar'.current = bar.current /\ bar'.begun = bar.begun
      /\ bar'.state = "CYCLING" /\ bar'.arrived = bar.arrived /\ card' \in {card, NoCard}
  <2>1. bar \in Bars
    BY DEF PreviewParts, PreviewsHeld
  <2>2. CASE t.kind = "selection"
    <3>1. bar' = bar /\ card' \in {card, NoCard}
      BY <2>2 DEF Mounts, GoesOn
    <3>2. bar.state = "CYCLING"
      BY <2>2, <1>b DEF PreviewParts, PreviewAttended
    <3> QED BY <2>1, <3>1, <3>2
  <2>3. CASE t.kind # "selection"
    <3>1. bar' = [bar EXCEPT !.state = "CYCLING"] /\ card' \in {card, NoCard}
      BY <2>3, <1>b DEF Mounts, GoesOn
    <3> QED BY <2>1, <3>1 DEF Bars
  <2> QED BY <2>2, <2>3
<1>g. IsFiniteSet(instances')
  BY <1>d, FS_AddElement DEF PreviewParts, PreviewsHeld
<1> HIDE DEF tag, new
<1>1. PreviewsHeld'
  BY <1>d, <1>e, <1>f, <1>g, PreviewBounds DEF PreviewParts, PreviewsHeld
<1>2. OnlyPublished'
  BY <1>d, <1>e, <1>f, PreviewBounds DEF PreviewParts, OnlyPublished
<1>3. PreviewInPlace'
  BY <1>b, <1>d, <1>e DEF PreviewParts, PreviewInPlace
<1>4. PreviewAttended'
  BY <1>b, <1>e, <1>f DEF PreviewParts, PreviewAttended
<1>5. NothingStranded'
  BY <1>b, <1>d, <1>e, <1>f DEF PreviewParts, NothingStranded, InPage
<1> QED BY <1>1, <1>2, <1>3, <1>4, <1>5 DEF PreviewParts

LEMMA EndedKeeps ==
  ASSUME PreviewParts, met = {}, NEW t \in tasks, Ended(t), met' = {}
  PROVE  PreviewParts'
<1>1. ~Outlives(t) /\ t.at = "ending" /\ UNCHANGED <<wrapper, retryFor, leaving, published, untold>>
  BY DEF Ended, Meets
<1>2. preview # NoPreview /\ t.target = preview.target
  BY <1>1, InTime
<1>3. Mounts(t, instances)
  BY <1>2 DEF Ended
<1>4. \A i \in instances : i.target # preview.target
  BY <1>1, <1>2 DEF PreviewParts, PreviewInPlace
<1>5. \A u \in tasks \ {t} : u.at # "ending"
  BY <1>1 DEF PreviewParts, PreviewInPlace
<1> QED BY <1>1, <1>3, <1>4, <1>5, MountsKeep

\* The instance that is mounted is ended first.
LEMMA EndsFirst ==
  ASSUME PreviewParts, NEW t \in tasks, t.at = "import", ~Outlives(t),
         instances' = {i \in instances : i.tag # preview.instance},
         Moves(t, [t EXCEPT !.at = "ending"]),
         \A u \in tasks : u.at # "ending",
         UNCHANGED <<bar, preview, card, wrapper, retryFor, leaving, published, untold>>
  PROVE  PreviewParts'
<1>a. /\ t.id = bar.current /\ t.target = preview.target /\ t.id = preview.id
      /\ t \in PreviewTask /\ published[t.id] > 0 /\ t.variant > 0 /\ t.target \in MountTargets
      /\ bar.arrived > 0
  <2>1. t.id = bar.current /\ t.target = preview.target /\ t.id = preview.id
    BY InTime
  <2> QED BY <2>1, TaskIs
<1>b. \E m \in PreviewTask :
        /\ tasks' = (tasks \ {t}) \cup {m}
        /\ m.kind = t.kind /\ m.id = t.id /\ m.at = "ending" /\ m.target = t.target
        /\ m.variant = t.variant
  <2> DEFINE m == [t EXCEPT !.at = "ending"]
  <2>1. tasks' = (tasks \ {t}) \cup {m}
    BY DEF Moves
  <2>2. m \in PreviewTask /\ m.kind = t.kind /\ m.id = t.id /\ m.at = "ending"
        /\ m.target = t.target /\ m.variant = t.variant
    BY <1>a DEF PreviewTask
  <2> QED BY <2>1, <2>2
<1>c. /\ instances' \subseteq instances /\ IsFiniteSet(instances')
      /\ \A i \in instances' : i.target # preview.target
  <2>1. instances' \subseteq instances
    OBVIOUS
  <2>2. \A i \in instances' : i.target # preview.target
    BY DEF PreviewParts, PreviewInPlace
  <2> QED BY <2>1, <2>2, FS_Subset DEF PreviewParts, PreviewsHeld
<1>1. PreviewsHeld'
  BY <1>b, <1>c DEF PreviewParts, PreviewsHeld
<1>2. OnlyPublished'
  BY <1>b DEF PreviewParts, OnlyPublished
<1>3. PreviewInPlace'
  <2>1. PICK m \in PreviewTask :
          /\ tasks' = (tasks \ {t}) \cup {m}
          /\ m.id = t.id /\ m.at = "ending" /\ m.target = t.target
    BY <1>b
  <2>2. \A u \in tasks' : u.at # "manifest" /\ u.target = preview'.target => u.id = preview'.id
    BY <1>a, <2>1 DEF PreviewParts, PreviewInPlace
  <2>3. \A u, v \in tasks' : u.at = "ending" /\ v.at = "ending" => u = v
    BY <2>1
  <2> QED BY <1>c, <2>2, <2>3 DEF PreviewParts, PreviewInPlace
<1>4. PreviewAttended'
  BY <1>b DEF PreviewParts, PreviewAttended
<1>5. NothingStranded'
  BY <1>b DEF PreviewParts, NothingStranded, InPage
<1> QED BY <1>1, <1>2, <1>3, <1>4, <1>5 DEF PreviewParts

LEMMA ImportedKeeps ==
  ASSUME PreviewParts, met = {}, NEW t \in tasks, Imported(t), met' = {}
  PROVE  PreviewParts'
<1>1. /\ ~Outlives(t) /\ t.at = "import" /\ \A u \in tasks : u.at # "ending"
      /\ UNCHANGED <<wrapper, retryFor, leaving, published, untold>>
  BY DEF Imported
<1>2. preview # NoPreview /\ t.target = preview.target
  BY <1>1, InTime
<1>3. CASE preview.instance # 0
  <2>1. /\ instances' = {i \in instances : i.tag # preview.instance}
        /\ Moves(t, [t EXCEPT !.at = "ending"])
        /\ UNCHANGED <<bar, preview, card>>
    BY <1>2, <1>3 DEF Imported
  <2> QED BY <1>1, <2>1, EndsFirst
<1>4. CASE preview.instance = 0
  <2>1. Mounts(t, instances)
    BY <1>2, <1>4 DEF Imported
  <2>2. \A i \in instances : i.target # preview.target
    BY <1>4, PreviewFields DEF PreviewParts, PreviewsHeld, PreviewInPlace
  <2>3. \A u \in tasks \ {t} : u.at # "ending"
    BY <1>1
  <2> QED BY <1>1, <2>1, <2>2, <2>3, MountsKeep
<1> QED BY <1>3, <1>4

\* The preview of the session is mounted again.
LEMMA MountsAgain ==
  ASSUME PreviewParts, NEW t \in tasks, t.at = "manifest", t.id = bar.current,
         preview.id = t.id, NEW m \in PreviewTask,
         m.kind = "injection", m.at = "import", m.id = t.id, m.target = preview.target,
         m.variant > 0,
         tasks' = (tasks \ {t}) \cup {m},
         bar' \in Bars, bar'.current = bar.current, bar'.begun = bar.begun, bar'.arrived > 0,
         bar'.state = (IF bar.state = "CYCLING" THEN bar.state ELSE "GENERATING"),
         UNCHANGED <<preview, wrapper, retryFor, instances, card, leaving, published, untold>>
  PROVE  PreviewParts'
<1>a. t \in PreviewTask /\ t.id # 0 /\ published[t.id] > 0
  BY TaskIs
<1>b. preview.target \in MountTargets
  BY <1>a DEF PreviewParts, PreviewInPlace
<1>1. PreviewsHeld'
  BY DEF PreviewParts, PreviewsHeld
<1>2. OnlyPublished'
  BY <1>b DEF PreviewParts, OnlyPublished
<1>3. PreviewInPlace'
  <2>1. \A u \in tasks' : u.at # "manifest" /\ u.target = preview'.target =>
          /\ u.id = preview'.id
          /\ u.at = "ending" => \A i \in instances' : i.target # preview'.target
    BY DEF PreviewParts, PreviewInPlace
  <2>2. \A u, w \in tasks' : u.at = "ending" /\ w.at = "ending" => u = w
    BY DEF PreviewParts, PreviewInPlace
  <2> QED BY <2>1, <2>2 DEF PreviewParts, PreviewInPlace
<1>4. PreviewAttended'
  BY DEF PreviewParts, PreviewAttended
<1>5. NothingStranded'
  BY DEF PreviewParts, NothingStranded, InPage
<1> QED BY <1>1, <1>2, <1>3, <1>4, <1>5 DEF PreviewParts

\* The session waits for its element to be rendered.
LEMMA WaitsForElement ==
  ASSUME PreviewParts, NEW t \in tasks, t.id = bar.current, preview.id # t.id,
         tasks' = tasks \ {t}, retryFor' = t.id,
         bar' \in Bars, bar'.current = bar.current, bar'.begun = bar.begun, bar'.arrived > 0,
         bar'.state = "GENERATING",
         UNCHANGED <<preview, wrapper, instances, card, leaving, published, untold>>
  PROVE  PreviewParts'
<1>a. t \in PreviewTask /\ t.id \in Previews /\ t.id # 0 /\ published[t.id] > 0
  BY TaskIs
<1>c. \A u \in tasks : u.kind = "selection" /\ u.id = bar.current => u.target # preview.target
  BY TaskIs DEF PreviewParts, PreviewInPlace
<1>1. PreviewsHeld'
  BY <1>a, PreviewBounds DEF PreviewParts, PreviewsHeld
<1>2. OnlyPublished'
  BY DEF PreviewParts, OnlyPublished
<1>3. PreviewInPlace'
  BY DEF PreviewParts, PreviewInPlace
<1>4. PreviewAttended'
  BY <1>c DEF PreviewParts, PreviewAttended
<1>5. NothingStranded'
  BY <1>a DEF PreviewParts, NothingStranded, InPage
<1> QED BY <1>1, <1>2, <1>3, <1>4, <1>5 DEF PreviewParts

\* A preview is built in place of the element.
LEMMA BuildsInPlace ==
  ASSUME PreviewParts, NEW t \in tasks, t.at = "manifest", t.id = bar.current,
         wrapper = NoWrapper, NEW n \in Unused,
         preview' = [NoPreview EXCEPT !.id = t.id, !.target = n],
         wrapper' = [id |-> t.id, target |-> n], retryFor' = 0,
         NEW m \in PreviewTask,
         m.kind = "injection", m.at = "import", m.id = t.id, m.target = n, m.variant > 0,
         tasks' = (tasks \ {t}) \cup {m},
         bar' \in Bars, bar'.current = bar.current, bar'.begun = bar.begun, bar'.arrived > 0,
         bar'.state = (IF bar.state = "CYCLING" THEN bar.state ELSE "GENERATING"),
         UNCHANGED <<instances, card, leaving, published, untold>>
  PROVE  PreviewParts'
<1>a. /\ t \in PreviewTask /\ t.id \in Previews /\ t.id # 0 /\ t.id \in 0..MaxPreviews
      /\ published[t.id] > 0
  BY TaskIs, PreviewBounds
<1>b. /\ n \in MountTargets /\ n # 0 /\ n \in 0..MaxTargets
      /\ \A u \in tasks : u.target # n
      /\ \A i \in instances : i.target # n
  BY PreviewBounds DEF Unused
<1>c. /\ preview' \in PreviewRecords /\ preview'.id = t.id /\ preview'.target = n
      /\ preview'.instance = 0
  BY <1>a, <1>b DEF NoPreview, PreviewRecords
<1>d. wrapper' \in MountWrappers
  BY <1>a, <1>b DEF MountWrappers
<1>1. PreviewsHeld'
  BY <1>c, <1>d, PreviewBounds DEF PreviewParts, PreviewsHeld
<1>2. OnlyPublished'
  BY <1>b DEF PreviewParts, OnlyPublished
<1>3. PreviewInPlace'
  <2>1. \A u \in tasks' : u.target = n => u = m
    BY <1>b
  <2>2. \A u, w \in tasks' : u.at = "ending" /\ w.at = "ending" => u = w
    BY DEF PreviewParts, PreviewInPlace
  <2>3. wrapper' = [id |-> preview'.id, target |-> preview'.target] /\ preview'.id # 0
    BY <1>a, <1>c
  <2> QED BY <1>b, <1>c, <2>1, <2>2, <2>3 DEF PreviewInPlace
<1>4. PreviewAttended'
  BY <1>b, <1>c DEF PreviewParts, PreviewAttended
<1>5. NothingStranded'
  BY DEF PreviewParts, NothingStranded, InPage
<1> QED BY <1>1, <1>2, <1>3, <1>4, <1>5 DEF PreviewParts

LEMMA ReadManifestKeeps ==
  ASSUME PreviewParts, met = {}, NEW t \in tasks, ReadManifest(t), met' = {}
  PROVE  PreviewParts'
<1>a. /\ t.id = bar.current /\ t.at = "manifest" /\ t.kind = "injection" /\ t \in PreviewTask
      /\ t.id \in Previews /\ t.id # 0 /\ published[t.id] > 0 /\ published[t.id] \in Nat
      /\ t.seen \in Nat /\ t.seen > 0 /\ bar \in Bars
      /\ UNCHANGED <<instances, card, leaving, published, untold>>
  <2>1. /\ t.id = bar.current /\ t.at = "manifest"
        /\ UNCHANGED <<instances, card, leaving, published, untold>>
    BY DEF ReadManifest, Meets
  <2> QED BY <2>1, TaskIs DEF PreviewParts, PreviewsHeld
<1>b. PICK n \in t.seen..published[t.id] :
        LET now == [bar EXCEPT !.current = t.id, !.arrived = n, !.visible = VariantOf(n),
                      !.state = IF @ = "CYCLING" THEN @ ELSE "GENERATING"]
        IN \/ /\ wrapper.id = t.id /\ preview.id = t.id
              /\ bar' = now
              /\ Moves(t, Mounting(t, preview, VariantOf(n), FALSE))
              /\ UNCHANGED <<preview, wrapper, retryFor>>
           \/ /\ ~(wrapper.id = t.id /\ preview.id = t.id)
              /\ ~rendered \/ wrapper # NoWrapper
              /\ bar' = [now EXCEPT !.state = "GENERATING"]
              /\ retryFor' = t.id
              /\ Ends(t)
              /\ UNCHANGED <<preview, wrapper>>
           \/ /\ rendered /\ wrapper = NoWrapper /\ Unused # {}
              /\ bar' = now
              /\ preview' = [NoPreview EXCEPT !.id = t.id, !.target = FreshTarget]
              /\ wrapper' = [id |-> t.id, target |-> FreshTarget]
              /\ retryFor' = 0
              /\ Moves(t, Mounting(t, preview', VariantOf(n), TRUE))
  BY DEF ReadManifest
<1> DEFINE v == VariantOf(n)
           now == [bar EXCEPT !.current = t.id, !.arrived = n, !.visible = v,
                     !.state = IF @ = "CYCLING" THEN @ ELSE "GENERATING"]
<1>c. n \in Nat /\ n > 0 /\ v \in Nat /\ v > 0
  BY <1>a DEF VariantOf
<1> HIDE DEF v
<1>d. t.id \in 0..MaxPreviews
  BY <1>a, PreviewBounds
<1>e. /\ now \in Bars /\ now.current = bar.current /\ now.begun = bar.begun /\ now.arrived > 0
      /\ now.state = (IF bar.state = "CYCLING" THEN bar.state ELSE "GENERATING")
  BY <1>a, <1>c, <1>d DEF Bars
<1>f. ASSUME NEW p \in PreviewRecords, NEW fresh \in BOOLEAN
      PROVE  /\ Mounting(t, p, v, fresh) \in PreviewTask
             /\ Mounting(t, p, v, fresh).kind = "injection"
             /\ Mounting(t, p, v, fresh).at = "import" /\ Mounting(t, p, v, fresh).id = t.id
             /\ Mounting(t, p, v, fresh).target = p.target /\ Mounting(t, p, v, fresh).variant > 0
  BY <1>a, <1>c DEF Mounting, PreviewTask, PreviewRecords
<1>1. CASE /\ wrapper.id = t.id /\ preview.id = t.id
           /\ bar' = now
           /\ Moves(t, Mounting(t, preview, v, FALSE))
           /\ UNCHANGED <<preview, wrapper, retryFor>>
  <2> DEFINE m == Mounting(t, preview, v, FALSE)
  <2>1. preview \in PreviewRecords /\ FALSE \in BOOLEAN
    BY DEF PreviewParts, PreviewsHeld
  <2>2. /\ m \in PreviewTask /\ m.kind = "injection" /\ m.at = "import" /\ m.id = t.id
        /\ m.target = preview.target /\ m.variant > 0
    BY <2>1, <1>f
  <2>3. tasks' = (tasks \ {t}) \cup {m}
    BY <1>1 DEF Moves
  <2>4. /\ bar' \in Bars /\ bar'.current = bar.current /\ bar'.begun = bar.begun /\ bar'.arrived > 0
        /\ bar'.state = (IF bar.state = "CYCLING" THEN bar.state ELSE "GENERATING")
    BY <1>1, <1>e
  <2> HIDE DEF m, now
  <2> QED BY <1>1, <1>a, <2>2, <2>3, <2>4, MountsAgain
<1>2. CASE /\ ~(wrapper.id = t.id /\ preview.id = t.id)
           /\ bar' = [now EXCEPT !.state = "GENERATING"]
           /\ retryFor' = t.id
           /\ Ends(t)
           /\ UNCHANGED <<preview, wrapper>>
  <2>1. preview.id # t.id
    BY <1>2, <1>a DEF PreviewParts, PreviewInPlace
  <2>2. /\ bar' \in Bars /\ bar'.current = bar.current /\ bar'.begun = bar.begun /\ bar'.arrived > 0
        /\ bar'.state = "GENERATING"
    BY <1>2, <1>a, <1>c, <1>d DEF Bars
  <2>3. tasks' = tasks \ {t}
    BY <1>2 DEF Ends
  <2> HIDE DEF now
  <2> QED BY <1>2, <1>a, <2>1, <2>2, <2>3, WaitsForElement
<1>3. CASE /\ wrapper = NoWrapper /\ Unused # {}
           /\ bar' = now
           /\ preview' = [NoPreview EXCEPT !.id = t.id, !.target = FreshTarget]
           /\ wrapper' = [id |-> t.id, target |-> FreshTarget]
           /\ retryFor' = 0
           /\ Moves(t, Mounting(t, preview', v, TRUE))
  <2> DEFINE m == Mounting(t, preview', v, TRUE)
  <2>1. FreshTarget \in Unused /\ FreshTarget \in 0..MaxTargets
    BY <1>3, PreviewBounds DEF FreshTarget, Unused
  <2>2. preview' \in PreviewRecords /\ preview'.target = FreshTarget /\ TRUE \in BOOLEAN
    BY <1>3, <1>d, <2>1 DEF NoPreview, PreviewRecords
  <2>3. /\ m \in PreviewTask /\ m.kind = "injection" /\ m.at = "import" /\ m.id = t.id
        /\ m.target = FreshTarget /\ m.variant > 0
    BY <2>2, <1>f
  <2>4. tasks' = (tasks \ {t}) \cup {m}
    BY <1>3 DEF Moves
  <2>5. /\ bar' \in Bars /\ bar'.current = bar.current /\ bar'.begun = bar.begun /\ bar'.arrived > 0
        /\ bar'.state = (IF bar.state = "CYCLING" THEN bar.state ELSE "GENERATING")
    BY <1>3, <1>e
  <2> HIDE DEF m, now
  <2> QED BY <1>3, <1>a, <2>1, <2>3, <2>4, <2>5, BuildsInPlace
<1> QED BY <1>b, <1>1, <1>2, <1>3 DEF v, now

LEMMA PreviewKept ==
  ASSUME PreviewInv, [PreviewNext]_previewVars
  PROVE  PreviewInv'
<1>1. SUFFICES ASSUME met' = {} PROVE PreviewParts'
  BY DEF PreviewInv, PreviewParts
<1>2. met = {}
  BY <1>1 DEF PreviewNext, PreviewUserStep, AnswerStep, PreviewAgentStep, PageStep, TaskStep,
     previewVars, Begin, AcceptPreview, DiscardPreview, RetryCard, DismissCard, SelectVariant,
     LeaveAnswered, LeaveFails, Publish, HearPublication, RenderPage, RetryObserved,
     ReloadPreview, ReadManifest, ManifestFails, Imported, Ended, MountFails, Probed, Meets
<1>3. PreviewParts
  BY <1>2 DEF PreviewInv, PreviewParts
<1>4. CASE PreviewUserStep
  BY <1>1, <1>2, <1>3, <1>4, BeginKeeps, AcceptPreviewKeeps, DiscardPreviewKeeps, RetryCardKeeps,
     DismissCardKeeps, SelectVariantKeeps DEF PreviewUserStep
<1>5. CASE AnswerStep
  BY <1>1, <1>2, <1>3, <1>5, LeaveAnsweredKeeps, LeaveFailsKeeps DEF AnswerStep
<1>6. CASE PreviewAgentStep
  BY <1>1, <1>2, <1>3, <1>6, PublishKeeps, HearPublicationKeeps DEF PreviewAgentStep
<1>7. CASE PageStep
  BY <1>1, <1>2, <1>3, <1>7, RenderPageKeeps, RetryObservedKeeps, ReloadPreviewKeeps DEF PageStep
<1>8. CASE TaskStep
  <2>1. PICK t \in tasks : \/ ReadManifest(t) \/ ManifestFails(t) \/ Imported(t) \/ Ended(t)
                           \/ MountFails(t) \/ Probed(t)
    BY <1>8 DEF TaskStep
  <2>2. CASE Probed(t)
    BY <1>1, <1>2, <1>3, <2>2, ProbedFreshKeeps, ProbedAgainKeeps
  <2> QED BY <1>1, <1>2, <1>3, <2>1, <2>2, ReadManifestKeeps, ManifestFailsKeeps, ImportedKeeps,
             EndedKeeps, MountFailsKeeps
<1>9. CASE UNCHANGED previewVars
  BY <1>3, <1>9 DEF previewVars, PreviewParts, PreviewsHeld, OnlyPublished, PreviewInPlace,
     PreviewAttended, NothingStranded, InPage
<1> QED BY <1>4, <1>5, <1>6, <1>7, <1>8, <1>9 DEF PreviewNext

LEMMA PreviewStarts ==
  ASSUME PreviewInit
  PROVE  PreviewInv
<1>1. bar = [current |-> 0, state |-> "PICKING", arrived |-> 0, visible |-> 0, begun |-> 0]
  BY DEF PreviewInit
<1>2. bar \in Bars
  BY <1>1, PreviewBounds DEF Bars
<1>3. published \in [Previews -> Nat] /\ IsFiniteSet(instances)
  BY FS_EmptySet DEF PreviewInit
<1>4. PreviewsHeld
  BY <1>2, <1>3, PreviewBounds DEF PreviewInit, PreviewsHeld
<1>5. OnlyPublished
  <2>1. bar.current <= bar.begun
    BY <1>1
  <2>2. \A i \in Previews : published[i] = 0
    BY DEF PreviewInit
  <2>3. card.id = 0 /\ retryFor = 0 /\ preview.id = 0 /\ tasks = {} /\ untold = {}
    BY DEF PreviewInit, NoCard, NoPreview
  <2> QED BY <2>1, <2>2, <2>3 DEF OnlyPublished
<1>6. PreviewInPlace
  BY PreviewBounds DEF PreviewInit, PreviewInPlace
<1>7. PreviewAttended /\ NothingStranded
  <2>1. bar.state = "PICKING" /\ preview.instance = 0 /\ leaving.how = "" /\ tasks = {}
    <3>1. preview = NoPreview /\ leaving = NotLeaving /\ tasks = {}
      BY DEF PreviewInit
    <3> QED BY <1>1, <3>1, PreviewBounds
  <2> QED BY <2>1 DEF PreviewAttended, NothingStranded
<1> QED BY <1>4, <1>5, <1>6, <1>7 DEF PreviewInv

\* Until a race is met, the wrapper in the document is that of the preview, what is mounted in
\* it is what the preview has recorded, and every session has somebody attending to it.
THEOREM PreviewInvariance == PreviewSpec => []PreviewInv
<1>1. PreviewInit => PreviewInv
  BY PreviewStarts
<1>2. PreviewInv /\ [PreviewNext]_previewVars => PreviewInv'
  BY PreviewKept
<1> QED BY <1>1, <1>2, PTL DEF PreviewSpec

\* NeverStranded: injections, selections and their failures leave no session with nothing to
\* see and nothing to wait for, for every number of sessions, tasks, variants and failures.
THEOREM NothingIsStranded == PreviewSpec => []NeverStranded
<1>1. PreviewInv => NeverStranded
  <2>1. SUFFICES ASSUME PreviewInv, tasks = {}, untold = {}, met = {},
                        bar.state \in {"GENERATING", "CYCLING"},
                        bar.current # 0 => published[bar.current] > 0
                 PROVE  /\ bar.current # 0
                        /\ \/ card.id = bar.current
                           \/ retryFor = bar.current
                           \/ bar.state = "CYCLING" /\ \E i \in InPage : i.variant = preview.mounted
    BY DEF NeverStranded
  <2>2. bar.current # 0 => published[bar.current] # 0
    <3>1. SUFFICES ASSUME bar.current # 0 PROVE published[bar.current] # 0
      OBVIOUS
    <3>2. published[bar.current] > 0
      BY <2>1, <3>1
    <3> QED BY <3>2
  <2> QED BY <2>1, <2>2 DEF PreviewInv, NothingStranded
<1> QED BY <1>1, PreviewInvariance, PTL

\* AcceptsWhatIsShown: an accept takes the variant that is in the page, for every number of
\* sessions, tasks, variants and failures.
THEOREM AcceptsAreShown == PreviewSpec => AcceptsWhatIsShown
<1>1. PreviewInv /\ [PreviewNext]_previewVars =>
        [(met = {} /\ bar.state = "CYCLING" /\ bar'.state = "SAVING") =>
           \A i \in InPage : i.variant = bar'.visible]_previewVars
  <2>1. SUFFICES ASSUME PreviewInv, PreviewNext, met = {}, bar.state = "CYCLING",
                        bar'.state = "SAVING", NEW i \in InPage
                 PROVE  i.variant = bar'.visible
    BY DEF previewVars
  <2>2. PreviewsHeld /\ PreviewInPlace /\ PreviewAttended
    BY <2>1 DEF PreviewInv
  <2>3. bar \in Bars
    BY <2>2 DEF PreviewsHeld
  <2>4. AcceptPreview
    <3>1. CASE PreviewUserStep
      BY <2>1, <2>3, <3>1 DEF PreviewUserStep, Begin, DiscardPreview, RetryCard, DismissCard,
         SelectVariant, Bars
    <3>2. CASE AnswerStep
      BY <2>1, <2>3, <3>2 DEF AnswerStep, LeaveAnswered, Accepted, Discarded, CleanupPreview,
         LeaveFails, Bars
    <3>3. CASE PreviewAgentStep
      BY <2>1, <3>3 DEF PreviewAgentStep, Publish, HearPublication
    <3>4. CASE PageStep
      BY <2>1, <2>3, <3>4 DEF PageStep, RenderPage, RetryObserved, ReloadPreview, Bars
    <3>5. CASE TaskStep
      <4>1. PICK t \in tasks : \/ ReadManifest(t) \/ ManifestFails(t) \/ Imported(t) \/ Ended(t)
                               \/ MountFails(t) \/ Probed(t)
        BY <3>5 DEF TaskStep
      <4>2. CASE ReadManifest(t)
        BY <2>1, <2>3, <4>2 DEF ReadManifest, Bars
      <4>3. CASE ManifestFails(t) \/ MountFails(t) \/ Probed(t)
        BY <2>1, <2>3, <4>3 DEF ManifestFails, MountFails, Probed, Fails, Bars
      <4>4. CASE Imported(t) \/ Ended(t)
        BY <2>1, <2>3, <4>4 DEF Imported, Ended, Mounts, GoesOn, Fails, Bars
      <4> QED BY <4>1, <4>2, <4>3, <4>4
    <3> QED BY <2>1, <3>1, <3>2, <3>3, <3>4, <3>5 DEF PreviewNext
  <2>5. i \in instances /\ i.target = wrapper.target /\ wrapper.target # 0
    BY DEF InPage
  <2>6. wrapper.target = preview.target
    <3>1. preview.id # 0
      <4>1. SUFFICES ASSUME preview.id = 0 PROVE FALSE
        OBVIOUS
      <4>2. wrapper = NoWrapper
        BY <2>2, <4>1 DEF PreviewInPlace
      <4> QED BY <2>5, <4>2, PreviewBounds
    <3>2. wrapper = [id |-> preview.id, target |-> preview.target]
      BY <2>2, <3>1 DEF PreviewInPlace
    <3> QED BY <3>2
  <2>7. i.tag = preview.instance /\ i.variant = preview.mounted
    BY <2>2, <2>5, <2>6 DEF PreviewInPlace
  <2>8. i.tag # 0 /\ i.variant > 0
    <3>1. i.tag \in Nat \ {0} /\ i.variant \in Nat \ {0}
      BY <2>2, <2>5, PreviewFields DEF PreviewsHeld
    <3> QED BY <3>1
  <2>9. preview.id = bar.current /\ preview.mounted > 0
    BY <2>2, <2>7, <2>8 DEF PreviewAttended
  <2>10. bar'.visible = AcceptedVariant
    BY <2>3, <2>4 DEF AcceptPreview, Bars
  <2> QED BY <2>7, <2>9, <2>10 DEF AcceptedVariant
<1> QED BY <1>1, PreviewInvariance, PTL DEF PreviewSpec, AcceptsWhatIsShown

-----------------------------------------------------------------------------
(* The parameters of variants.                                             *)

\* Values are functions on sets of knobs.
LEMMA ValuesAre ==
  ASSUME NEW f
  PROVE  f \in Values <=> /\ f = [k \in DOMAIN f |-> f[k]] /\ DOMAIN f \subseteq Knobs
                          /\ \A k \in DOMAIN f : f[k] \in {Default, Tuned}
<1>1. ASSUME f \in Values
      PROVE  /\ f = [k \in DOMAIN f |-> f[k]] /\ DOMAIN f \subseteq Knobs
             /\ \A k \in DOMAIN f : f[k] \in {Default, Tuned}
  BY <1>1 DEF Values
<1>2. ASSUME f = [k \in DOMAIN f |-> f[k]], DOMAIN f \subseteq Knobs,
             \A k \in DOMAIN f : f[k] \in {Default, Tuned}
      PROVE  f \in Values
  <2>1. f \in [DOMAIN f -> {Default, Tuned}]
    BY <1>2
  <2> QED
    BY <1>2, <2>1 DEF Values
<1> QED
  BY <1>1, <1>2

LEMMA SameValues ==
  ASSUME NEW f \in Values, NEW g \in Values, DOMAIN f = DOMAIN g,
         \A k \in DOMAIN f : f[k] = g[k]
  PROVE  f = g
BY ValuesAre

LEMMA UnsetIs ==
  /\ Unset \in Values /\ DOMAIN Unset = {}
  /\ \A f \in Values : DOMAIN f = {} => f = Unset
<1>1. Unset = [k \in {} |-> 0]
  BY DEF Unset
<1>2. DOMAIN Unset = {}
  BY <1>1
<1>3. Unset \in Values
  BY <1>1, <1>2, ValuesAre
<1> QED
  BY <1>2, <1>3, SameValues

LEMMA DefaultsAre ==
  ASSUME NEW S \in SUBSET Knobs
  PROVE  [k \in S |-> Default] \in Values
BY ValuesAre

LEMMA OnlyIs ==
  ASSUME NEW f \in Values, NEW S
  PROVE  /\ Only(f, S) \in Values /\ DOMAIN Only(f, S) = DOMAIN f \cap S
         /\ \A k \in DOMAIN f \cap S : Only(f, S)[k] = f[k]
<1>1. DOMAIN f \subseteq Knobs /\ \A k \in DOMAIN f : f[k] \in {Default, Tuned}
  BY ValuesAre
<1>2. /\ DOMAIN Only(f, S) = DOMAIN f \cap S
      /\ \A k \in DOMAIN f \cap S : Only(f, S)[k] = f[k]
      /\ Only(f, S) = [k \in DOMAIN Only(f, S) |-> Only(f, S)[k]]
  BY DEF Only
<1> QED
  BY <1>1, <1>2, ValuesAre

LEMMA OverridingIs ==
  ASSUME NEW f \in Values, NEW g \in Values
  PROVE  /\ Overriding(f, g) \in Values /\ DOMAIN Overriding(f, g) = DOMAIN f \cup DOMAIN g
         /\ \A k \in DOMAIN f : Overriding(f, g)[k] = f[k]
         /\ \A k \in DOMAIN g \ DOMAIN f : Overriding(f, g)[k] = g[k]
<1> DEFINE h == Overriding(f, g)
<1>1. /\ DOMAIN f \subseteq Knobs /\ \A k \in DOMAIN f : f[k] \in {Default, Tuned}
      /\ DOMAIN g \subseteq Knobs /\ \A k \in DOMAIN g : g[k] \in {Default, Tuned}
  BY ValuesAre
<1>2. /\ DOMAIN h = DOMAIN f \cup DOMAIN g
      /\ \A k \in DOMAIN f : h[k] = f[k]
      /\ \A k \in DOMAIN g \ DOMAIN f : h[k] = g[k]
      /\ h = [k \in DOMAIN h |-> h[k]]
  BY DEF Overriding
<1> HIDE DEF h
<1>3. \A k \in DOMAIN h : h[k] \in {Default, Tuned}
  BY <1>1, <1>2
<1>4. h \in Values
  BY <1>1, <1>2, <1>3, ValuesAre
<1> QED
  BY <1>2, <1>4 DEF h

-----------------------------------------------------------------------------
\* What two states of the page have in common: the stage of the session, what is seen on
\* the page with the mirror, and the panel.
SameStage(t, r) ==
  /\ r.live = t.live /\ r.arrived = t.arrived /\ r.visible = t.visible
  /\ r.phase = t.phase /\ r.knobs = t.knobs

SameLook(t, r) == r.values = t.values /\ r.attrs = t.attrs /\ r.sheet = t.sheet

SamePanel(t, r) ==
  r.open = t.open /\ r.panel = t.panel /\ r.built = t.built /\ r.held = t.held

LEMMA RecordIs ==
  ASSUME NEW t \in TuneRecords
  PROVE  /\ t.live \in {"GENERATING", "CYCLING", "SAVING", "PICKING", "away"}
         /\ t.arrived \in 0..Planned /\ t.visible \in 0..Planned /\ t.phase \in Phases
         /\ t.knobs \in [Numbers -> SUBSET Knobs] /\ t.values \in Values
         /\ t.attrs \in [0..Planned -> Values]
         /\ t.sheet \in [of : 0..Planned, values : Values]
         /\ t.open \in BOOLEAN /\ t.panel \in BOOLEAN /\ t.built \in SUBSET Knobs
         /\ t.held \in BOOLEAN /\ t.chip \in {"none", "spins", "ready"}
         /\ t.saved \in [phase : Phases, visible : 0..Planned]
         /\ Params(t) \subseteq Knobs
<1>1. /\ t.live \in {"GENERATING", "CYCLING", "SAVING", "PICKING", "away"}
      /\ t.arrived \in 0..Planned /\ t.visible \in 0..Planned /\ t.phase \in Phases
      /\ t.knobs \in [Numbers -> SUBSET Knobs] /\ t.values \in Values
      /\ t.attrs \in [0..Planned -> Values]
      /\ t.sheet \in [of : 0..Planned, values : Values]
      /\ t.open \in BOOLEAN /\ t.panel \in BOOLEAN /\ t.built \in SUBSET Knobs
      /\ t.held \in BOOLEAN /\ t.chip \in {"none", "spins", "ready"}
      /\ t.saved \in [phase : Phases, visible : 0..Planned]
  BY DEF TuneRecords
<1>2. Params(t) \subseteq Knobs
  BY <1>1, TuneAssumption DEF Params, Numbers
<1> QED
  BY <1>1, <1>2

LEMMA RestyledIs ==
  ASSUME NEW t \in TuneRecords
  PROVE  LET r == Restyled(t) IN
         /\ r \in TuneRecords /\ SameStage(t, r) /\ SamePanel(t, r)
         /\ r.values = t.values /\ r.attrs = t.attrs /\ r.chip = t.chip
         /\ r.sheet = [of |-> t.visible, values |-> t.values]
BY DEF Restyled, TuneRecords, SameStage, SamePanel

LEMMA BarredIs ==
  ASSUME NEW t \in TuneRecords
  PROVE  LET r == Barred(t) IN
         /\ r \in TuneRecords /\ SameStage(t, r) /\ SamePanel(t, r) /\ SameLook(t, r)
         /\ r.chip = "spins" => r.phase \in Waiting
BY DEF Barred, TuneRecords, SameStage, SamePanel, SameLook

LEMMA SavedIs ==
  ASSUME NEW t \in TuneRecords
  PROVE  LET r == Saved(t) IN
         /\ r \in TuneRecords /\ SameStage(t, r) /\ SamePanel(t, r) /\ SameLook(t, r)
         /\ r.chip = t.chip
BY DEF Saved, TuneRecords, SameStage, SamePanel, SameLook

LEMMA ClosedIs ==
  ASSUME NEW t \in TuneRecords
  PROVE  LET r == Closed(t) IN
         /\ r \in TuneRecords /\ SameStage(t, r) /\ SameLook(t, r)
         /\ r.chip = t.chip /\ ~r.panel /\ ~r.open
BY DEF Closed, TuneRecords, SameStage, SameLook

LEMMA PaintedIs ==
  ASSUME NEW t \in TuneRecords, NEW f \in Values, compiled \in BOOLEAN
  PROVE  LET r == Painted(t, f) IN
         /\ r \in TuneRecords /\ SameStage(t, r) /\ SamePanel(t, r)
         /\ r.values = t.values /\ r.chip = t.chip
         /\ compiled => r.attrs = [t.attrs EXCEPT ![0] = Overriding(f, @)]
         /\ ~compiled =>
              /\ r.attrs = [t.attrs EXCEPT ![t.visible] = Overriding(Only(f, Stepped), @)]
              /\ r.sheet = [of |-> t.visible, values |-> t.values]
<1>0. 0 \in 0..Planned /\ t.visible \in 0..Planned /\ t.attrs \in [0..Planned -> Values]
  BY RecordIs, TuneAssumption
<1>1. CASE compiled
  <2>1. Overriding(f, t.attrs[0]) \in Values
    BY <1>0, OverridingIs
  <2> DEFINE a == [t.attrs EXCEPT ![0] = Overriding(f, @)]
  <2>2. a \in [0..Planned -> Values]
    BY <1>0, <2>1
  <2>3. Painted(t, f) = [t EXCEPT !.attrs = a]
    BY <1>1 DEF Painted, TuneRecords
  <2> HIDE DEF a
  <2>4. LET r == Painted(t, f) IN
        /\ r \in TuneRecords /\ SameStage(t, r) /\ SamePanel(t, r)
        /\ r.values = t.values /\ r.chip = t.chip /\ r.attrs = a
    BY <2>2, <2>3 DEF TuneRecords, SameStage, SamePanel
  <2> QED
    BY <1>1, <2>4 DEF a
<1>2. CASE ~compiled
  <2>1. Overriding(Only(f, Stepped), t.attrs[t.visible]) \in Values
    BY <1>0, OverridingIs, OnlyIs
  <2> DEFINE a == [t.attrs EXCEPT ![t.visible] = Overriding(Only(f, Stepped), @)]
             u == [t EXCEPT !.attrs = a]
  <2>2. a \in [0..Planned -> Values]
    BY <1>0, <2>1
  <2>3. Painted(t, f) = Restyled(u)
    BY <1>2 DEF Painted, TuneRecords
  <2> HIDE DEF a
  <2>4. /\ u \in TuneRecords /\ SameStage(t, u) /\ SamePanel(t, u)
        /\ u.values = t.values /\ u.chip = t.chip /\ u.attrs = a
    BY <2>2 DEF TuneRecords, SameStage, SamePanel
  <2> HIDE DEF u
  <2> QED
    BY <1>2, <2>3, <2>4, RestyledIs DEF a, SameStage, SamePanel
<1> QED
  BY <1>1, <1>2

\* What is seen of a page depends on the shown variant, the declared knobs and the look.
LEMMA SeenAlike ==
  ASSUME NEW t, NEW r, r.visible = t.visible, r.knobs = t.knobs, SameLook(t, r)
  PROVE  /\ ShownValues(r) = ShownValues(t)
         /\ AttrsDeclared(r) <=> AttrsDeclared(t)
         /\ PanelFits(t) /\ (SamePanel(t, r) \/ ~r.panel) => PanelFits(r)
         /\ Bare(t) /\ (SamePanel(t, r) \/ ~r.panel) => Bare(r)
<1>1. ShownValues(r) = ShownValues(t)
  BY DEF SameLook, ShownValues
<1>2. AttrsDeclared(r) <=> AttrsDeclared(t)
  BY DEF SameLook, AttrsDeclared
<1>3. PanelFits(t) /\ (SamePanel(t, r) \/ ~r.panel) => PanelFits(r)
  BY DEF SameLook, SamePanel, PanelFits, Element
<1>4. Bare(t) /\ (SamePanel(t, r) \/ ~r.panel) => Bare(r)
  BY DEF SameLook, SamePanel, Bare
<1> QED
  BY <1>1, <1>2, <1>3, <1>4

\* Values of which those with steps come from one function and the others from another.
LEMMA SplitIs ==
  ASSUME NEW f \in Values, NEW g \in Values, NEW h \in Values, NEW S,
         DOMAIN f \cap S = DOMAIN h \cap S, \A k \in DOMAIN h \cap S : f[k] = h[k],
         DOMAIN g = DOMAIN h \ S, \A k \in DOMAIN h \ S : g[k] = h[k]
  PROVE  Overriding(Only(f, S), g) = h
<1>1. /\ Only(f, S) \in Values /\ DOMAIN Only(f, S) = DOMAIN f \cap S
      /\ \A k \in DOMAIN f \cap S : Only(f, S)[k] = f[k]
  BY OnlyIs
<1> DEFINE a == Only(f, S)
           b == Overriding(a, g)
<1> HIDE DEF a
<1>2. /\ b \in Values /\ DOMAIN b = DOMAIN a \cup DOMAIN g
      /\ \A k \in DOMAIN a : b[k] = a[k]
      /\ \A k \in DOMAIN g \ DOMAIN a : b[k] = g[k]
  BY <1>1, OverridingIs DEF a
<1> HIDE DEF b
<1>3. DOMAIN b = DOMAIN h
  BY <1>1, <1>2 DEF a
<1>4. ASSUME NEW k \in DOMAIN h PROVE b[k] = h[k]
  BY <1>1, <1>2 DEF a
<1>5. b = h
  BY <1>2, <1>3, <1>4, SameValues
<1> QED
  BY <1>5 DEF a, b

\* The values that are seen in markup once the sheet holds the mirror.
LEMMA MarkupShows ==
  ASSUME NEW t \in TuneRecords, ~compiled,
         t.sheet = [of |-> t.visible, values |-> t.values],
         DOMAIN t.attrs[t.visible] \cap Stepped = DOMAIN t.values \cap Stepped,
         \A k \in DOMAIN t.values \cap Stepped : t.attrs[t.visible][k] = t.values[k]
  PROVE  ShownValues(t) = t.values
<1> DEFINE f == t.attrs[t.visible]
           h == t.values
           g == Only(h, Knobs \ Stepped)
<1>1. f \in Values /\ h \in Values /\ DOMAIN h \subseteq Knobs
  BY RecordIs, ValuesAre
<1>2. ShownValues(t) = Overriding(Only(f, Stepped), g)
  BY DEF ShownValues
<1>3. g \in Values /\ DOMAIN g = DOMAIN h \cap (Knobs \ Stepped)
      /\ \A k \in DOMAIN h \cap (Knobs \ Stepped) : g[k] = h[k]
  BY <1>1, OnlyIs
<1>4. DOMAIN f \cap Stepped = DOMAIN h \cap Stepped
      /\ \A k \in DOMAIN h \cap Stepped : f[k] = h[k]
  OBVIOUS
<1> HIDE DEF f, g, h
<1>5. DOMAIN h \cap (Knobs \ Stepped) = DOMAIN h \ Stepped
  BY <1>1
<1>6. Overriding(Only(f, Stepped), g) = h
  BY <1>1, <1>3, <1>4, <1>5, SplitIs
<1> QED
  BY <1>2, <1>6 DEF h

\* What is seen in markup whose sheet holds the mirror is the mirror only when the steps
\* on the element are those of the mirror.
LEMMA MarkupShown ==
  ASSUME NEW t \in TuneRecords, ~compiled, ShownValues(t) = t.values
  PROVE  /\ DOMAIN t.attrs[t.visible] \cap Stepped = DOMAIN t.values \cap Stepped
         /\ \A k \in DOMAIN t.values \cap Stepped : t.attrs[t.visible][k] = t.values[k]
<1> DEFINE f == t.attrs[t.visible]
           a == Only(f, Stepped)
           g == IF t.sheet.of = t.visible THEN Only(t.sheet.values, Knobs \ Stepped)
                ELSE Unset
<1>1. f \in Values /\ t.values \in Values /\ t.sheet.values \in Values
  BY RecordIs
<1>2. t.values = Overriding(a, g)
  BY DEF ShownValues
<1>3. a \in Values /\ DOMAIN a = DOMAIN f \cap Stepped
      /\ \A k \in DOMAIN f \cap Stepped : a[k] = f[k]
  BY <1>1, OnlyIs
<1>4. g \in Values /\ DOMAIN g \cap Stepped = {}
  BY <1>1, OnlyIs, UnsetIs
<1> DEFINE o == Overriding(a, g)
<1> HIDE DEF a, f, g
<1>5. /\ DOMAIN o = DOMAIN a \cup DOMAIN g
      /\ \A k \in DOMAIN a : o[k] = a[k]
  BY <1>3, <1>4, OverridingIs
<1> HIDE DEF o
<1>6. /\ DOMAIN f \cap Stepped = DOMAIN t.values \cap Stepped
      /\ \A k \in DOMAIN t.values \cap Stepped : f[k] = t.values[k]
  BY <1>2, <1>3, <1>4, <1>5 DEF o
<1> QED
  BY <1>6 DEF f

\* The popover is built: the defaults of the shown variant are the mirror, and are seen.
LEMMA BuiltIs ==
  ASSUME NEW t \in TuneRecords, compiled \in BOOLEAN
  PROVE  LET r == Built(t) IN
         /\ r \in TuneRecords /\ SameStage(t, r)
         /\ r.open = t.open /\ r.panel = t.panel /\ r.chip = t.chip
         /\ r.built = DOMAIN r.values /\ r.held
         /\ t.visible # 0 /\ AttrsDeclared(t) =>
              AttrsDeclared(r) /\ ShownValues(r) = r.values
         /\ ~compiled /\ AttrsDeclared(t) => AttrsDeclared(r)
<1> DEFINE d == [k \in Params(t) |-> Default]
           u == [t EXCEPT !.values = d, !.built = Params(t), !.held = TRUE]
           r == Painted(u, d)
<1>1. Built(t) = r
  BY DEF Built
<1>2. /\ Params(t) \subseteq Knobs /\ t.visible \in 0..Planned
      /\ t.attrs \in [0..Planned -> Values] /\ t.knobs \in [Numbers -> SUBSET Knobs]
  BY RecordIs
<1>3. d \in Values
  BY <1>2, DefaultsAre
<1>4. DOMAIN d = Params(t) /\ \A k \in Params(t) : d[k] = Default
  OBVIOUS
<1> HIDE DEF d
<1>5. /\ u \in TuneRecords /\ SameStage(t, u)
      /\ u.open = t.open /\ u.panel = t.panel /\ u.chip = t.chip
      /\ u.values = d /\ u.built = Params(t) /\ u.held
      /\ u.attrs = t.attrs
  BY <1>2, <1>3 DEF TuneRecords, SameStage
<1> HIDE DEF u
<1>6. /\ r \in TuneRecords /\ SameStage(u, r) /\ SamePanel(u, r)
      /\ r.values = u.values /\ r.chip = u.chip
      /\ compiled => r.attrs = [u.attrs EXCEPT ![0] = Overriding(d, @)]
      /\ ~compiled =>
           /\ r.attrs = [u.attrs EXCEPT ![u.visible] = Overriding(Only(d, Stepped), @)]
           /\ r.sheet = [of |-> u.visible, values |-> u.values]
  BY <1>3, <1>5, PaintedIs
<1> HIDE DEF r
<1>7. /\ SameStage(t, r) /\ r.visible = t.visible /\ r.knobs = t.knobs
      /\ r.open = t.open /\ r.panel = t.panel /\ r.chip = t.chip
      /\ r.built = DOMAIN r.values /\ r.held /\ r.values = d
  BY <1>4, <1>5, <1>6 DEF SameStage, SamePanel
<1>8. 0 \in 0..Planned
  BY TuneAssumption
<1>9. ASSUME compiled, t.visible # 0, AttrsDeclared(t)
      PROVE  AttrsDeclared(r) /\ ShownValues(r) = r.values
  <2> DEFINE o == Overriding(d, t.attrs[0])
  <2>1. t.attrs[0] \in Values /\ DOMAIN t.attrs[0] \subseteq Params(t)
    BY <1>2, <1>8, <1>9 DEF AttrsDeclared, Params
  <2>2. o \in Values /\ DOMAIN o = DOMAIN d \cup DOMAIN t.attrs[0]
        /\ \A k \in DOMAIN d : o[k] = d[k]
    BY <1>3, <2>1, OverridingIs
  <2>3. r.attrs[0] = o
    BY <1>2, <1>5, <1>6, <1>8, <1>9
  <2> HIDE DEF o
  <2>4. o = d
    BY <1>3, <1>4, <2>1, <2>2, SameValues
  <2>5. ShownValues(r) = r.values
    BY <1>7, <1>9, <2>3, <2>4 DEF ShownValues
  <2>6. AttrsDeclared(r)
    BY <1>4, <1>7, <1>9, <2>3, <2>4 DEF AttrsDeclared, Params
  <2> QED
    BY <2>5, <2>6
<1>10. ASSUME ~compiled, AttrsDeclared(t)
       PROVE  AttrsDeclared(r) /\ (t.visible # 0 => ShownValues(r) = r.values)
  <2> DEFINE s == Only(d, Stepped)
             a == t.attrs[t.visible]
             o == Overriding(s, a)
  <2>1. a \in Values
    BY <1>2
  <2>2. s \in Values /\ DOMAIN s = Params(t) \cap Stepped
        /\ \A k \in Params(t) \cap Stepped : s[k] = d[k]
    BY <1>3, <1>4, OnlyIs
  <2> HIDE DEF s
  <2>3. o \in Values /\ DOMAIN o = DOMAIN s \cup DOMAIN a
        /\ \A k \in DOMAIN s : o[k] = s[k]
    BY <2>1, <2>2, OverridingIs
  <2>4. r.attrs = [t.attrs EXCEPT ![t.visible] = o]
    BY <1>5, <1>6, <1>10 DEF s, SameStage
  <2>5. r.sheet = [of |-> r.visible, values |-> r.values]
    BY <1>5, <1>6, <1>7, <1>10 DEF SameStage
  <2> HIDE DEF o
  <2>6. r.attrs[r.visible] = o
    BY <1>2, <1>7, <2>4
  <2>7. \A v \in Numbers : v # t.visible => r.attrs[v] = t.attrs[v]
    BY <1>2, <2>4 DEF Numbers
  <2>8. ASSUME t.visible # 0
        PROVE  t.visible \in Numbers /\ DOMAIN a \subseteq Params(t) \cap Stepped
    <3>1. t.visible \in Numbers
      BY <1>2, <2>8, TuneAssumption DEF Numbers
    <3> QED
      BY <1>10, <2>8, <3>1 DEF AttrsDeclared, Params
  <2>9. ASSUME t.visible # 0
        PROVE  DOMAIN o = Params(t) \cap Stepped
    BY <2>2, <2>3, <2>8, <2>9
  <2>10. AttrsDeclared(r)
    <3>1. ASSUME NEW v \in Numbers
          PROVE  DOMAIN r.attrs[v] \subseteq r.knobs[v] \cap Stepped
      <4>1. CASE v # t.visible
        BY <1>7, <1>10, <2>7, <4>1 DEF AttrsDeclared
      <4>2. CASE v = t.visible
        <5>1. t.visible # 0
          BY <4>2, TuneAssumption DEF Numbers
        <5> QED
          BY <1>7, <2>6, <2>9, <4>2, <5>1 DEF Params
      <4> QED
        BY <4>1, <4>2
    <3> QED
      BY <1>10, <3>1 DEF AttrsDeclared
  <2>11. ASSUME t.visible # 0
         PROVE  ShownValues(r) = r.values
    <3>1. DOMAIN r.attrs[r.visible] \cap Stepped = DOMAIN r.values \cap Stepped
      BY <1>4, <1>7, <2>6, <2>9, <2>11
    <3>2. \A k \in DOMAIN r.values \cap Stepped : r.attrs[r.visible][k] = r.values[k]
      BY <1>4, <1>7, <2>2, <2>3, <2>6
    <3> QED
      BY <1>6, <1>10, <2>5, <3>1, <3>2, MarkupShows
  <2> QED
    BY <2>10, <2>11
<1> QED
  BY <1>1, <1>6, <1>7, <1>9, <1>10

LEMMA RefreshedIs ==
  ASSUME NEW t \in TuneRecords, compiled \in BOOLEAN
  PROVE  LET r == Refreshed(t) IN
         /\ r \in TuneRecords /\ SameStage(t, r) /\ r.chip = t.chip
         /\ r.panel => r.open
         /\ PanelFits(r)
         /\ t.live # "CYCLING" =>
              ~r.panel /\ r.values = Unset /\ r.attrs = t.attrs /\ r.sheet = t.sheet
         /\ ~compiled /\ AttrsDeclared(t) => AttrsDeclared(r)
         /\ t.live = "CYCLING" /\ t.visible # 0 /\ AttrsDeclared(t) =>
              AttrsDeclared(r) /\ ShownValues(r) = r.values
<1> DEFINE u == [t EXCEPT !.values = Unset]
<1>0. /\ u \in TuneRecords /\ SameStage(t, u) /\ u.chip = t.chip
      /\ u.values = Unset /\ u.attrs = t.attrs /\ u.sheet = t.sheet
  BY UnsetIs DEF TuneRecords, SameStage
<1> HIDE DEF u
<1> DEFINE c == Closed(u)
<1>1. /\ c \in TuneRecords /\ SameStage(t, c) /\ c.chip = t.chip /\ ~c.panel /\ ~c.open
      /\ c.values = Unset /\ c.attrs = t.attrs /\ c.sheet = t.sheet
  BY <1>0, ClosedIs DEF SameStage, SameLook
<1> HIDE DEF c
<1>2. CASE t.live # "CYCLING"
  <2>1. Refreshed(t) = c
    BY <1>2 DEF Refreshed, c, u
  <2>2. PanelFits(c)
    BY <1>1 DEF PanelFits
  <2>3. AttrsDeclared(t) => AttrsDeclared(c)
    BY <1>1 DEF AttrsDeclared, SameStage
  <2> QED
    BY <1>1, <1>2, <2>1, <2>2, <2>3
<1>3. CASE t.live = "CYCLING" /\ Params(t) = {}
  <2> DEFINE r == Restyled(c)
  <2>1. Refreshed(t) = r
    BY <1>3 DEF Refreshed, c, u
  <2>2. /\ r \in TuneRecords /\ SameStage(t, r) /\ r.chip = t.chip /\ ~r.panel /\ ~r.open
        /\ r.values = Unset /\ r.attrs = t.attrs
        /\ r.sheet = [of |-> r.visible, values |-> r.values]
    BY <1>1, RestyledIs DEF SameStage, SamePanel
  <2> HIDE DEF r
  <2>3. PanelFits(r)
    BY <2>2 DEF PanelFits
  <2>4. AttrsDeclared(t) => AttrsDeclared(r)
    BY <2>2 DEF AttrsDeclared, SameStage
  <2>5. ASSUME t.visible # 0, AttrsDeclared(t)
        PROVE  ShownValues(r) = r.values
    <3>1. /\ t.knobs[t.visible] = {} /\ r.visible = t.visible /\ t.visible \in 0..Planned
          /\ t.visible \in Numbers /\ t.attrs \in [0..Planned -> Values] /\ 0 \in 0..Planned
      BY <1>3, <2>2, <2>5, RecordIs, TuneAssumption DEF Params, SameStage, Numbers
    <3>2. CASE compiled
      <4>1. DOMAIN t.attrs[0] = {} /\ t.attrs[0] \in Values
        BY <2>5, <3>1, <3>2 DEF AttrsDeclared
      <4> QED
        BY <2>2, <3>2, <4>1, UnsetIs DEF ShownValues
    <3>3. CASE ~compiled
      <4>1. DOMAIN r.attrs[r.visible] = {}
        BY <2>2, <2>5, <3>1, <3>3 DEF AttrsDeclared
      <4>2. DOMAIN r.values = {}
        BY <2>2, UnsetIs
      <4> QED
        BY <2>2, <3>3, <4>1, <4>2, MarkupShows
    <3> QED
      BY <3>2, <3>3
  <2> QED
    BY <1>3, <2>1, <2>2, <2>3, <2>4, <2>5
<1>4. CASE t.live = "CYCLING" /\ Params(t) # {}
  <2> DEFINE b == Built(t)
             r == [b EXCEPT !.panel = t.open]
  <2>1. Refreshed(t) = r
    BY <1>4 DEF Refreshed
  <2>2. /\ b \in TuneRecords /\ SameStage(t, b) /\ b.open = t.open /\ b.chip = t.chip
        /\ b.built = DOMAIN b.values /\ b.held
        /\ t.visible # 0 /\ AttrsDeclared(t) =>
             AttrsDeclared(b) /\ ShownValues(b) = b.values
        /\ ~compiled /\ AttrsDeclared(t) => AttrsDeclared(b)
    BY BuiltIs
  <2>3. t.open \in BOOLEAN
    BY RecordIs
  <2> HIDE DEF b
  <2>4. /\ r \in TuneRecords /\ SameStage(t, r) /\ r.chip = t.chip
        /\ r.panel = r.open /\ r.built = DOMAIN r.values /\ r.held
        /\ SameLook(b, r) /\ r.visible = b.visible /\ r.knobs = b.knobs
    BY <2>2, <2>3 DEF TuneRecords, SameStage, SameLook
  <2> HIDE DEF r
  <2>5. PanelFits(r)
    BY <2>4 DEF PanelFits
  <2>6. /\ ShownValues(r) = ShownValues(b) /\ r.values = b.values
        /\ AttrsDeclared(r) <=> AttrsDeclared(b)
    BY <2>4, SeenAlike DEF SameLook
  <2> QED
    BY <1>4, <2>1, <2>2, <2>4, <2>5, <2>6
<1> QED
  BY <1>2, <1>3, <1>4

\* The chip is shown while variants can be compared, and spins while knobs are awaited.
ChipFits(t) ==
  /\ t.chip # "none" => t.live = "CYCLING"
  /\ t.chip = "spins" => t.phase \in Waiting

LEMMA CompletedIs ==
  ASSUME NEW t \in TuneRecords, compiled \in BOOLEAN
  PROVE  LET r == Completed(t) IN
         /\ r \in TuneRecords /\ r.live = t.live /\ r.arrived = t.arrived
         /\ r.visible = t.visible /\ r.knobs = t.knobs
         /\ r.phase \notin Waiting
         /\ (t.panel => t.open) => (r.panel => r.open)
         /\ ChipFits(t) => ChipFits(r)
         /\ t.live # "CYCLING" => SameLook(t, r) /\ SamePanel(t, r)
         /\ PanelFits(t) => PanelFits(r)
         /\ ~compiled /\ AttrsDeclared(t) => AttrsDeclared(r)
         /\ t.live = "CYCLING" /\ t.visible # 0 /\ AttrsDeclared(t) =>
              AttrsDeclared(r) /\ ShownValues(r) = r.values
<1> DEFINE u == [t EXCEPT !.phase = IF \E v \in 1..t.arrived : t.knobs[v] # {}
                                    THEN "ready" ELSE "none"]
<1>1. /\ u \in TuneRecords /\ u.live = t.live /\ u.arrived = t.arrived
      /\ u.visible = t.visible /\ u.knobs = t.knobs /\ u.phase \notin Waiting
      /\ SameLook(t, u) /\ SamePanel(t, u) /\ u.chip = t.chip
  BY DEF TuneRecords, SameLook, SamePanel, Phases, Waiting
<1>2. Completed(t) = Saved(IF t.live = "CYCLING" THEN Barred(Refreshed(u)) ELSE u)
  BY <1>1 DEF Completed
<1> HIDE DEF u
<1>3. CASE t.live # "CYCLING"
  <2> DEFINE r == Saved(u)
  <2>1. /\ r \in TuneRecords /\ r.live = t.live /\ r.arrived = t.arrived
        /\ r.visible = t.visible /\ r.knobs = t.knobs /\ r.phase \notin Waiting
        /\ SameLook(t, r) /\ SamePanel(t, r) /\ r.chip = t.chip
    BY <1>1, SavedIs DEF SameStage, SameLook, SamePanel
  <2>2. Completed(t) = r
    BY <1>2, <1>3
  <2> HIDE DEF r
  <2>3. (t.panel => t.open) => (r.panel => r.open)
    BY <2>1 DEF SamePanel
  <2>4. ChipFits(t) => ChipFits(r)
    BY <1>3, <2>1 DEF ChipFits
  <2>5. /\ PanelFits(t) => PanelFits(r)
        /\ AttrsDeclared(r) <=> AttrsDeclared(t)
    BY <2>1, SeenAlike
  <2> QED
    BY <1>3, <2>1, <2>2, <2>3, <2>4, <2>5
<1>4. CASE t.live = "CYCLING"
  <2> DEFINE f == Refreshed(u)
             b == Barred(f)
             r == Saved(b)
  <2>1. Completed(t) = r
    BY <1>2, <1>4
  <2>2. AttrsDeclared(u) <=> AttrsDeclared(t)
    BY <1>1, SeenAlike
  <2>3. /\ f \in TuneRecords /\ SameStage(u, f)
        /\ f.panel => f.open
        /\ PanelFits(f)
        /\ ~compiled /\ AttrsDeclared(t) => AttrsDeclared(f)
        /\ t.visible # 0 /\ AttrsDeclared(t) => AttrsDeclared(f) /\ ShownValues(f) = f.values
    BY <1>1, <1>4, <2>2, RefreshedIs
  <2> HIDE DEF f
  <2>4. /\ b \in TuneRecords /\ SameStage(f, b) /\ SamePanel(f, b) /\ SameLook(f, b)
        /\ b.chip = "spins" => b.phase \in Waiting
    BY <2>3, BarredIs
  <2> HIDE DEF b
  <2>5. /\ r \in TuneRecords /\ SameStage(b, r) /\ SamePanel(b, r) /\ SameLook(b, r)
        /\ r.chip = b.chip
    BY <2>4, SavedIs
  <2> HIDE DEF r
  <2>6. /\ r.live = t.live /\ r.arrived = t.arrived /\ r.visible = t.visible
        /\ r.knobs = t.knobs /\ r.phase \notin Waiting /\ r.visible = f.visible
        /\ r.knobs = f.knobs /\ (r.chip = "spins" => r.phase \in Waiting)
    BY <1>1, <2>3, <2>4, <2>5 DEF SameStage
  <2>7. SameLook(f, r) /\ SamePanel(f, r)
    BY <2>4, <2>5 DEF SameLook, SamePanel
  <2>8. /\ ShownValues(r) = ShownValues(f) /\ r.values = f.values
        /\ AttrsDeclared(r) <=> AttrsDeclared(f)
        /\ PanelFits(r)
    BY <2>3, <2>6, <2>7, SeenAlike DEF SameLook
  <2>9. r.panel => r.open
    BY <2>3, <2>7 DEF SamePanel
  <2>10. ChipFits(r)
    BY <1>4, <2>6 DEF ChipFits
  <2> QED
    BY <1>4, <2>1, <2>3, <2>5, <2>6, <2>8, <2>9, <2>10
<1> QED
  BY <1>3, <1>4

\* What is complete is complete, and otherwise knobs are still awaited of some variant.
LEMMA CompletedIfReadyIs ==
  ASSUME NEW t \in TuneRecords, compiled \in BOOLEAN
  PROVE  LET r == CompletedIfReady(t) IN
         /\ r \in TuneRecords /\ r.live = t.live /\ r.arrived = t.arrived
         /\ r.visible = t.visible /\ r.knobs = t.knobs
         /\ r.phase \in Waiting => r.phase = t.phase /\ t.arrived # Planned
         /\ (t.panel => t.open) => (r.panel => r.open)
         /\ ChipFits(t) => ChipFits(r)
         /\ t.live # "CYCLING" => SameLook(t, r) /\ SamePanel(t, r)
         /\ PanelFits(t) => PanelFits(r)
         /\ ~compiled /\ AttrsDeclared(t) => AttrsDeclared(r)
         /\ t.live = "CYCLING" /\ t.visible # 0 /\ AttrsDeclared(t) => AttrsDeclared(r)
         /\ t.live = "CYCLING" /\ t.visible # 0 /\ AttrsDeclared(t)
              /\ ShownValues(t) = t.values =>
              AttrsDeclared(r) /\ ShownValues(r) = r.values
<1>1. CASE t.arrived >= Planned /\ t.phase \in Waiting
  <2>1. CompletedIfReady(t) = Completed(t)
    BY <1>1 DEF CompletedIfReady
  <2> QED
    BY <2>1, CompletedIs
<1>2. CASE ~(t.arrived >= Planned /\ t.phase \in Waiting)
  <2>1. CompletedIfReady(t) = t
    BY <1>2 DEF CompletedIfReady
  <2>2. t.phase \in Waiting => t.arrived # Planned
    BY <1>2, TuneAssumption
  <2> QED
    BY <2>1, <2>2 DEF SameLook, SamePanel
<1> QED
  BY <1>1, <1>2

-----------------------------------------------------------------------------
\* What MirrorInv asks of a page, a selection and an accept.
MirrorOf(t, fb, sent) ==
  /\ t.live \notin Tuning => Bare(t)
  /\ PanelFits(t)
  /\ ~compiled \/ (fb = 0 /\ t.live \in Tuning) => AttrsDeclared(t)
  /\ fb = 0 /\ t.live \in Tuning => ShownValues(t) = t.values
  /\ t.live = "SAVING" => sent = [variant |-> t.visible, values |-> t.values]

LEMMA MirrorIs ==
  ASSUME compiled' = compiled
  PROVE  /\ MirrorInv <=> MirrorOf(tune, fallback, sentAccept)
         /\ MirrorInv' <=> MirrorOf(tune', fallback', sentAccept')
<1>1. MirrorInv <=> MirrorOf(tune, fallback, sentAccept)
  BY DEF MirrorInv, MirrorOf
<1>2. /\ AttrsDeclared(tune)' <=> AttrsDeclared(tune')
      /\ ShownValues(tune)' = ShownValues(tune')
      /\ PanelFits(tune)' <=> PanelFits(tune')
      /\ Bare(tune)' <=> Bare(tune')
  BY DEF AttrsDeclared, ShownValues, PanelFits, Bare, Element
<1>3. MirrorInv' <=> MirrorOf(tune', fallback', sentAccept')
  BY <1>2 DEF MirrorInv, MirrorOf
<1> QED
  BY <1>1, <1>3

\* What looks the same, with its panel or without one, is as much in agreement.
LEMMA MirrorKept ==
  ASSUME NEW t, NEW r, NEW fb, NEW sent, MirrorOf(t, fb, sent),
         r.live = t.live, r.visible = t.visible, r.knobs = t.knobs,
         SameLook(t, r), SamePanel(t, r) \/ ~r.panel
  PROVE  MirrorOf(r, fb, sent)
<1>1. /\ ShownValues(r) = ShownValues(t)
      /\ AttrsDeclared(r) <=> AttrsDeclared(t)
      /\ PanelFits(t) => PanelFits(r)
      /\ Bare(t) => Bare(r)
  BY SeenAlike
<1> QED
  BY <1>1 DEF MirrorOf, SameLook

\* The invariant, unfolded.
LEMMA InvIs ==
  ASSUME TuneInv
  PROVE  /\ compiled \in BOOLEAN /\ tune \in TuneRecords /\ tune.visible <= tune.arrived
         /\ tune.panel => tune.open
         /\ ChipFits(tune)
         /\ ~outdated => MirrorOf(tune, fallback, sentAccept)
         /\ outdated \in BOOLEAN
         /\ tune.visible \in 0..Planned /\ tune.arrived \in 0..Planned
         /\ fallback \in 0..Planned /\ tune.knobs \in [Numbers -> SUBSET Knobs]
<1>1. MirrorInv <=> MirrorOf(tune, fallback, sentAccept)
  BY DEF MirrorInv, MirrorOf
<1>2. tune \in TuneRecords
  BY DEF TuneInv, TuneTypeOK
<1> QED
  BY <1>1, <1>2, RecordIs DEF TuneInv, TuneTypeOK, ChipInv, ChipFits

\* A step that leaves the session where it is.
LEMMA StageStays ==
  ASSUME TuneInv, UNCHANGED <<compiled, selectionVars, sentAccept, endVars>>,
         outdated' \in BOOLEAN, tune' \in TuneRecords, SameStage(tune, tune'),
         tune'.panel => tune'.open, ChipFits(tune'),
         ~outdated' => MirrorOf(tune', fallback, sentAccept)
  PROVE  TuneInv'
<1>1. TuneTypeOK'
  BY DEF TuneInv, TuneTypeOK, SameStage, selectionVars, endVars
<1>2. SelectionInv'
  BY DEF TuneInv, SelectionInv, SameStage, selectionVars
<1>3. ChipInv'
  BY DEF TuneInv, ChipInv, ChipFits, SameStage, endVars
<1>4. ~outdated' => MirrorInv'
  BY MirrorIs DEF selectionVars
<1> QED
  BY <1>1, <1>2, <1>3, <1>4 DEF TuneInv

LEMMA ToggleTuneKeeps ==
  ASSUME TuneInv, ToggleTune
  PROVE  TuneInv'
<1>1. /\ UNCHANGED <<compiled, selectionVars, sentAccept, endVars, outdated>>
      /\ tune.live = "CYCLING"
  BY DEF ToggleTune
<1>2. CASE tune.open
  <2> DEFINE c == Closed(tune)
  <2>1. tune' = Barred(c)
    BY <1>2 DEF ToggleTune
  <2>2. /\ c \in TuneRecords /\ SameStage(tune, c) /\ SameLook(tune, c) /\ ~c.panel
    BY InvIs, ClosedIs
  <2> HIDE DEF c
  <2>3. /\ tune' \in TuneRecords /\ SameStage(c, tune') /\ SamePanel(c, tune')
        /\ SameLook(c, tune')
        /\ tune'.chip = "spins" => tune'.phase \in Waiting
    BY <2>1, <2>2, BarredIs
  <2>4. /\ SameStage(tune, tune') /\ SameLook(tune, tune') /\ ~tune'.panel
    BY <2>2, <2>3 DEF SameStage, SameLook, SamePanel
  <2>5. ~outdated' => MirrorOf(tune', fallback, sentAccept)
    BY <1>1, <2>4, InvIs, MirrorKept DEF SameStage
  <2>6. ChipFits(tune')
    BY <1>1, <2>3, <2>4 DEF ChipFits, SameStage
  <2> QED
    BY <1>1, <2>3, <2>4, <2>5, <2>6, InvIs, StageStays
<1>3. CASE ~tune.open /\ Params(tune) = {}
  <2>1. tune' = tune
    BY <1>3 DEF ToggleTune
  <2> QED
    BY <1>1, <2>1, InvIs, StageStays DEF SameStage
<1>4. CASE ~tune.open /\ Params(tune) # {}
  <2> DEFINE b == Built(tune)
             o == [b EXCEPT !.open = TRUE, !.panel = TRUE]
  <2>1. tune' = Barred(o)
    BY <1>4 DEF ToggleTune
  <2>2. /\ b \in TuneRecords /\ SameStage(tune, b)
        /\ b.built = DOMAIN b.values /\ b.held
        /\ tune.visible # 0 /\ AttrsDeclared(tune) =>
             AttrsDeclared(b) /\ ShownValues(b) = b.values
        /\ ~compiled /\ AttrsDeclared(tune) => AttrsDeclared(b)
    BY InvIs, BuiltIs
  <2> HIDE DEF b
  <2>3. /\ o \in TuneRecords /\ SameStage(tune, o) /\ SameLook(b, o)
        /\ o.open /\ o.panel /\ o.built = DOMAIN o.values /\ o.held
        /\ o.visible = b.visible /\ o.knobs = b.knobs
    BY <2>2 DEF TuneRecords, SameStage, SameLook
  <2> HIDE DEF o
  <2>4. /\ tune' \in TuneRecords /\ SameStage(o, tune') /\ SamePanel(o, tune')
        /\ SameLook(o, tune')
        /\ tune'.chip = "spins" => tune'.phase \in Waiting
    BY <2>1, <2>3, BarredIs
  <2>5. /\ SameStage(tune, tune') /\ SameLook(b, tune') /\ tune'.open /\ tune'.panel
        /\ tune'.built = DOMAIN tune'.values /\ tune'.held
        /\ tune'.visible = b.visible /\ tune'.knobs = b.knobs
    BY <2>3, <2>4 DEF SameStage, SameLook, SamePanel
  <2>6. ChipFits(tune')
    BY <1>1, <2>4, <2>5 DEF ChipFits, SameStage
  <2>7. ASSUME ~outdated'
        PROVE  MirrorOf(tune', fallback, sentAccept)
    <3>1. MirrorOf(tune, fallback, sentAccept)
      BY <1>1, <2>7, InvIs
    <3>2. PanelFits(tune')
      BY <2>5 DEF PanelFits
    <3>3. /\ AttrsDeclared(tune') <=> AttrsDeclared(b)
          /\ ShownValues(tune') = ShownValues(b) /\ tune'.values = b.values
      BY <2>5, SeenAlike DEF SameLook
    <3>4. tune.visible # 0 /\ tune.live \in Tuning
      BY <1>1 DEF TuneInv, SelectionInv, Tuning
    <3>5. tune'.live = "CYCLING"
      BY <1>1, <2>5 DEF SameStage
    <3> QED
      BY <2>2, <3>1, <3>2, <3>3, <3>4, <3>5 DEF MirrorOf, Tuning
  <2> QED
    BY <1>1, <2>4, <2>5, <2>6, <2>7, InvIs, StageStays
<1> QED
  BY <1>2, <1>3, <1>4

LEMMA CloseTuneKeeps ==
  ASSUME TuneInv, CloseTune
  PROVE  TuneInv'
<1>1. UNCHANGED <<compiled, selectionVars, sentAccept, endVars, outdated>>
  BY DEF CloseTune
<1> DEFINE c == Closed(tune)
<1>2. tune' = IF tune.live = "CYCLING" THEN Barred(c) ELSE c
  BY DEF CloseTune
<1>3. /\ c \in TuneRecords /\ SameStage(tune, c) /\ SameLook(tune, c) /\ ~c.panel
      /\ c.chip = tune.chip
  BY InvIs, ClosedIs
<1> HIDE DEF c
<1>4. /\ Barred(c) \in TuneRecords /\ SameStage(c, Barred(c)) /\ SamePanel(c, Barred(c))
      /\ SameLook(c, Barred(c))
      /\ Barred(c).chip = "spins" => Barred(c).phase \in Waiting
  BY <1>3, BarredIs
<1>5. /\ tune' \in TuneRecords /\ SameStage(tune, tune') /\ SameLook(tune, tune')
      /\ ~tune'.panel
      /\ tune.live # "CYCLING" => tune'.chip = tune.chip
      /\ tune.live = "CYCLING" /\ tune'.chip = "spins" => tune'.phase \in Waiting
  BY <1>2, <1>3, <1>4 DEF SameStage, SameLook, SamePanel
<1>6. ~outdated' => MirrorOf(tune', fallback, sentAccept)
  BY <1>1, <1>5, InvIs, MirrorKept DEF SameStage
<1>7. ChipFits(tune')
  BY <1>5, InvIs DEF ChipFits, SameStage
<1> QED
  BY <1>1, <1>5, <1>6, <1>7, InvIs, StageStays

LEMMA PhaseHeardKeeps ==
  ASSUME TuneInv, PhaseHeard
  PROVE  TuneInv'
<1>1. UNCHANGED <<compiled, selectionVars, sentAccept, endVars, outdated>>
      /\ tune.live = "CYCLING" /\ tune' = Saved(Barred(tune))
  BY DEF PhaseHeard
<1> DEFINE b == Barred(tune)
<1>2. /\ b \in TuneRecords /\ SameStage(tune, b) /\ SamePanel(tune, b) /\ SameLook(tune, b)
      /\ b.chip = "spins" => b.phase \in Waiting
  BY InvIs, BarredIs
<1> HIDE DEF b
<1>3. /\ tune' \in TuneRecords /\ SameStage(b, tune') /\ SamePanel(b, tune')
      /\ SameLook(b, tune') /\ tune'.chip = b.chip
  BY <1>1, <1>2, SavedIs DEF b
<1>4. SameStage(tune, tune') /\ SamePanel(tune, tune') /\ SameLook(tune, tune')
  BY <1>2, <1>3 DEF SameStage, SamePanel, SameLook
<1>5. ~outdated' => MirrorOf(tune', fallback, sentAccept)
  BY <1>1, <1>4, InvIs, MirrorKept DEF SameStage
<1>6. ChipFits(tune')
  BY <1>1, <1>2, <1>3, <1>4 DEF ChipFits, SameStage
<1>7. tune'.panel => tune'.open
  BY <1>4, InvIs DEF SamePanel
<1> QED
  BY <1>1, <1>3, <1>4, <1>5, <1>6, <1>7, InvIs, StageStays

\* The element of the variant is new, and what is seen is compared with the mirror.
LEMMA ElementReplacedKeeps ==
  ASSUME TuneInv, ElementReplaced
  PROVE  TuneInv'
<1> DEFINE a == [tune.attrs EXCEPT ![tune.visible] = Unset]
<1>1. /\ UNCHANGED <<compiled, selectionVars, sentAccept, endVars>>
      /\ tune.live = "CYCLING" /\ ~compiled
      /\ outdated' = (outdated \/ ShownValues(tune') # tune.values)
  BY DEF ElementReplaced
<1>2. tune.visible \in 0..Planned /\ tune.attrs \in [0..Planned -> Values]
      /\ tune.visible # 0
  BY <1>1, InvIs, RecordIs DEF TuneInv, SelectionInv, Tuning
<1>3. a \in [0..Planned -> Values] /\ a[tune.visible] = Unset
      /\ \A v \in Numbers : v # tune.visible => a[v] = tune.attrs[v]
  BY <1>2, UnsetIs, TuneAssumption DEF Numbers
<1>4. tune' = [tune EXCEPT !.attrs = a, !.held = FALSE]
  BY InvIs DEF ElementReplaced, TuneRecords
<1> HIDE DEF a
<1>5. /\ tune' \in TuneRecords /\ SameStage(tune, tune') /\ tune'.chip = tune.chip
      /\ tune'.panel = tune.panel /\ tune'.open = tune.open /\ tune'.attrs = a
      /\ tune'.values = tune.values /\ tune'.built = tune.built
      /\ tune'.knobs = tune.knobs /\ tune'.visible = tune.visible
      /\ tune'.live = tune.live
  BY <1>3, <1>4, InvIs DEF TuneRecords, SameStage
<1>6. ChipFits(tune') /\ (tune'.panel => tune'.open)
  BY <1>5, InvIs DEF ChipFits, SameStage
<1>7. ASSUME ~outdated'
      PROVE  MirrorOf(tune', fallback, sentAccept)
  <2>1. MirrorOf(tune, fallback, sentAccept)
    BY <1>1, <1>7, InvIs
  <2>2. ShownValues(tune') = tune'.values
    BY <1>1, <1>5, <1>7
  <2>3. PanelFits(tune')
    BY <1>1, <1>3, <1>5, <2>1 DEF MirrorOf, PanelFits, Element
  <2>4. AttrsDeclared(tune')
    BY <1>1, <1>3, <1>5, <2>1, UnsetIs DEF MirrorOf, AttrsDeclared
  <2> QED
    BY <1>1, <1>5, <2>2, <2>3, <2>4 DEF MirrorOf, Tuning
<1> QED
  BY <1>1, <1>5, <1>6, <1>7, InvIs, StageStays

\* A knob is moved: the mirror has it already, and it is seen where the panel paints.
LEMMA TuneKnobKeeps ==
  ASSUME TuneInv, NEW k \in Knobs, TuneKnob(k)
  PROVE  TuneInv'
<1> DEFINE moved == [j \in {k} |-> Tuned]
           v == Overriding(moved, tune.values)
           t == [tune EXCEPT !.values = v]
<1>1. /\ UNCHANGED <<compiled, selectionVars, sentAccept, endVars>>
      /\ tune.panel /\ k \in tune.built
      /\ outdated' = (outdated \/ tune.live = "SAVING")
      /\ tune' = IF tune.held THEN Painted(t, moved) ELSE IF compiled THEN t ELSE Restyled(t)
  BY DEF TuneKnob
<1>2. moved \in Values /\ DOMAIN moved = {k} /\ moved[k] = Tuned
  BY ValuesAre
<1>3. /\ tune.values \in Values /\ tune.attrs \in [0..Planned -> Values]
      /\ 0 \in 0..Planned /\ tune.visible \in 0..Planned
  BY InvIs, RecordIs, TuneAssumption
<1> HIDE DEF moved
<1>4. /\ v \in Values /\ DOMAIN v = {k} \cup DOMAIN tune.values /\ v[k] = Tuned
      /\ \A j \in DOMAIN tune.values \ {k} : v[j] = tune.values[j]
  BY <1>2, <1>3, OverridingIs
<1> HIDE DEF v
<1>5. /\ t \in TuneRecords /\ SameStage(tune, t) /\ SamePanel(tune, t)
      /\ t.values = v /\ t.attrs = tune.attrs /\ t.chip = tune.chip
  BY <1>4, InvIs DEF TuneRecords, SameStage, SamePanel
<1> HIDE DEF t
<1>6. LET r == Painted(t, moved) IN
      /\ r \in TuneRecords /\ SameStage(t, r) /\ SamePanel(t, r)
      /\ r.values = t.values /\ r.chip = t.chip
      /\ compiled => r.attrs = [t.attrs EXCEPT ![0] = Overriding(moved, @)]
      /\ ~compiled =>
           /\ r.attrs = [t.attrs EXCEPT ![t.visible] = Overriding(Only(moved, Stepped), @)]
           /\ r.sheet = [of |-> t.visible, values |-> t.values]
  BY <1>2, <1>5, InvIs, PaintedIs
<1>7. LET r == Restyled(t) IN
      /\ r \in TuneRecords /\ SameStage(t, r) /\ SamePanel(t, r)
      /\ r.values = t.values /\ r.attrs = t.attrs /\ r.chip = t.chip
      /\ r.sheet = [of |-> t.visible, values |-> t.values]
  BY <1>5, RestyledIs
<1>8. /\ tune' \in TuneRecords /\ SameStage(t, tune') /\ SamePanel(t, tune')
      /\ tune'.values = v /\ tune'.chip = tune.chip
  BY <1>1, <1>5, <1>6, <1>7 DEF SameStage, SamePanel
<1>9. /\ SameStage(tune, tune') /\ SamePanel(tune, tune')
      /\ tune'.live = tune.live /\ tune'.visible = tune.visible
      /\ tune'.knobs = tune.knobs /\ tune'.panel = tune.panel
      /\ tune'.built = tune.built /\ tune'.held = tune.held
  BY <1>5, <1>8 DEF SameStage, SamePanel
<1>10. ChipFits(tune') /\ (tune'.panel => tune'.open)
  BY <1>8, <1>9, InvIs DEF ChipFits, SameStage, SamePanel
<1>11. ASSUME ~outdated'
       PROVE  MirrorOf(tune', fallback, sentAccept)
  <2>1. MirrorOf(tune, fallback, sentAccept) /\ tune.live # "SAVING"
    BY <1>1, <1>11, InvIs
  <2>2. tune.live = "CYCLING"
    BY <1>1, <2>1 DEF MirrorOf, Bare, Tuning
  <2>3. /\ tune.built = DOMAIN tune.values
        /\ tune.held \/ tune.attrs[Element(tune)] = Unset
    BY <1>1, <2>1 DEF MirrorOf, PanelFits
  <2>4. DOMAIN v = DOMAIN tune.values /\ k \in DOMAIN tune.values
    BY <1>1, <1>4, <2>3
  <2>5. tune.visible # 0 /\ tune.visible \in Numbers
    BY <1>3, <2>2, TuneAssumption DEF TuneInv, SelectionInv, Tuning, Numbers
  <2>6. CASE compiled
    <3>1. PanelFits(tune')
      <4>1. CASE tune.held
        BY <1>8, <1>9, <2>3, <2>4, <4>1 DEF PanelFits
      <4>2. CASE ~tune.held
        <5>1. tune'.attrs = tune.attrs
          BY <1>1, <1>5, <2>6, <4>2
        <5> QED
          BY <1>8, <1>9, <2>3, <2>4, <4>2, <5>1 DEF PanelFits, Element
      <4> QED
        BY <4>1, <4>2
    <3>2. ASSUME fallback = 0
          PROVE  AttrsDeclared(tune') /\ ShownValues(tune') = tune'.values
      <4>1. /\ tune.attrs[0] = tune.values
            /\ DOMAIN tune.attrs[0] \subseteq tune.knobs[tune.visible]
        BY <2>1, <2>2, <2>6, <3>2 DEF MirrorOf, Tuning, ShownValues, AttrsDeclared
      <4>2. tune.held
        BY <2>3, <2>4, <2>6, <4>1, UnsetIs DEF Element
      <4>3. tune'.attrs = [tune.attrs EXCEPT ![0] = Overriding(moved, @)]
        BY <1>1, <1>5, <1>6, <2>6, <4>2
      <4>4. tune'.attrs[0] = v
        BY <1>3, <4>1, <4>3 DEF v
      <4> QED
        BY <1>8, <1>9, <2>4, <2>6, <4>1, <4>4 DEF AttrsDeclared, ShownValues
    <3> QED
      BY <1>9, <2>2, <2>6, <3>1, <3>2 DEF MirrorOf, Tuning
  <2>7. CASE ~compiled
    <3>1. fallback = 0
      BY <2>7 DEF TuneInv, SelectionInv
    <3> DEFINE a == tune.attrs[tune.visible]
               b == tune'.attrs[tune.visible]
    <3>2. /\ DOMAIN a \cap Stepped = DOMAIN tune.values \cap Stepped
          /\ \A j \in DOMAIN tune.values \cap Stepped : a[j] = tune.values[j]
      BY <2>1, <2>2, <2>7, <3>1, InvIs, MarkupShown DEF MirrorOf, Tuning
    <3>3. a \in Values /\ DOMAIN a \subseteq tune.knobs[tune.visible] \cap Stepped
      BY <1>3, <2>1, <2>5, <2>7 DEF MirrorOf, AttrsDeclared
    <3>4. tune'.sheet = [of |-> tune.visible, values |-> v]
      BY <1>1, <1>5, <1>6, <1>7, <2>7 DEF SameStage
    <3>5. \A n \in Numbers \ {tune.visible} : tune'.attrs[n] = tune.attrs[n]
      <4>1. CASE tune.held
        <5> DEFINE o == Overriding(Only(moved, Stepped), a)
        <5>1. tune'.attrs = [tune.attrs EXCEPT ![tune.visible] = o]
          BY <1>1, <1>5, <1>6, <2>7, <4>1 DEF SameStage
        <5>2. Numbers \subseteq 0..Planned
          BY TuneAssumption DEF Numbers
        <5> HIDE DEF o
        <5> QED
          BY <1>3, <5>1, <5>2
      <4>2. CASE ~tune.held
        BY <1>1, <1>5, <1>7, <2>7, <4>2
      <4> QED
        BY <4>1, <4>2
    <3>6. /\ DOMAIN b = DOMAIN a
          /\ \A j \in DOMAIN v \cap Stepped : b[j] = v[j]
          /\ tune.held \/ b = Unset
      <4>1. CASE tune.held
        <5> DEFINE s == Only(moved, Stepped)
                   o == Overriding(s, a)
        <5>1. b = o
          BY <1>1, <1>3, <1>5, <1>6, <2>7, <4>1 DEF SameStage
        <5>2. /\ s \in Values /\ DOMAIN s = {k} \cap Stepped
              /\ \A j \in {k} \cap Stepped : s[j] = moved[j]
          BY <1>2, OnlyIs
        <5> HIDE DEF s, a, b
        <5>3. /\ DOMAIN o = DOMAIN s \cup DOMAIN a
              /\ \A j \in DOMAIN s : o[j] = s[j]
              /\ \A j \in DOMAIN a \ DOMAIN s : o[j] = a[j]
          BY <3>3, <5>2, OverridingIs DEF a
        <5> HIDE DEF o
        <5>4. DOMAIN b = DOMAIN a
          BY <2>4, <3>2, <5>1, <5>2, <5>3
        <5>5. ASSUME NEW j \in DOMAIN v \cap Stepped
              PROVE  b[j] = v[j]
          <6>1. CASE j = k
            BY <1>2, <1>4, <5>1, <5>2, <5>3, <6>1
          <6>2. CASE j # k
            BY <1>4, <2>4, <3>2, <5>1, <5>2, <5>3, <6>2 DEF a
          <6> QED
            BY <6>1, <6>2
        <5> QED
          BY <4>1, <5>4, <5>5
      <4>2. CASE ~tune.held
        <5>1. b = a /\ a = Unset
          BY <1>1, <1>5, <1>7, <2>3, <2>7, <4>2 DEF Element
        <5>2. DOMAIN v \cap Stepped = {}
          BY <2>4, <3>2, <5>1, UnsetIs
        <5> QED
          BY <5>1, <5>2
      <4> QED
        BY <4>1, <4>2
    <3>7. ShownValues(tune') = tune'.values
      <4>1. tune'.sheet = [of |-> tune'.visible, values |-> tune'.values]
        BY <1>8, <1>9, <3>4
      <4>2. /\ DOMAIN tune'.attrs[tune'.visible] \cap Stepped
                 = DOMAIN tune'.values \cap Stepped
            /\ \A j \in DOMAIN tune'.values \cap Stepped :
                 tune'.attrs[tune'.visible][j] = tune'.values[j]
        BY <1>8, <1>9, <2>4, <3>2, <3>6
      <4> QED
        BY <1>8, <2>7, <4>1, <4>2, MarkupShows
    <3>8. AttrsDeclared(tune')
      <4>1. ASSUME NEW n \in Numbers
            PROVE  DOMAIN tune'.attrs[n] \subseteq tune'.knobs[n] \cap Stepped
        BY <1>9, <2>1, <2>7, <3>3, <3>5, <3>6 DEF MirrorOf, AttrsDeclared
      <4> QED
        BY <2>7, <4>1 DEF AttrsDeclared
    <3>9. PanelFits(tune')
      BY <1>8, <1>9, <2>3, <2>4, <2>7, <3>6 DEF PanelFits, Element
    <3> QED
      BY <1>9, <2>2, <3>7, <3>8, <3>9 DEF MirrorOf, Tuning
  <2> QED
    BY <2>6, <2>7
<1> QED
  BY <1>1, <1>8, <1>9, <1>10, <1>11, InvIs, StageStays

\* The accept names the shown variant with the mirror of its values.
LEMMA SentTunedIs ==
  ASSUME NEW t \in TuneRecords, SentTuned(t)
  PROVE  /\ tune' \in TuneRecords /\ tune'.live = "SAVING" /\ tune'.chip = "none"
         /\ tune'.arrived = t.arrived /\ tune'.visible = t.visible
         /\ tune'.phase = t.phase /\ tune'.knobs = t.knobs
         /\ SameLook(t, tune') /\ SamePanel(t, tune')
         /\ sentAccept' = [variant |-> tune'.visible, values |-> tune'.values]
<1> DEFINE u == [t EXCEPT !.live = "SAVING", !.chip = "none"]
<1>1. tune' = Saved(u) /\ sentAccept' = [variant |-> t.visible, values |-> t.values]
  BY DEF SentTuned
<1>2. /\ u \in TuneRecords /\ u.live = "SAVING" /\ u.chip = "none"
      /\ u.arrived = t.arrived /\ u.visible = t.visible
      /\ u.phase = t.phase /\ u.knobs = t.knobs
      /\ SameLook(t, u) /\ SamePanel(t, u)
  BY DEF TuneRecords, SameLook, SamePanel
<1> HIDE DEF u
<1>3. /\ tune' \in TuneRecords /\ SameStage(u, tune') /\ SamePanel(u, tune')
      /\ SameLook(u, tune') /\ tune'.chip = u.chip
  BY <1>1, <1>2, SavedIs
<1> QED
  BY <1>1, <1>2, <1>3 DEF SameStage, SameLook, SamePanel

\* A page whose values are seen and whose panel fits.
Agrees(t) == PanelFits(t) /\ AttrsDeclared(t) /\ ShownValues(t) = t.values

\* A page in a session, with no selection under way, which sends its accept or does not.
LEMMA AgreedKeeps ==
  ASSUME TuneInv, compiled' = compiled, UNCHANGED endVars, outdated' \in BOOLEAN,
         fallback' = 0, reverting' \in BOOLEAN, wanted' \in BOOLEAN,
         NEW t \in TuneRecords, t.live = "CYCLING", tune.live \in Tuning,
         t.visible <= t.arrived, t.visible # 0, t.arrived = tune.arrived,
         t.phase = tune.phase, t.panel => t.open, ChipFits(t),
         ~outdated' => Agrees(t),
         SentTuned(t) \/ tune' = t
  PROVE  TuneInv'
<1>1. CASE tune' = t
  <2>1. TuneTypeOK'
    BY <1>1, TuneAssumption, RecordIs DEF TuneInv, TuneTypeOK, endVars
  <2>2. SelectionInv'
    BY <1>1 DEF SelectionInv
  <2>3. ChipInv'
    BY <1>1 DEF TuneInv, ChipInv, ChipFits, Tuning, endVars
  <2>4. ~outdated' => MirrorInv'
    BY <1>1, MirrorIs DEF MirrorOf, Agrees, Tuning
  <2> QED
    BY <2>1, <2>2, <2>3, <2>4 DEF TuneInv
<1>2. CASE SentTuned(t)
  <2>1. /\ tune' \in TuneRecords /\ tune'.live = "SAVING" /\ tune'.chip = "none"
        /\ tune'.arrived = t.arrived /\ tune'.visible = t.visible
        /\ tune'.phase = t.phase /\ tune'.knobs = t.knobs
        /\ SameLook(t, tune') /\ SamePanel(t, tune')
        /\ sentAccept' = [variant |-> tune'.visible, values |-> tune'.values]
    BY <1>2, SentTunedIs
  <2>2. TuneTypeOK'
    BY <2>1, TuneAssumption DEF TuneInv, TuneTypeOK, SamePanel, endVars
  <2>3. SelectionInv'
    BY <2>1 DEF SelectionInv
  <2>4. ChipInv'
    BY <2>1 DEF TuneInv, ChipInv, Tuning, endVars
  <2>5. /\ PanelFits(t) => PanelFits(tune')
        /\ AttrsDeclared(tune') <=> AttrsDeclared(t)
        /\ ShownValues(tune') = ShownValues(t) /\ tune'.values = t.values
    BY <2>1, SeenAlike DEF SameLook
  <2>6. ~outdated' => MirrorInv'
    BY <2>1, <2>5, MirrorIs DEF MirrorOf, Agrees, Tuning
  <2> QED
    BY <2>2, <2>3, <2>4, <2>6 DEF TuneInv
<1> QED
  BY <1>1, <1>2

LEMMA AcceptTunedKeeps ==
  ASSUME TuneInv, AcceptTuned
  PROVE  TuneInv'
<1>1. /\ UNCHANGED <<compiled, fallback, reverting, endVars, outdated>>
      /\ tune.live = "CYCLING"
  BY DEF AcceptTuned
<1>2. /\ tune.visible # 0 /\ wanted \in BOOLEAN /\ reverting \in BOOLEAN
      /\ tune.live \in Tuning
  BY <1>1 DEF TuneInv, TuneTypeOK, SelectionInv, Tuning
<1>3. CASE fallback = 0
  <2>1. SentTuned(tune) /\ UNCHANGED wanted
    BY <1>3 DEF AcceptTuned
  <2>2. ~outdated' => Agrees(tune)
    BY <1>1, <1>2, <1>3, InvIs DEF MirrorOf, Agrees
  <2> QED
    BY <1>1, <1>2, <1>3, <2>1, <2>2, InvIs, AgreedKeeps
<1>4. CASE fallback # 0
  <2>1. wanted' = TRUE /\ UNCHANGED <<tune, sentAccept>>
    BY <1>4 DEF AcceptTuned
  <2>2. TuneTypeOK'
    BY <1>1, <2>1 DEF TuneInv, TuneTypeOK, endVars
  <2>3. SelectionInv' /\ ChipInv'
    BY <1>1, <2>1 DEF TuneInv, SelectionInv, ChipInv, endVars
  <2>4. ~outdated' => MirrorInv'
    BY <1>1, <2>1, InvIs, MirrorIs
  <2> QED
    BY <2>2, <2>3, <2>4 DEF TuneInv
<1> QED
  BY <1>3, <1>4

\* The variants can be compared again, and the chip is back.
LEMMA AcceptRefusedKeeps ==
  ASSUME TuneInv, AcceptRefused
  PROVE  TuneInv'
<1> DEFINE t == [tune EXCEPT !.live = "CYCLING"]
<1>1. /\ UNCHANGED <<compiled, selectionVars, endVars, outdated>>
      /\ sentAccept # NoAccept /\ sentAccept' = NoAccept
      /\ tune' = Barred(t)
  BY DEF AcceptRefused
<1>2. /\ t \in TuneRecords /\ t.live = "CYCLING" /\ t.arrived = tune.arrived
      /\ t.visible = tune.visible /\ t.phase = tune.phase /\ t.knobs = tune.knobs
      /\ SameLook(tune, t) /\ SamePanel(tune, t)
  BY InvIs DEF TuneRecords, SameLook, SamePanel
<1> HIDE DEF t
<1>3. /\ tune' \in TuneRecords /\ SameStage(t, tune') /\ SamePanel(t, tune')
      /\ SameLook(t, tune')
      /\ tune'.chip = "spins" => tune'.phase \in Waiting
  BY <1>1, <1>2, BarredIs
<1>4. /\ tune'.live = "CYCLING" /\ tune'.arrived = tune.arrived
      /\ tune'.visible = tune.visible /\ tune'.phase = tune.phase
      /\ tune'.knobs = tune.knobs /\ SameLook(tune, tune') /\ SamePanel(tune, tune')
  BY <1>2, <1>3 DEF SameStage, SameLook, SamePanel
<1>5. tune.live \in Tuning
  BY <1>1, InvIs, RecordIs DEF TuneInv, SelectionInv, Tuning
<1>6. tune.live # "CYCLING" => fallback = 0
  BY <1>5 DEF TuneInv, SelectionInv, Tuning
<1>7. TuneTypeOK'
  BY <1>1, <1>3, <1>4, <1>6, InvIs, TuneAssumption
  DEF TuneInv, TuneTypeOK, SamePanel, endVars, selectionVars
<1>8. SelectionInv'
  BY <1>1, <1>4, <1>5 DEF TuneInv, SelectionInv, Tuning, selectionVars
<1>9. ChipInv'
  BY <1>1, <1>3, <1>4, <1>5 DEF TuneInv, ChipInv, Tuning, endVars
<1>10. ASSUME ~outdated'
       PROVE  MirrorInv'
  <2>1. MirrorOf(tune, fallback, sentAccept)
    BY <1>1, <1>10, InvIs
  <2>2. /\ PanelFits(tune) => PanelFits(tune')
        /\ AttrsDeclared(tune') <=> AttrsDeclared(tune)
        /\ ShownValues(tune') = ShownValues(tune) /\ tune'.values = tune.values
    BY <1>4, SeenAlike DEF SameLook
  <2>3. MirrorOf(tune', fallback', sentAccept')
    BY <1>1, <1>4, <1>5, <2>1, <2>2 DEF MirrorOf, Tuning, selectionVars
  <2> QED
    BY <1>1, <2>3, MirrorIs
<1> QED
  BY <1>7, <1>8, <1>9, <1>10 DEF TuneInv

\* A page on which nothing has been tuned agrees with anything.
LEMMA BareAgrees ==
  ASSUME NEW t \in TuneRecords, compiled \in BOOLEAN, Bare(t)
  PROVE  PanelFits(t) /\ AttrsDeclared(t)
<1>1. ~t.panel /\ \A e \in 0..Planned : t.attrs[e] = Unset
  BY DEF Bare
<1>2. PanelFits(t)
  BY <1>1 DEF PanelFits
<1>3. Numbers \subseteq 0..Planned
  BY TuneAssumption DEF Numbers
<1>4. AttrsDeclared(t)
  BY <1>1, <1>3, UnsetIs, TuneAssumption DEF AttrsDeclared
<1> QED
  BY <1>2, <1>4

LEMMA SessionOverKeeps ==
  ASSUME TuneInv, SessionOver
  PROVE  TuneInv'
<1> DEFINE none == [e \in 0..Planned |-> Unset]
           knobless == [v \in Numbers |-> {}]
           t == [tune EXCEPT !.live = "PICKING", !.chip = "none", !.phase = "idle",
                       !.arrived = 0, !.visible = 0, !.values = Unset, !.held = FALSE,
                       !.attrs = none, !.built = {},
                       !.sheet = [of |-> 0, values |-> Unset],
                       !.knobs = knobless,
                       !.saved = [phase |-> "pending", visible |-> 0]]
<1>1. /\ UNCHANGED <<compiled, selectionVars, endVars, outdated>>
      /\ sentAccept' = NoAccept /\ tune' = Closed(t)
  BY DEF SessionOver
<1>2. /\ none \in [0..Planned -> Values] /\ \A e \in 0..Planned : none[e] = Unset
      /\ knobless \in [Numbers -> SUBSET Knobs] /\ Unset \in Values /\ 0 \in 0..Planned
  BY UnsetIs, TuneAssumption
<1> HIDE DEF none, knobless
<1>3. /\ t \in TuneRecords /\ t.live = "PICKING" /\ t.chip = "none" /\ t.arrived = 0
      /\ t.visible = 0 /\ t.values = Unset /\ t.attrs = none
  BY <1>2, InvIs DEF TuneRecords, Phases, Waiting
<1> HIDE DEF t
<1>4. /\ tune' \in TuneRecords /\ tune'.live = "PICKING" /\ tune'.chip = "none"
      /\ tune'.arrived = 0 /\ tune'.visible = 0 /\ ~tune'.panel
      /\ tune'.values = Unset /\ tune'.attrs = none
  BY <1>1, <1>3, ClosedIs DEF SameStage, SameLook
<1>5. TuneTypeOK'
  BY <1>1, <1>4 DEF TuneInv, TuneTypeOK, endVars, selectionVars
<1>6. SelectionInv'
  BY <1>1, <1>4 DEF TuneInv, SelectionInv, Tuning, selectionVars
<1>7. ChipInv'
  BY <1>1, <1>4 DEF TuneInv, ChipInv, Tuning, endVars
<1>8. Bare(tune')
  BY <1>2, <1>4 DEF Bare
<1>9. PanelFits(tune') /\ AttrsDeclared(tune')
  BY <1>4, <1>8, InvIs, BareAgrees
<1>10. MirrorInv'
  BY <1>1, <1>4, <1>8, <1>9, MirrorIs DEF MirrorOf, Tuning
<1> QED
  BY <1>5, <1>6, <1>7, <1>10 DEF TuneInv

\* More knobs are declared: the values of those that were are declared still.
LEMMA DeclaredKeeps ==
  ASSUME ~compiled, tune \in TuneRecords, AttrsDeclared(tune),
         NEW f \in [Numbers -> SUBSET Knobs], KeepsDeclared(f),
         NEW r, r.attrs = tune.attrs, r.knobs = f
  PROVE  AttrsDeclared(r)
<1>1. ASSUME NEW v \in Numbers
      PROVE  DOMAIN tune.attrs[v] \subseteq f[v] \cap Stepped
  <2>1. DOMAIN tune.attrs[v] \subseteq tune.knobs[v] \cap Stepped
    BY DEF AttrsDeclared
  <2>2. tune.knobs[v] # {} => f[v] = tune.knobs[v]
    BY DEF KeepsDeclared
  <2> QED
    BY <2>1, <2>2
<1> QED
  BY <1>1 DEF AttrsDeclared

LEMMA KnobsArriveKeeps ==
  ASSUME TuneInv, KnobsArrive
  PROVE  TuneInv'
<1>1. UNCHANGED <<compiled, selectionVars, sentAccept, endVars, outdated>> /\ ~compiled
  BY DEF KnobsArrive
<1>2. PICK f \in Declared(tune.arrived) :
        KeepsDeclared(f) /\ tune' = [tune EXCEPT !.knobs = f]
  BY DEF KnobsArrive
<1>3. f \in [Numbers -> SUBSET Knobs]
  BY DEF Declared
<1>4. /\ tune' \in TuneRecords /\ tune'.live = tune.live /\ tune'.arrived = tune.arrived
      /\ tune'.visible = tune.visible /\ tune'.phase = tune.phase /\ tune'.knobs = f
      /\ tune'.chip = tune.chip /\ SameLook(tune, tune') /\ SamePanel(tune, tune')
  BY <1>2, <1>3, InvIs DEF TuneRecords, SameLook, SamePanel
<1>5. TuneTypeOK'
  BY <1>1, <1>4 DEF TuneInv, TuneTypeOK, SamePanel, endVars, selectionVars
<1>6. SelectionInv' /\ ChipInv'
  BY <1>1, <1>4 DEF TuneInv, SelectionInv, ChipInv, endVars, selectionVars
<1>7. ASSUME ~outdated'
      PROVE  MirrorInv'
  <2>1. MirrorOf(tune, fallback, sentAccept)
    BY <1>1, <1>7, InvIs
  <2>2. AttrsDeclared(tune')
    BY <1>1, <1>2, <1>3, <1>4, <2>1, InvIs, DeclaredKeeps DEF MirrorOf, SameLook
  <2>3. ShownValues(tune') = ShownValues(tune) /\ tune'.values = tune.values
    BY <1>4 DEF SameLook, ShownValues
  <2>4. PanelFits(tune')
    BY <1>4, <2>1 DEF MirrorOf, PanelFits, Element, SameLook, SamePanel
  <2>5. Bare(tune) => Bare(tune')
    BY <1>4 DEF Bare, SameLook, SamePanel
  <2>6. MirrorOf(tune', fallback', sentAccept')
    BY <1>1, <1>4, <2>1, <2>2, <2>3, <2>4, <2>5 DEF MirrorOf, selectionVars
  <2> QED
    BY <1>1, <2>6, MirrorIs
<1> QED
  BY <1>5, <1>6, <1>7 DEF TuneInv

\* A page that is refreshed, with its bar built anew, and saved.
LEMMA RefreshedAgrees ==
  ASSUME NEW t \in TuneRecords, compiled \in BOOLEAN, t.live = "CYCLING", t.visible # 0
  PROVE  LET r == Saved(Barred(Refreshed(t))) IN
         /\ r \in TuneRecords /\ SameStage(t, r) /\ ChipFits(r)
         /\ r.panel => r.open
         /\ AttrsDeclared(t) => Agrees(r)
<1> DEFINE f == Refreshed(t)
           b == Barred(f)
           r == Saved(b)
<1>1. /\ f \in TuneRecords /\ SameStage(t, f)
      /\ f.panel => f.open
      /\ PanelFits(f)
      /\ AttrsDeclared(t) => AttrsDeclared(f) /\ ShownValues(f) = f.values
  BY RefreshedIs
<1> HIDE DEF f
<1>2. /\ b \in TuneRecords /\ SameStage(f, b) /\ SamePanel(f, b) /\ SameLook(f, b)
      /\ b.chip = "spins" => b.phase \in Waiting
  BY <1>1, BarredIs
<1> HIDE DEF b
<1>3. /\ r \in TuneRecords /\ SameStage(b, r) /\ SamePanel(b, r) /\ SameLook(b, r)
      /\ r.chip = b.chip
  BY <1>2, SavedIs
<1> HIDE DEF r
<1>4. SameStage(t, r) /\ SameStage(f, r) /\ SamePanel(f, r) /\ SameLook(f, r)
  BY <1>1, <1>2, <1>3 DEF SameStage, SamePanel, SameLook
<1>5. ChipFits(r) /\ (r.panel => r.open)
  BY <1>1, <1>2, <1>3, <1>4 DEF ChipFits, SameStage, SamePanel
<1>6. AttrsDeclared(t) => Agrees(r)
  BY <1>1, <1>4, SeenAlike DEF Agrees, SameStage, SameLook
<1> QED
  BY <1>3, <1>4, <1>5, <1>6 DEF b, f, r

LEMMA MountedAnewIs ==
  ASSUME NEW t \in TuneRecords, compiled
  PROVE  LET m == MountedAnew(t) IN
         /\ m \in TuneRecords /\ SameStage(t, m)
         /\ m.values = t.values /\ m.open = t.open /\ m.panel = t.panel
         /\ m.built = t.built /\ m.chip = t.chip
         /\ AttrsDeclared(m)
         /\ PanelFits(t) => PanelFits(m)
<1> DEFINE a == [t.attrs EXCEPT ![0] = Unset]
           m == MountedAnew(t)
<1>1. a \in [0..Planned -> Values] /\ a[0] = Unset
  BY RecordIs, UnsetIs, TuneAssumption
<1>2. m = [t EXCEPT !.attrs = a, !.held = FALSE]
  BY DEF MountedAnew, TuneRecords
<1> HIDE DEF a
<1>3. /\ m \in TuneRecords /\ SameStage(t, m) /\ m.values = t.values /\ m.open = t.open
      /\ m.panel = t.panel /\ m.built = t.built /\ m.chip = t.chip /\ m.attrs = a
  BY <1>1, <1>2 DEF TuneRecords, SameStage
<1> HIDE DEF m
<1>4. AttrsDeclared(m)
  BY <1>1, <1>3, UnsetIs DEF AttrsDeclared
<1>5. PanelFits(t) => PanelFits(m)
  BY <1>1, <1>3 DEF PanelFits, Element
<1> QED
  BY <1>3, <1>4, <1>5 DEF m

LEMMA SelectShownKeeps ==
  ASSUME TuneInv, NEW n \in Numbers, SelectShown(n)
  PROVE  TuneInv'
<1> DEFINE t == [tune EXCEPT !.visible = n]
<1>1. /\ UNCHANGED <<compiled, reverting, wanted, sentAccept, endVars, outdated>>
      /\ tune.live = "CYCLING" /\ fallback = 0 /\ n \in 1..tune.arrived
  BY DEF SelectShown
<1>2. n \in 0..Planned /\ n # 0 /\ n <= tune.arrived /\ tune.visible # 0
  BY <1>1, InvIs, TuneAssumption DEF Numbers, TuneInv, SelectionInv, Tuning
<1>3. /\ t \in TuneRecords /\ t.live = "CYCLING" /\ t.arrived = tune.arrived
      /\ t.visible = n /\ t.phase = tune.phase /\ t.knobs = tune.knobs
      /\ SameLook(tune, t) /\ SamePanel(tune, t)
  BY <1>1, <1>2, InvIs DEF TuneRecords, SameLook, SamePanel
<1>4. CASE compiled
  <2> DEFINE b == Barred(t)
  <2>1. tune' = Saved(b) /\ fallback' = tune.visible
    BY <1>4 DEF SelectShown
  <2> HIDE DEF t
  <2>2. /\ b \in TuneRecords /\ SameStage(t, b) /\ SamePanel(t, b) /\ SameLook(t, b)
        /\ b.chip = "spins" => b.phase \in Waiting
    BY <1>3, BarredIs
  <2> HIDE DEF b
  <2>3. /\ tune' \in TuneRecords /\ SameStage(b, tune') /\ SamePanel(b, tune')
        /\ SameLook(b, tune') /\ tune'.chip = b.chip
    BY <2>1, <2>2, SavedIs
  <2>4. /\ tune'.live = "CYCLING" /\ tune'.arrived = tune.arrived /\ tune'.visible = n
        /\ tune'.phase = tune.phase /\ tune'.knobs = tune.knobs
        /\ SameLook(tune, tune') /\ SamePanel(tune, tune')
        /\ tune'.chip = "spins" => tune'.phase \in Waiting
    BY <1>3, <2>2, <2>3 DEF SameStage, SameLook, SamePanel
  <2>5. TuneTypeOK'
    BY <1>1, <1>2, <2>1, <2>3, <2>4, InvIs DEF TuneInv, TuneTypeOK, SamePanel, endVars
  <2>6. SelectionInv'
    BY <1>1, <1>2, <1>4, <2>4 DEF SelectionInv
  <2>7. ChipInv'
    BY <1>1, <2>4 DEF TuneInv, ChipInv, Tuning, endVars
  <2>8. ASSUME ~outdated'
        PROVE  MirrorInv'
    <3>1. PanelFits(tune)
      BY <1>1, <2>8, InvIs DEF MirrorOf
    <3>2. PanelFits(tune')
      BY <1>4, <2>4, <3>1 DEF PanelFits, Element, SameLook, SamePanel
    <3> QED
      BY <1>1, <1>2, <1>4, <2>1, <2>4, <3>2, MirrorIs DEF MirrorOf, Tuning
  <2> QED
    BY <2>5, <2>6, <2>7, <2>8 DEF TuneInv
<1>5. CASE ~compiled
  <2> DEFINE u == Restyled(t)
  <2>1. tune' = Saved(Barred(Refreshed(u))) /\ UNCHANGED fallback
    BY <1>5 DEF SelectShown
  <2> HIDE DEF t
  <2>2. /\ u \in TuneRecords /\ SameStage(t, u) /\ u.attrs = t.attrs
    BY <1>3, RestyledIs
  <2> HIDE DEF u
  <2>3. u.live = "CYCLING" /\ u.visible # 0
    BY <1>2, <1>3, <2>2 DEF SameStage
  <2>4. /\ tune' \in TuneRecords /\ SameStage(u, tune') /\ ChipFits(tune')
        /\ tune'.panel => tune'.open
        /\ AttrsDeclared(u) => Agrees(tune')
    BY <2>1, <2>2, <2>3, InvIs, RefreshedAgrees
  <2>5. ~outdated' => Agrees(tune')
    <3>1. ~outdated' => AttrsDeclared(tune)
      BY <1>1, <1>5, InvIs DEF MirrorOf
    <3>2. AttrsDeclared(tune) => AttrsDeclared(u)
      BY <1>3, <1>5, <2>2 DEF AttrsDeclared, SameStage, SameLook
    <3> QED
      BY <2>4, <3>1, <3>2
  <2>6. /\ tune'.live = "CYCLING" /\ tune'.visible = n /\ tune'.arrived = tune.arrived
        /\ tune'.phase = tune.phase
    BY <1>3, <2>2, <2>4 DEF SameStage
  <2>7. /\ tune.live \in Tuning /\ fallback' = 0 /\ compiled' = compiled
        /\ UNCHANGED endVars /\ outdated' \in BOOLEAN /\ reverting' \in BOOLEAN
        /\ wanted' \in BOOLEAN
    BY <1>1, <2>1 DEF Tuning, TuneInv, TuneTypeOK
  <2> QED
    BY <1>2, <2>4, <2>5, <2>6, <2>7, AgreedKeeps
<1> QED
  BY <1>4, <1>5, InvIs

LEMMA SelectionMountsKeeps ==
  ASSUME TuneInv, SelectionMounts
  PROVE  TuneInv'
<1> DEFINE m == MountedAnew(tune)
           t == Saved(Barred(Refreshed(m)))
<1>1. /\ UNCHANGED <<compiled, endVars, outdated>>
      /\ fallback # 0 /\ tune.live = "CYCLING" /\ Concludes(t)
  BY DEF SelectionMounts
<1>2. compiled /\ tune.visible # 0
  BY <1>1 DEF TuneInv, SelectionInv, Tuning
<1>3. m \in TuneRecords /\ SameStage(tune, m) /\ AttrsDeclared(m)
  BY <1>2, InvIs, MountedAnewIs
<1> HIDE DEF m
<1>4. m.live = "CYCLING" /\ m.visible # 0
  BY <1>1, <1>2, <1>3 DEF SameStage
<1>5. /\ t \in TuneRecords /\ SameStage(m, t) /\ ChipFits(t)
      /\ t.panel => t.open
      /\ Agrees(t)
  BY <1>3, <1>4, InvIs, RefreshedAgrees
<1> HIDE DEF t
<1>6. /\ t.live = "CYCLING" /\ t.visible = tune.visible /\ t.arrived = tune.arrived
      /\ t.phase = tune.phase
  BY <1>1, <1>3, <1>5 DEF SameStage
<1>7. /\ fallback' = 0 /\ reverting' \in BOOLEAN /\ wanted' \in BOOLEAN
      /\ SentTuned(t) \/ tune' = t
  BY <1>1 DEF Concludes
<1>8. /\ tune.live \in Tuning /\ compiled' = compiled /\ UNCHANGED endVars
      /\ outdated' \in BOOLEAN
  BY <1>1, InvIs DEF Tuning
<1> QED
  BY <1>2, <1>5, <1>6, <1>7, <1>8, InvIs, AgreedKeeps

LEMMA SelectionFailsKeeps ==
  ASSUME TuneInv, SelectionFails
  PROVE  TuneInv'
<1>1. /\ UNCHANGED <<compiled, endVars>> /\ fallback # 0 /\ tune.live = "CYCLING"
  BY DEF SelectionFails
<1>2. compiled /\ tune.visible # 0 /\ tune.live \in Tuning
  BY <1>1 DEF TuneInv, SelectionInv, Tuning
<1>3. PICK t \in {tune, MountedAnew(tune)} :
        IF reverting THEN Concludes(Saved(Barred(t))) /\ outdated' = TRUE
        ELSE /\ tune' = [t EXCEPT !.visible = fallback]
             /\ reverting' = TRUE
             /\ UNCHANGED <<fallback, wanted, sentAccept, outdated>>
  BY DEF SelectionFails
<1>4. /\ t \in TuneRecords /\ SameStage(tune, t) /\ t.values = tune.values
      /\ t.open = tune.open /\ t.panel = tune.panel /\ t.built = tune.built
      /\ t.chip = tune.chip
      /\ PanelFits(tune) => PanelFits(t)
  BY <1>2, InvIs, MountedAnewIs DEF SameStage
<1>5. CASE reverting
  <2> DEFINE b == Barred(t)
             r == Saved(b)
  <2>1. /\ b \in TuneRecords /\ SameStage(t, b) /\ SamePanel(t, b)
        /\ b.chip = "spins" => b.phase \in Waiting
    BY <1>4, BarredIs
  <2>2. Concludes(r) /\ outdated' = TRUE
    BY <1>3, <1>5
  <2> HIDE DEF b
  <2>3. r \in TuneRecords /\ SameStage(b, r) /\ SamePanel(b, r) /\ r.chip = b.chip
    BY <2>1, SavedIs
  <2> HIDE DEF r
  <2>4. /\ r.live = "CYCLING" /\ r.visible = tune.visible /\ r.arrived = tune.arrived
        /\ r.phase = tune.phase /\ r.panel = tune.panel /\ r.open = tune.open
        /\ ChipFits(r)
    BY <1>1, <1>4, <2>1, <2>3 DEF SameStage, SamePanel, ChipFits
  <2>5. /\ fallback' = 0 /\ reverting' \in BOOLEAN /\ wanted' \in BOOLEAN
        /\ SentTuned(r) \/ tune' = r
    BY <2>2 DEF Concludes
  <2>6. compiled' = compiled /\ UNCHANGED endVars
    BY <1>1
  <2> QED
    BY <1>2, <2>2, <2>3, <2>4, <2>5, <2>6, InvIs, AgreedKeeps
<1>6. CASE ~reverting
  <2>1. /\ tune' = [t EXCEPT !.visible = fallback] /\ reverting' = TRUE
        /\ UNCHANGED <<fallback, wanted, sentAccept, outdated>>
    BY <1>3, <1>6
  <2>2. fallback \in 0..Planned /\ fallback <= tune.arrived
    BY <1>1, InvIs DEF TuneInv, TuneTypeOK
  <2>3. /\ tune' \in TuneRecords /\ tune'.live = "CYCLING" /\ tune'.visible = fallback
        /\ tune'.arrived = tune.arrived /\ tune'.phase = tune.phase
        /\ tune'.chip = tune.chip /\ tune'.values = t.values /\ tune'.attrs = t.attrs
        /\ SamePanel(t, tune') /\ tune'.panel = tune.panel /\ tune'.open = tune.open
    BY <1>1, <1>4, <2>1, <2>2 DEF TuneRecords, SameStage, SamePanel
  <2>4. TuneTypeOK'
    BY <1>1, <2>1, <2>2, <2>3 DEF TuneInv, TuneTypeOK, endVars
  <2>5. SelectionInv'
    BY <1>1, <1>2, <2>1, <2>3 DEF SelectionInv
  <2>6. ChipInv'
    BY <1>1, <2>3 DEF TuneInv, ChipInv, Tuning, endVars
  <2>7. ASSUME ~outdated'
        PROVE  MirrorInv'
    <3>1. PanelFits(t)
      BY <1>4, <2>1, <2>7, InvIs DEF MirrorOf
    <3>2. PanelFits(tune')
      BY <1>2, <2>3, <3>1 DEF PanelFits, Element, SamePanel
    <3> QED
      BY <1>1, <1>2, <2>1, <2>3, <3>2, MirrorIs DEF MirrorOf, Tuning
  <2> QED
    BY <2>4, <2>5, <2>6, <2>7 DEF TuneInv
<1> QED
  BY <1>5, <1>6

\* Knobs that are settled leave a page in agreement with itself.
LEMMA CompletedAgrees ==
  ASSUME NEW t \in TuneRecords, compiled \in BOOLEAN, t.visible # 0, Agrees(t)
  PROVE  Agrees(CompletedIfReady(t))
<1> DEFINE r == CompletedIfReady(t)
<1>1. /\ r.visible = t.visible /\ r.knobs = t.knobs
      /\ t.live # "CYCLING" => SameLook(t, r) /\ SamePanel(t, r)
      /\ PanelFits(t) => PanelFits(r)
      /\ t.live = "CYCLING" /\ t.visible # 0 /\ AttrsDeclared(t)
           /\ ShownValues(t) = t.values =>
           AttrsDeclared(r) /\ ShownValues(r) = r.values
  BY CompletedIfReadyIs
<1> HIDE DEF r
<1>2. CASE t.live = "CYCLING"
  BY <1>1, <1>2 DEF Agrees, r
<1>3. CASE t.live # "CYCLING"
  BY <1>1, <1>3, SeenAlike DEF Agrees, SameLook, r
<1> QED
  BY <1>2, <1>3

\* Variants of markup land on the page: the first is shown, with what it declares.
LEMMA LandedIs ==
  ASSUME TuneInv, NEW n \in Numbers, n > tune.arrived, ~compiled,
         tune.live \in {"GENERATING", "CYCLING", "SAVING"},
         NEW f \in [Numbers -> SUBSET Knobs], KeepsDeclared(f)
  PROVE  LET t1 == [tune EXCEPT !.arrived = n, !.knobs = f]
             t2 == IF tune.visible # 0 THEN t1
                   ELSE Refreshed(Restyled([t1 EXCEPT !.visible =
                          IF tune.saved.visible \in 1..n THEN tune.saved.visible ELSE 1]))
         IN  /\ t2 \in TuneRecords /\ t2.arrived = n /\ t2.visible # 0 /\ t2.visible <= n
             /\ ChipFits(t2)
             /\ t2.panel => t2.open
             /\ ~outdated => Agrees(t2)
<1> DEFINE t1 == [tune EXCEPT !.arrived = n, !.knobs = f]
           first == IF tune.saved.visible \in 1..n THEN tune.saved.visible ELSE 1
           u == [t1 EXCEPT !.visible = first]
<1>1. n \in 0..Planned /\ n \in Nat /\ n >= 1
  BY TuneAssumption DEF Numbers
<1>2. /\ t1 \in TuneRecords /\ t1.live = tune.live /\ t1.arrived = n
      /\ t1.visible = tune.visible /\ t1.phase = tune.phase /\ t1.knobs = f
      /\ t1.chip = tune.chip /\ SameLook(tune, t1) /\ SamePanel(tune, t1)
  BY <1>1, InvIs DEF TuneRecords, SameLook, SamePanel
<1> HIDE DEF t1
<1>3. first \in 1..n /\ first \in 0..Planned
  BY <1>1, TuneAssumption DEF Numbers
<1> HIDE DEF first
<1>4. /\ u \in TuneRecords /\ u.live = tune.live /\ u.arrived = n
      /\ u.visible = first /\ u.phase = tune.phase /\ u.knobs = f
      /\ u.chip = tune.chip /\ SameLook(tune, u) /\ SamePanel(tune, u)
  BY <1>2, <1>3 DEF TuneRecords, SameLook, SamePanel
<1> HIDE DEF u
<1>5. ASSUME ~outdated
      PROVE  MirrorOf(tune, fallback, sentAccept) /\ AttrsDeclared(t1) /\ AttrsDeclared(u)
  <2>1. MirrorOf(tune, fallback, sentAccept)
    BY <1>5, InvIs
  <2> QED
    BY <1>2, <1>4, <2>1, InvIs, DeclaredKeeps DEF MirrorOf, SameLook
<1>6. CASE tune.visible # 0
  <2>1. tune.visible <= n
    BY <1>1, InvIs
  <2>2. ChipFits(t1) /\ (t1.panel => t1.open)
    BY <1>2, InvIs DEF ChipFits, SamePanel
  <2>3. ASSUME ~outdated
        PROVE  Agrees(t1)
    <3>1. tune.live \in Tuning
      BY <1>5, <1>6, <2>3 DEF MirrorOf, Bare
    <3>2. fallback = 0
      BY DEF TuneInv, SelectionInv
    <3>3. ShownValues(t1) = t1.values
      BY <1>2, <1>5, <2>3, <3>1, <3>2 DEF MirrorOf, ShownValues, SameLook
    <3>4. PanelFits(t1)
      BY <1>2, <1>5, <2>3 DEF MirrorOf, PanelFits, Element, SameLook, SamePanel
    <3> QED
      BY <1>5, <2>3, <3>3, <3>4 DEF Agrees
  <2> QED
    BY <1>2, <1>6, <2>1, <2>2, <2>3 DEF t1
<1>7. CASE tune.visible = 0
  <2> DEFINE w == Restyled(u)
             r == Refreshed(w)
  <2>1. tune.live = "GENERATING"
    BY <1>7 DEF TuneInv, SelectionInv, Tuning
  <2>2. /\ w \in TuneRecords /\ SameStage(u, w) /\ SamePanel(u, w)
        /\ w.values = u.values /\ w.attrs = u.attrs /\ w.chip = u.chip
        /\ w.sheet = [of |-> u.visible, values |-> u.values]
    BY <1>4, RestyledIs
  <2> HIDE DEF w
  <2>3. w.live = "GENERATING"
    BY <1>4, <2>1, <2>2 DEF SameStage
  <2>4. /\ r \in TuneRecords /\ SameStage(w, r) /\ r.chip = w.chip
        /\ r.panel => r.open
        /\ PanelFits(r)
        /\ ~r.panel /\ r.values = Unset /\ r.attrs = w.attrs /\ r.sheet = w.sheet
        /\ AttrsDeclared(w) => AttrsDeclared(r)
    BY <2>2, <2>3, InvIs, RefreshedIs
  <2> HIDE DEF r
  <2>5. r.visible = first /\ r.arrived = n /\ r.knobs = f /\ r.visible # 0 /\ r.visible <= n
    BY <1>1, <1>3, <1>4, <2>2, <2>4 DEF SameStage
  <2>6. ChipFits(r)
    BY <1>4, <2>1, <2>2, <2>4, InvIs DEF ChipFits
  <2>7. ASSUME ~outdated
        PROVE  Agrees(r)
    <3>1. Bare(tune)
      BY <1>5, <2>1, <2>7 DEF MirrorOf, Tuning
    <3>2. /\ r.sheet = [of |-> r.visible, values |-> r.values]
          /\ r.attrs[r.visible] = Unset /\ r.values = Unset
      <4>1. r.attrs = tune.attrs /\ r.visible \in 0..Planned
        BY <1>3, <1>4, <2>2, <2>4, <2>5 DEF SameLook
      <4>2. r.attrs[r.visible] = Unset
        BY <3>1, <4>1 DEF Bare
      <4> QED
        BY <1>4, <2>2, <2>4, <2>5, <3>1, <4>2 DEF Bare, SameLook
    <3>3. ShownValues(r) = r.values
      BY <2>4, <3>2, UnsetIs, MarkupShows
    <3>4. AttrsDeclared(w) <=> AttrsDeclared(u)
      BY <2>2 DEF AttrsDeclared, SameStage
    <3> QED
      BY <1>5, <2>4, <2>7, <3>3, <3>4 DEF Agrees
  <2> QED
    BY <1>7, <2>4, <2>5, <2>6, <2>7 DEF t1, first, u, w, r
<1> QED
  BY <1>6, <1>7

LEMMA VariantsLandKeeps ==
  ASSUME TuneInv, NEW n \in Numbers, VariantsLand(n)
  PROVE  TuneInv'
<1>1. /\ UNCHANGED <<compiled, selectionVars, sentAccept, endVars, outdated>>
      /\ ~compiled /\ tune.live \in {"GENERATING", "CYCLING", "SAVING"} /\ n > tune.arrived
  BY DEF VariantsLand
<1>2. PICK f \in Declared(n) :
        /\ KeepsDeclared(f)
        /\ LET t1 == [tune EXCEPT !.arrived = n, !.knobs = f]
               t2 == IF tune.visible # 0 THEN t1
                     ELSE Refreshed(Restyled([t1 EXCEPT !.visible =
                            IF tune.saved.visible \in 1..n THEN tune.saved.visible ELSE 1]))
               t3 == Barred([CompletedIfReady(t2) EXCEPT !.live = "CYCLING"])
           IN  tune' = Saved(IF n = Planned THEN Refreshed(t3) ELSE [t3 EXCEPT !.panel = FALSE])
  BY DEF VariantsLand
<1> DEFINE t1 == [tune EXCEPT !.arrived = n, !.knobs = f]
           t2 == IF tune.visible # 0 THEN t1
                 ELSE Refreshed(Restyled([t1 EXCEPT !.visible =
                        IF tune.saved.visible \in 1..n THEN tune.saved.visible ELSE 1]))
           c == CompletedIfReady(t2)
           d == [c EXCEPT !.live = "CYCLING"]
           t3 == Barred(d)
           e == IF n = Planned THEN Refreshed(t3) ELSE [t3 EXCEPT !.panel = FALSE]
<1>3. f \in [Numbers -> SUBSET Knobs]
  BY DEF Declared
<1>4. /\ t2 \in TuneRecords /\ t2.arrived = n /\ t2.visible # 0 /\ t2.visible <= n
      /\ ChipFits(t2)
      /\ t2.panel => t2.open
      /\ ~outdated => Agrees(t2)
  BY <1>1, <1>2, <1>3, LandedIs
<1>5. tune' = Saved(e)
  BY <1>2
<1> HIDE DEF t2
<1>6. /\ c \in TuneRecords /\ c.arrived = n /\ c.visible = t2.visible
      /\ c.phase \in Waiting => n # Planned
      /\ c.panel => c.open
      /\ ~outdated => Agrees(c)
  BY <1>1, <1>4, InvIs, CompletedIfReadyIs, CompletedAgrees
<1> HIDE DEF c
<1>7. /\ d \in TuneRecords /\ d.live = "CYCLING" /\ d.arrived = n /\ d.visible = t2.visible
      /\ d.phase = c.phase /\ d.visible = c.visible /\ d.knobs = c.knobs
      /\ SameLook(c, d) /\ SamePanel(c, d)
  BY <1>6 DEF TuneRecords, SameLook, SamePanel
<1> HIDE DEF d
<1>8. /\ t3 \in TuneRecords /\ SameStage(d, t3) /\ SamePanel(d, t3) /\ SameLook(d, t3)
      /\ t3.chip = "spins" => t3.phase \in Waiting
  BY <1>7, BarredIs
<1> HIDE DEF t3
<1>9. /\ t3.live = "CYCLING" /\ t3.arrived = n /\ t3.visible = t2.visible
      /\ t3.phase = c.phase /\ t3.visible = c.visible /\ t3.knobs = c.knobs
      /\ SameLook(c, t3) /\ SamePanel(c, t3)
      /\ t3.panel => t3.open
  BY <1>6, <1>7, <1>8 DEF SameStage, SameLook, SamePanel
<1>10. ~outdated => Agrees(t3)
  BY <1>6, <1>9, SeenAlike DEF Agrees, SameLook
<1>11. /\ e \in TuneRecords /\ SameStage(t3, e) /\ e.chip = t3.chip
       /\ e.panel => e.open
       /\ ~outdated => Agrees(e)
  <2>1. CASE n = Planned
    <3> DEFINE r == Refreshed(t3)
    <3>1. /\ r \in TuneRecords /\ SameStage(t3, r) /\ r.chip = t3.chip
          /\ r.panel => r.open
          /\ PanelFits(r)
          /\ AttrsDeclared(t3) => AttrsDeclared(r) /\ ShownValues(r) = r.values
      BY <1>1, <1>4, <1>8, <1>9, InvIs, RefreshedIs
    <3>2. e = r
      BY <2>1
    <3> HIDE DEF e, r
    <3> QED
      BY <1>10, <3>1, <3>2 DEF Agrees
  <2>2. CASE n # Planned
    <3> DEFINE r == [t3 EXCEPT !.panel = FALSE]
    <3>1. /\ r \in TuneRecords /\ SameStage(t3, r) /\ r.chip = t3.chip /\ ~r.panel
          /\ SameLook(t3, r) /\ r.visible = t3.visible /\ r.knobs = t3.knobs
      BY <1>8 DEF TuneRecords, SameStage, SameLook
    <3>2. e = r
      BY <2>2
    <3> HIDE DEF e, r
    <3> QED
      BY <1>10, <3>1, <3>2, SeenAlike DEF Agrees, SameLook
  <2> QED
    BY <2>1, <2>2
<1> HIDE DEF e
<1>12. /\ tune' \in TuneRecords /\ SameStage(e, tune') /\ SamePanel(e, tune')
       /\ SameLook(e, tune') /\ tune'.chip = e.chip
  BY <1>5, <1>11, SavedIs
<1>13. /\ tune'.live = "CYCLING" /\ tune'.arrived = n /\ tune'.visible = t2.visible
       /\ tune'.phase = c.phase /\ tune'.visible = e.visible /\ tune'.knobs = e.knobs
       /\ tune'.chip = "spins" => tune'.phase \in Waiting
       /\ tune'.panel => tune'.open
  BY <1>8, <1>9, <1>11, <1>12 DEF SameStage, SamePanel
<1>14. ~outdated => Agrees(tune')
  BY <1>11, <1>12, <1>13, SeenAlike DEF Agrees, SameLook
<1>15. fallback = 0
  BY <1>1 DEF TuneInv, SelectionInv
<1>16. TuneTypeOK'
  BY <1>1, <1>4, <1>12, <1>13, <1>15, TuneAssumption
  DEF TuneInv, TuneTypeOK, endVars, selectionVars, Numbers
<1>17. SelectionInv'
  BY <1>1, <1>4, <1>13, <1>15 DEF SelectionInv, selectionVars
<1>18. ChipInv'
  BY <1>1, <1>6, <1>13 DEF TuneInv, ChipInv, endVars
<1>19. ~outdated' => MirrorInv'
  BY <1>1, <1>13, <1>14, MirrorIs DEF MirrorOf, Agrees, Tuning
<1> QED
  BY <1>16, <1>17, <1>18, <1>19 DEF TuneInv

\* A manifest is mounted, or cannot be: in the first case nothing of a variant is on the
\* new element but what the refresh has put there.
LEMMA InjectsKeeps ==
  ASSUME TuneInv, compiled, compiled' = compiled, fallback = 0,
         UNCHANGED <<selectionVars, sentAccept, finished, stream, settling>>,
         doneComing' \in BOOLEAN, doneComing' => finished,
         tune.live \in {"GENERATING", "CYCLING"},
         NEW n \in Numbers, n >= tune.arrived,
         NEW label \in {tune.phase, "loading"}, Injects(n, label)
  PROVE  TuneInv'
<1>1. PICK f \in Declared(n) :
        \/ /\ tune' = Injected(n, f, label)
           /\ outdated' = (outdated \/ ShownValues(tune') # tune'.values)
           /\ UNCHANGED unheard
        \/ /\ InjectionFails(n, f, label)
           /\ outdated' = (outdated \/ tune.knobs # f)
           /\ unheard' = (unheard \/ finished)
  BY DEF Injects
<1>2. f \in [Numbers -> SUBSET Knobs]
  BY DEF Declared
<1>3. /\ n \in 0..Planned /\ n >= 1 /\ n \in Nat /\ label \in Phases
      /\ tune.visible <= n /\ tune.visible \in Nat
  BY InvIs, RecordIs, TuneAssumption DEF Numbers, Phases, Waiting
<1>4. CASE /\ tune' = Injected(n, f, label)
           /\ outdated' = (outdated \/ ShownValues(tune') # tune'.values)
           /\ UNCHANGED unheard
  <2> DEFINE shown == IF tune.visible = 0 THEN 1 ELSE tune.visible
             t == [tune EXCEPT !.arrived = n, !.knobs = f, !.phase = label,
                               !.live = "CYCLING", !.visible = shown]
             a == MountedAnew(t)
             m == Barred(a)
             e == IF tune.arrived = 0 THEN Refreshed(m) ELSE m
             s == Saved(e)
  <2>1. tune' = CompletedIfReady(s)
    BY <1>4 DEF Injected
  <2>2. shown \in 0..Planned /\ shown # 0 /\ shown <= n
    BY <1>3, InvIs, TuneAssumption
  <2> HIDE DEF shown
  <2>3. /\ t \in TuneRecords /\ t.live = "CYCLING" /\ t.arrived = n /\ t.visible = shown
        /\ SameLook(tune, t) /\ SamePanel(tune, t)
    BY <1>2, <1>3, <2>2, InvIs DEF TuneRecords, SameLook, SamePanel
  <2> HIDE DEF t
  <2>4. PanelFits(tune) => PanelFits(t)
    BY <2>3 DEF PanelFits, Element, SameLook, SamePanel
  <2>5. /\ a \in TuneRecords /\ SameStage(t, a)
        /\ a.open = t.open /\ a.panel = t.panel
        /\ AttrsDeclared(a)
        /\ PanelFits(t) => PanelFits(a)
    BY <2>3, MountedAnewIs
  <2> HIDE DEF a
  <2>6. /\ m \in TuneRecords /\ SameStage(a, m) /\ SamePanel(a, m) /\ SameLook(a, m)
        /\ m.chip = "spins" => m.phase \in Waiting
    BY <2>5, BarredIs
  <2> HIDE DEF m
  <2>7. /\ m.live = "CYCLING" /\ m.arrived = n /\ m.visible = shown
        /\ m.panel => m.open
        /\ AttrsDeclared(m)
        /\ PanelFits(tune) => PanelFits(m)
    <3>1. m.visible = a.visible /\ m.knobs = a.knobs
      BY <2>6 DEF SameStage
    <3>2. AttrsDeclared(m) /\ (PanelFits(a) => PanelFits(m))
      BY <2>5, <2>6, <3>1, SeenAlike
    <3>3. m.panel => m.open
      BY <2>3, <2>5, <2>6, InvIs DEF SamePanel
    <3> QED
      BY <2>3, <2>4, <2>5, <2>6, <3>2, <3>3 DEF SameStage
  <2>8. /\ e \in TuneRecords /\ SameStage(m, e) /\ e.chip = m.chip
        /\ e.panel => e.open
        /\ AttrsDeclared(e)
        /\ PanelFits(tune) => PanelFits(e)
    <3>1. CASE tune.arrived = 0
      <4> DEFINE r == Refreshed(m)
      <4>1. /\ r \in TuneRecords /\ SameStage(m, r) /\ r.chip = m.chip
            /\ r.panel => r.open
            /\ PanelFits(r)
            /\ AttrsDeclared(r)
        BY <2>2, <2>6, <2>7, InvIs, RefreshedIs
      <4>2. e = r
        BY <3>1
      <4> HIDE DEF e, r
      <4> QED
        BY <4>1, <4>2
    <3>2. CASE tune.arrived # 0
      <4>1. e = m
        BY <3>2
      <4> HIDE DEF e
      <4> QED
        BY <2>6, <2>7, <4>1 DEF SameStage
    <3> QED
      BY <3>1, <3>2
  <2> HIDE DEF e
  <2>9. /\ s \in TuneRecords /\ SameStage(e, s) /\ SamePanel(e, s) /\ SameLook(e, s)
        /\ s.chip = e.chip
    BY <2>8, SavedIs
  <2> HIDE DEF s
  <2>10. /\ s.live = "CYCLING" /\ s.arrived = n /\ s.visible = shown
         /\ s.panel => s.open
         /\ ChipFits(s)
         /\ AttrsDeclared(s)
         /\ PanelFits(tune) => PanelFits(s)
    <3>1. s.visible = e.visible /\ s.knobs = e.knobs
      BY <2>9 DEF SameStage
    <3>2. AttrsDeclared(s) /\ (PanelFits(e) => PanelFits(s))
      BY <2>8, <2>9, <3>1, SeenAlike
    <3>3. s.live = "CYCLING" /\ s.arrived = n /\ s.visible = shown /\ s.phase = m.phase
      BY <2>7, <2>8, <2>9 DEF SameStage
    <3>4. ChipFits(s)
      BY <2>6, <2>8, <2>9, <3>3 DEF ChipFits
    <3>5. s.panel => s.open
      BY <2>8, <2>9 DEF SamePanel
    <3> QED
      BY <2>8, <3>2, <3>3, <3>4, <3>5
  <2>11. /\ tune' \in TuneRecords /\ tune'.live = "CYCLING" /\ tune'.arrived = n
         /\ tune'.visible = shown
         /\ tune'.phase \in Waiting => n # Planned
         /\ tune'.panel => tune'.open
         /\ ChipFits(tune')
         /\ AttrsDeclared(tune')
         /\ PanelFits(tune) => PanelFits(tune')
    BY <2>1, <2>2, <2>9, <2>10, InvIs, CompletedIfReadyIs
  <2>12. TuneTypeOK'
    <3>1. outdated' \in BOOLEAN /\ unheard' \in BOOLEAN
      BY <1>4 DEF TuneInv, TuneTypeOK
    <3> QED
      BY <1>3, <2>2, <2>11, <3>1 DEF TuneInv, TuneTypeOK, selectionVars
  <2>13. SelectionInv'
    BY <2>2, <2>11 DEF SelectionInv, selectionVars
  <2>14. ChipInv'
    BY <2>11 DEF ChipInv, ChipFits
  <2>15. ASSUME ~outdated'
         PROVE  MirrorInv'
    <3>1. PanelFits(tune) /\ ShownValues(tune') = tune'.values
      BY <1>4, <2>15, InvIs DEF MirrorOf
    <3> QED
      BY <2>11, <3>1, MirrorIs DEF MirrorOf, Tuning
  <2> QED
    BY <2>12, <2>13, <2>14, <2>15 DEF TuneInv
<1>5. CASE /\ InjectionFails(n, f, label)
           /\ outdated' = (outdated \/ tune.knobs # f)
           /\ unheard' = (unheard \/ finished)
  <2>1. /\ tune' \in TuneRecords /\ tune'.live = tune.live /\ tune'.visible = tune.visible
        /\ tune'.arrived \in {tune.arrived, n} /\ tune'.phase = label
        /\ tune'.chip = tune.chip /\ SameLook(tune, tune') /\ SamePanel(tune, tune')
        /\ ~outdated' => tune'.knobs = tune.knobs
    <3>1. CASE tune.arrived = 0
      <4>1. tune' = [tune EXCEPT !.phase = label]
        BY <1>5, <3>1 DEF InjectionFails
      <4> QED
        BY <1>3, <4>1, InvIs DEF TuneRecords, SameLook, SamePanel
    <3>2. CASE tune.arrived # 0
      <4> DEFINE t == [tune EXCEPT !.arrived = n, !.knobs = f, !.phase = label]
      <4>1. tune' = Saved(t)
        BY <1>5, <3>2 DEF InjectionFails
      <4>2. /\ t \in TuneRecords /\ t.live = tune.live /\ t.visible = tune.visible
            /\ t.arrived = n /\ t.phase = label /\ t.knobs = f
            /\ t.chip = tune.chip /\ SameLook(tune, t) /\ SamePanel(tune, t)
        BY <1>2, <1>3, InvIs DEF TuneRecords, SameLook, SamePanel
      <4> HIDE DEF t
      <4>3. /\ tune' \in TuneRecords /\ SameStage(t, tune') /\ SamePanel(t, tune')
            /\ SameLook(t, tune') /\ tune'.chip = t.chip
        BY <4>1, <4>2, SavedIs
      <4> QED
        BY <1>5, <4>2, <4>3 DEF SameStage, SameLook, SamePanel
    <3> QED
      BY <3>1, <3>2
  <2>2. TuneTypeOK'
    BY <1>3, <1>5, <2>1, InvIs, TuneAssumption
    DEF TuneInv, TuneTypeOK, SamePanel, selectionVars
  <2>3. SelectionInv'
    BY <2>1 DEF TuneInv, SelectionInv, selectionVars
  <2>4. tune'.chip = "spins" => tune'.phase \in Waiting
    BY <2>1 DEF TuneInv, ChipInv, Waiting
  <2>5. ChipInv'
    BY <1>5, <2>1, <2>4 DEF TuneInv, ChipInv
  <2>6. ~outdated' => MirrorOf(tune', fallback, sentAccept)
    BY <1>5, <2>1, InvIs, MirrorKept
  <2>7. ~outdated' => MirrorInv'
    BY <2>6, MirrorIs DEF selectionVars
  <2> QED
    BY <2>2, <2>3, <2>5, <2>7 DEF TuneInv
<1> QED
  BY <1>1, <1>4, <1>5

LEMMA ProgressHeardKeeps ==
  ASSUME TuneInv, NEW n \in Numbers, NEW kind \in {"variants", "params"},
         ProgressHeard(n, kind)
  PROVE  TuneInv'
<1> DEFINE label == IF kind = "params" THEN "loading" ELSE tune.phase
<1>1. /\ UNCHANGED <<compiled, selectionVars, sentAccept, finished, doneComing, stream,
                     settling>>
      /\ ~finished /\ tune.live \in {"GENERATING", "CYCLING"}
      /\ IF compiled THEN n >= tune.arrived /\ fallback = 0 /\ Injects(n, label)
         ELSE tune' = [tune EXCEPT !.phase = label] /\ UNCHANGED <<outdated, unheard>>
  BY DEF ProgressHeard
<1>2. label \in {tune.phase, "loading"} /\ label \in Phases
  BY InvIs, RecordIs DEF Phases, Waiting
<1> HIDE DEF label
<1>3. CASE compiled
  <2>1. doneComing' \in BOOLEAN /\ (doneComing' => finished)
    BY <1>1 DEF TuneInv, TuneTypeOK, ChipInv
  <2> QED
    BY <1>1, <1>2, <1>3, <2>1, InjectsKeeps
<1>4. CASE ~compiled
  <2>1. /\ tune' \in TuneRecords /\ tune'.live = tune.live /\ tune'.visible = tune.visible
        /\ tune'.arrived = tune.arrived /\ tune'.phase = label /\ tune'.knobs = tune.knobs
        /\ tune'.chip = tune.chip /\ SameLook(tune, tune') /\ SamePanel(tune, tune')
    BY <1>1, <1>2, <1>4, InvIs DEF TuneRecords, SameLook, SamePanel
  <2>2. TuneTypeOK'
    BY <1>1, <1>4, <2>1 DEF TuneInv, TuneTypeOK, SamePanel, selectionVars
  <2>3. SelectionInv'
    BY <1>1, <2>1 DEF TuneInv, SelectionInv, selectionVars
  <2>4. ChipInv'
    BY <1>1, <1>2, <1>4, <2>1 DEF TuneInv, ChipInv, Waiting
  <2>5. ~outdated' => MirrorOf(tune', fallback, sentAccept)
    BY <1>1, <1>4, <2>1, InvIs, MirrorKept
  <2>6. ~outdated' => MirrorInv'
    BY <1>1, <2>5, MirrorIs DEF selectionVars
  <2> QED
    BY <2>2, <2>3, <2>4, <2>6 DEF TuneInv
<1> QED
  BY <1>3, <1>4

\* The generation is said to be done, and what can be settled is settled.
LEMMA CompletingKeeps ==
  ASSUME TuneInv, UNCHANGED <<compiled, selectionVars, sentAccept, finished, outdated>>,
         tune' = CompletedIfReady(tune), doneComing' \in BOOLEAN, doneComing' => finished,
         stream' \in BOOLEAN, unheard' \in BOOLEAN,
         settling' \in {"no", "asked", "finished", "unfinished"}
  PROVE  TuneInv'
<1>1. /\ tune' \in TuneRecords /\ tune'.live = tune.live /\ tune'.arrived = tune.arrived
      /\ tune'.visible = tune.visible /\ tune'.knobs = tune.knobs
      /\ tune'.phase \in Waiting => tune.arrived # Planned
      /\ tune'.panel => tune'.open
      /\ ChipFits(tune')
      /\ tune.live # "CYCLING" => SameLook(tune, tune') /\ SamePanel(tune, tune')
      /\ PanelFits(tune) => PanelFits(tune')
      /\ ~compiled /\ AttrsDeclared(tune) => AttrsDeclared(tune')
  BY InvIs, CompletedIfReadyIs
<1>2. TuneTypeOK'
  BY <1>1 DEF TuneInv, TuneTypeOK, selectionVars
<1>3. SelectionInv'
  BY <1>1 DEF TuneInv, SelectionInv, selectionVars
<1>4. ChipInv'
  BY <1>1 DEF TuneInv, ChipInv, ChipFits
<1>5. ASSUME ~outdated'
      PROVE  MirrorOf(tune', fallback, sentAccept)
  <2>1. MirrorOf(tune, fallback, sentAccept)
    BY <1>5, InvIs
  <2>2. CASE tune.live = "CYCLING"
    <3>1. tune.visible # 0
      BY <2>2 DEF TuneInv, SelectionInv, Tuning
    <3>2. fallback = 0 => Agrees(tune)
      BY <2>1, <2>2 DEF MirrorOf, Agrees, Tuning
    <3>3. fallback = 0 => Agrees(tune')
      BY <3>1, <3>2, InvIs, CompletedAgrees
    <3> QED
      BY <1>1, <2>1, <2>2, <3>3 DEF MirrorOf, Agrees, Tuning
  <2>3. CASE tune.live # "CYCLING"
    BY <1>1, <2>1, <2>3, MirrorKept
  <2> QED
    BY <2>2, <2>3
<1>6. ~outdated' => MirrorInv'
  BY <1>5, MirrorIs DEF selectionVars
<1> QED
  BY <1>2, <1>3, <1>4, <1>6 DEF TuneInv

LEMMA DoneHeardKeeps ==
  ASSUME TuneInv, DoneHeard
  PROVE  TuneInv'
<1>1. /\ UNCHANGED <<compiled, selectionVars, sentAccept, finished, stream, settling>>
      /\ compiled => fallback = 0
      /\ doneComing' = FALSE
      /\ IF compiled /\ tune.live \in {"GENERATING", "CYCLING"}
         THEN Injects(Planned, tune.phase)
         ELSE tune' = CompletedIfReady(tune) /\ UNCHANGED <<outdated, unheard>>
  BY DEF DoneHeard
<1>2. CASE compiled /\ tune.live \in {"GENERATING", "CYCLING"}
  <2>1. Planned \in Numbers /\ Planned >= tune.arrived
    BY InvIs, TuneAssumption DEF Numbers
  <2> QED
    BY <1>1, <1>2, <2>1, InjectsKeeps
<1>3. CASE ~(compiled /\ tune.live \in {"GENERATING", "CYCLING"})
  <2>1. tune' = CompletedIfReady(tune) /\ UNCHANGED <<outdated, unheard>>
    BY <1>1, <1>3
  <2>2. /\ stream' \in BOOLEAN /\ unheard' \in BOOLEAN
        /\ settling' \in {"no", "asked", "finished", "unfinished"}
    BY <1>1, <2>1 DEF TuneInv, TuneTypeOK
  <2> QED
    BY <1>1, <2>1, <2>2, CompletingKeeps
<1> QED
  BY <1>2, <1>3

LEMMA GenerationDoneKeeps ==
  ASSUME TuneInv, GenerationDone
  PROVE  TuneInv'
<1>1. /\ UNCHANGED <<compiled, tune, selectionVars, sentAccept, stream, settling, outdated>>
      /\ finished' = TRUE /\ doneComing' = stream
      /\ unheard' = (unheard \/ (Loaded /\ ~stream /\ settling # "asked"))
  BY DEF GenerationDone
<1>2. TuneTypeOK'
  BY <1>1 DEF TuneInv, TuneTypeOK, selectionVars
<1>3. SelectionInv'
  BY <1>1 DEF TuneInv, SelectionInv, selectionVars
<1>4. ChipInv'
  BY <1>1 DEF TuneInv, TuneTypeOK, ChipInv, Loaded, Tuning
<1>5. ~outdated' => MirrorInv'
  BY <1>1, InvIs, MirrorIs DEF selectionVars
<1> QED
  BY <1>2, <1>3, <1>4, <1>5 DEF TuneInv

LEMMA StreamLostKeeps ==
  ASSUME TuneInv, StreamLost
  PROVE  TuneInv'
<1>1. /\ UNCHANGED <<compiled, tune, selectionVars, sentAccept, finished, settling, outdated>>
      /\ stream' = FALSE /\ doneComing' = FALSE /\ unheard' = (unheard \/ doneComing)
  BY DEF StreamLost
<1>2. TuneTypeOK'
  BY <1>1 DEF TuneInv, TuneTypeOK, selectionVars
<1>3. SelectionInv'
  BY <1>1 DEF TuneInv, SelectionInv, selectionVars
<1>4. ChipInv'
  BY <1>1 DEF TuneInv, ChipInv
<1>5. ~outdated' => MirrorInv'
  BY <1>1, InvIs, MirrorIs DEF selectionVars
<1> QED
  BY <1>2, <1>3, <1>4, <1>5 DEF TuneInv

LEMMA StreamOpensKeeps ==
  ASSUME TuneInv, StreamOpens
  PROVE  TuneInv'
<1>1. /\ UNCHANGED <<compiled, tune, selectionVars, sentAccept, finished, doneComing,
                     settling, unheard, outdated>>
      /\ stream' = TRUE
  BY DEF StreamOpens
<1>2. TuneTypeOK'
  BY <1>1 DEF TuneInv, TuneTypeOK, selectionVars
<1>3. SelectionInv' /\ ChipInv'
  BY <1>1 DEF TuneInv, SelectionInv, ChipInv, selectionVars
<1>4. ~outdated' => MirrorInv'
  BY <1>1, InvIs, MirrorIs DEF selectionVars
<1> QED
  BY <1>2, <1>3, <1>4 DEF TuneInv

LEMMA StatusReadKeeps ==
  ASSUME TuneInv, StatusRead
  PROVE  TuneInv'
<1>1. /\ UNCHANGED <<compiled, tune, selectionVars, sentAccept, finished, doneComing, stream,
                     unheard, outdated>>
      /\ settling' = IF finished THEN "finished" ELSE "unfinished"
  BY DEF StatusRead
<1>2. TuneTypeOK'
  BY <1>1 DEF TuneInv, TuneTypeOK, selectionVars
<1>3. SelectionInv' /\ ChipInv'
  BY <1>1 DEF TuneInv, SelectionInv, ChipInv, selectionVars
<1>4. ~outdated' => MirrorInv'
  BY <1>1, InvIs, MirrorIs DEF selectionVars
<1> QED
  BY <1>2, <1>3, <1>4 DEF TuneInv

LEMMA StatusLostKeeps ==
  ASSUME TuneInv, StatusLost
  PROVE  TuneInv'
<1>1. /\ UNCHANGED <<compiled, tune, selectionVars, sentAccept, finished, doneComing, stream,
                     outdated>>
      /\ settling' = "no" /\ unheard' = (unheard \/ (finished /\ ~doneComing))
  BY DEF StatusLost
<1>2. TuneTypeOK'
  BY <1>1 DEF TuneInv, TuneTypeOK, selectionVars
<1>3. SelectionInv' /\ ChipInv'
  BY <1>1 DEF TuneInv, SelectionInv, ChipInv, selectionVars
<1>4. ~outdated' => MirrorInv'
  BY <1>1, InvIs, MirrorIs DEF selectionVars
<1> QED
  BY <1>2, <1>3, <1>4 DEF TuneInv

LEMMA StatusHeardKeeps ==
  ASSUME TuneInv, StatusHeard
  PROVE  TuneInv'
<1>1. /\ UNCHANGED <<compiled, selectionVars, sentAccept, finished, doneComing, stream,
                     unheard, outdated>>
      /\ settling \in {"finished", "unfinished"} /\ settling' = "no"
      /\ tune' = IF settling = "finished" THEN CompletedIfReady(tune) ELSE tune
  BY DEF StatusHeard
<1>2. /\ doneComing' \in BOOLEAN /\ (doneComing' => finished)
      /\ stream' \in BOOLEAN /\ unheard' \in BOOLEAN
      /\ settling' \in {"no", "asked", "finished", "unfinished"}
  BY <1>1 DEF TuneInv, TuneTypeOK, ChipInv
<1>3. CASE settling = "finished"
  BY <1>1, <1>2, <1>3, CompletingKeeps
<1>4. CASE settling = "unfinished"
  <2>1. TuneTypeOK'
    BY <1>1, <1>4 DEF TuneInv, TuneTypeOK, selectionVars
  <2>2. SelectionInv' /\ ChipInv'
    BY <1>1, <1>4 DEF TuneInv, SelectionInv, ChipInv, selectionVars
  <2>3. ~outdated' => MirrorInv'
    BY <1>1, <1>4, InvIs, MirrorIs DEF selectionVars
  <2> QED
    BY <2>1, <2>2, <2>3 DEF TuneInv
<1> QED
  BY <1>1, <1>3, <1>4

LEMMA ReloadTunedKeeps ==
  ASSUME TuneInv, ReloadTuned
  PROVE  TuneInv'
<1> DEFINE none == [e \in 0..Planned |-> Unset]
           t == [tune EXCEPT !.live = "away", !.values = Unset, !.visible = 0,
                       !.attrs = none, !.built = {}, !.held = FALSE,
                       !.sheet = [of |-> 0, values |-> Unset], !.chip = "none"]
<1>1. /\ UNCHANGED <<compiled, selectionVars, sentAccept, finished, outdated>>
      /\ ~compiled /\ sentAccept = NoAccept
      /\ tune' = Closed(t)
      /\ stream' = FALSE /\ doneComing' = FALSE /\ settling' = "no" /\ unheard' = FALSE
  BY DEF ReloadTuned
<1>2. /\ none \in [0..Planned -> Values] /\ \A e \in 0..Planned : none[e] = Unset
      /\ Unset \in Values /\ 0 \in 0..Planned
  BY UnsetIs, TuneAssumption
<1> HIDE DEF none
<1>3. /\ t \in TuneRecords /\ t.live = "away" /\ t.chip = "none"
      /\ t.arrived = tune.arrived
      /\ t.visible = 0 /\ t.values = Unset /\ t.attrs = none
  BY <1>2, InvIs DEF TuneRecords
<1> HIDE DEF t
<1>4. /\ tune' \in TuneRecords /\ tune'.live = "away" /\ tune'.chip = "none"
      /\ tune'.arrived = tune.arrived
      /\ tune'.visible = 0 /\ ~tune'.panel /\ tune'.values = Unset /\ tune'.attrs = none
  BY <1>1, <1>3, ClosedIs DEF SameStage, SameLook
<1>5. fallback = 0
  BY <1>1 DEF TuneInv, SelectionInv
<1>6. TuneTypeOK'
  <2>1. tune'.visible <= tune'.arrived
    BY <1>4, InvIs
  <2>2. unheard' \in BOOLEAN /\ settling' \in {"no", "asked", "finished", "unfinished"}
    BY <1>1
  <2> QED
    BY <1>1, <1>4, <1>5, <2>1, <2>2 DEF TuneInv, TuneTypeOK, selectionVars
<1>7. SelectionInv'
  BY <1>1, <1>4, <1>5 DEF SelectionInv, Tuning, selectionVars
<1>8. ChipInv'
  BY <1>1, <1>4 DEF ChipInv, Tuning
<1>9. Bare(tune')
  BY <1>2, <1>4 DEF Bare
<1>10. PanelFits(tune') /\ AttrsDeclared(tune')
  BY <1>4, <1>9, InvIs, BareAgrees
<1>11. MirrorInv'
  BY <1>1, <1>4, <1>9, <1>10, MirrorIs DEF MirrorOf, Tuning
<1> QED
  BY <1>6, <1>7, <1>8, <1>11 DEF TuneInv

LEMMA ResumeTunedKeeps ==
  ASSUME TuneInv, ResumeTuned
  PROVE  TuneInv'
<1>1. /\ UNCHANGED <<compiled, selectionVars, sentAccept, finished, doneComing, stream,
                     unheard, outdated>>
      /\ tune.live = "away"
  BY DEF ResumeTuned
<1>2. PICK n \in tune.arrived..Planned :
        LET t == [tune EXCEPT !.arrived = n, !.phase = tune.saved.phase,
                              !.live = IF n > 0 THEN "CYCLING" ELSE "GENERATING",
                              !.visible = IF tune.saved.visible \in 1..n
                                          THEN tune.saved.visible
                                          ELSE IF n > 0 THEN 1 ELSE 0]
        IN  /\ tune' = Saved(IF n > 0 THEN Barred(Refreshed(Restyled(t))) ELSE t)
            /\ settling' = ResumeAsks(t)
  BY DEF ResumeTuned
<1> DEFINE shown == IF tune.saved.visible \in 1..n THEN tune.saved.visible
                    ELSE IF n > 0 THEN 1 ELSE 0
           live == IF n > 0 THEN "CYCLING" ELSE "GENERATING"
           t == [tune EXCEPT !.arrived = n, !.phase = tune.saved.phase,
                             !.live = live, !.visible = shown]
<1>3. n \in 0..Planned /\ n \in Nat
  BY InvIs, TuneAssumption
<1>4. shown \in 0..Planned /\ shown <= n /\ (n > 0 => shown # 0) /\ (n = 0 => shown = 0)
  BY <1>3, TuneAssumption
<1>5. tune.saved.phase \in Phases
  BY InvIs, RecordIs
<1>6. /\ tune' = Saved(IF n > 0 THEN Barred(Refreshed(Restyled(t))) ELSE t)
      /\ settling' = ResumeAsks(t)
  BY <1>2
<1> HIDE DEF shown
<1>7. /\ t \in TuneRecords /\ t.live = live /\ t.arrived = n /\ t.visible = shown
      /\ t.knobs = tune.knobs /\ t.chip = tune.chip
      /\ SameLook(tune, t) /\ SamePanel(tune, t)
  BY <1>3, <1>4, <1>5, InvIs DEF TuneRecords, SameLook, SamePanel
<1> HIDE DEF t
<1>8. settling' = IF t.arrived = Planned /\ t.phase \in Waiting THEN "asked" ELSE "no"
  BY <1>6 DEF ResumeAsks
<1>9. fallback = 0 /\ sentAccept = NoAccept /\ tune.chip = "none"
  BY <1>1 DEF TuneInv, SelectionInv, ChipInv
<1>10. ~outdated => Bare(tune)
  BY <1>1, InvIs DEF MirrorOf, Tuning
<1>11. CASE n > 0
  <2> DEFINE u == Restyled(t)
  <2>1. tune' = Saved(Barred(Refreshed(u))) /\ t.live = "CYCLING" /\ shown # 0
    BY <1>4, <1>6, <1>7, <1>11
  <2>2. u \in TuneRecords /\ SameStage(t, u) /\ u.attrs = t.attrs
    BY <1>7, RestyledIs
  <2> HIDE DEF u
  <2>3. u.live = "CYCLING" /\ u.visible # 0 /\ u.visible = shown /\ u.arrived = n
        /\ u.phase = t.phase
    BY <1>7, <2>1, <2>2 DEF SameStage
  <2>4. /\ tune' \in TuneRecords /\ SameStage(u, tune') /\ ChipFits(tune')
        /\ tune'.panel => tune'.open
        /\ AttrsDeclared(u) => Agrees(tune')
    BY <2>1, <2>2, <2>3, InvIs, RefreshedAgrees
  <2>5. /\ tune'.live = "CYCLING" /\ tune'.visible = shown /\ tune'.arrived = n
        /\ tune'.phase = t.phase
    BY <2>3, <2>4 DEF SameStage
  <2>6. ASSUME ~outdated
        PROVE  Agrees(tune')
    <3>1. \A e \in 0..Planned : u.attrs[e] = Unset
      BY <1>7, <1>10, <2>2, <2>6 DEF Bare, SameLook
    <3>2. Numbers \subseteq 0..Planned /\ 0 \in 0..Planned
      BY TuneAssumption DEF Numbers
    <3>3. AttrsDeclared(u)
      BY <3>1, <3>2, UnsetIs DEF AttrsDeclared
    <3> QED
      BY <2>4, <3>3
  <2>7. TuneTypeOK'
    BY <1>1, <1>3, <1>4, <1>8, <1>9, <2>4, <2>5, TuneAssumption
    DEF TuneInv, TuneTypeOK, selectionVars
  <2>8. SelectionInv'
    BY <1>1, <1>9, <2>1, <2>5 DEF SelectionInv, selectionVars
  <2>9. ChipInv'
    BY <1>1, <1>7, <1>8, <2>4, <2>5 DEF TuneInv, ChipInv, ChipFits
  <2>10. ~outdated' => MirrorInv'
    BY <1>1, <2>5, <2>6, MirrorIs DEF MirrorOf, Agrees, Tuning
  <2> QED
    BY <2>7, <2>8, <2>9, <2>10 DEF TuneInv
<1>12. CASE n = 0
  <2>1. tune' = Saved(t) /\ t.live = "GENERATING" /\ shown = 0
    BY <1>4, <1>6, <1>7, <1>12
  <2>2. /\ tune' \in TuneRecords /\ SameStage(t, tune') /\ SamePanel(t, tune')
        /\ SameLook(t, tune') /\ tune'.chip = t.chip
    BY <1>7, <2>1, SavedIs
  <2>3. /\ tune'.live = "GENERATING" /\ tune'.visible = 0 /\ tune'.arrived = 0
        /\ tune'.chip = "none" /\ tune'.knobs = tune.knobs
        /\ SameLook(tune, tune') /\ SamePanel(tune, tune')
    BY <1>7, <1>9, <1>12, <2>1, <2>2 DEF SameStage, SameLook, SamePanel
  <2>4. TuneTypeOK'
    BY <1>1, <1>8, <1>9, <2>2, <2>3, InvIs DEF TuneInv, TuneTypeOK, SamePanel, selectionVars
  <2>5. SelectionInv'
    BY <1>1, <1>9, <2>3 DEF SelectionInv, Tuning, selectionVars
  <2>6. ChipInv'
    BY <1>1, <2>3 DEF TuneInv, ChipInv, Tuning
  <2>7. ASSUME ~outdated'
        PROVE  MirrorInv'
    <3>1. Bare(tune')
      BY <1>1, <1>10, <2>3, <2>7 DEF Bare, SameLook, SamePanel
    <3>2. PanelFits(tune') /\ AttrsDeclared(tune')
      BY <2>2, <3>1, InvIs, BareAgrees
    <3> QED
      BY <1>1, <2>3, <3>1, <3>2, MirrorIs DEF MirrorOf, Tuning
  <2> QED
    BY <2>4, <2>5, <2>6, <2>7 DEF TuneInv
<1> QED
  BY <1>3, <1>11, <1>12

\* It begins with a page on which nothing has been tuned.
LEMMA TuneInitHolds ==
  ASSUME TuneInit
  PROVE  TuneInv
<1> DEFINE knobless == [v \in Numbers |-> {}]
           none == [e \in 0..Planned |-> Unset]
<1>1. tune = [live |-> "GENERATING", arrived |-> 0, visible |-> 0, phase |-> "pending",
              knobs |-> knobless, values |-> Unset, attrs |-> none,
              sheet |-> [of |-> 0, values |-> Unset], open |-> FALSE, panel |-> FALSE,
              built |-> {}, held |-> FALSE, chip |-> "none",
              saved |-> [phase |-> "pending", visible |-> 0]]
  BY DEF TuneInit
<1>2. /\ knobless \in [Numbers -> SUBSET Knobs] /\ none \in [0..Planned -> Values]
      /\ \A e \in 0..Planned : none[e] = Unset
      /\ Unset \in Values /\ 0 \in 0..Planned
  BY UnsetIs, TuneAssumption
<1> HIDE DEF knobless, none
<1>3. tune \in TuneRecords
  BY <1>1, <1>2 DEF TuneRecords, Phases, Waiting
<1>4. TuneTypeOK
  <2>1. tune.visible = 0 /\ tune.arrived = 0 /\ ~tune.panel /\ tune.live = "GENERATING"
    BY <1>1
  <2>2. tune.visible <= tune.arrived
    BY <2>1
  <2> QED
    BY <1>2, <1>3, <2>1, <2>2 DEF TuneInit, TuneTypeOK
<1>5. SelectionInv /\ ChipInv
  BY <1>1 DEF TuneInit, SelectionInv, ChipInv, Tuning
<1>6. Bare(tune)
  BY <1>1, <1>2 DEF Bare
<1>7. PanelFits(tune) /\ AttrsDeclared(tune)
  BY <1>3, <1>6, BareAgrees DEF TuneInit
<1>8. MirrorInv
  BY <1>1, <1>6, <1>7 DEF MirrorInv, Tuning
<1> QED
  BY <1>4, <1>5, <1>8 DEF TuneInv

LEMMA TuneStepKeeps ==
  ASSUME TuneInv, [TuneNext]_tuneVars
  PROVE  TuneInv'
<1>1. CASE TuneNext
  BY <1>1, ToggleTuneKeeps, CloseTuneKeeps, AcceptTunedKeeps, AcceptRefusedKeeps,
     SessionOverKeeps, TuneKnobKeeps, SelectShownKeeps, VariantsLandKeeps,
     ProgressHeardKeeps, SelectionMountsKeeps, SelectionFailsKeeps, KnobsArriveKeeps,
     ElementReplacedKeeps, PhaseHeardKeeps, GenerationDoneKeeps, DoneHeardKeeps,
     StreamLostKeeps, StreamOpensKeeps, ReloadTunedKeeps, ResumeTunedKeeps,
     StatusReadKeeps, StatusHeardKeeps, StatusLostKeeps
  DEF TuneNext
<1>2. CASE UNCHANGED tuneVars
  <2>1. UNCHANGED <<compiled, tune, selectionVars, sentAccept, endVars, outdated>>
    BY <1>2 DEF tuneVars, selectionVars, endVars
  <2> QED
    BY <2>1, InvIs, StageStays DEF SameStage
<1> QED
  BY <1>1, <1>2

LEMMA TuneInvShows ==
  ASSUME TuneInv
  PROVE  TunesAsShown
<1>1. AcceptsAsTuned
  <2>1. ASSUME tune.live = "CYCLING", fallback = 0, ~outdated
        PROVE  ShownValues(tune) = tune.values
    BY <2>1, InvIs DEF MirrorOf, Tuning
  <2>2. ASSUME tune.live = "SAVING", ~outdated
        PROVE  sentAccept = [variant |-> tune.visible, values |-> ShownValues(tune)]
    <3>1. fallback = 0
      BY <2>2 DEF TuneInv, SelectionInv
    <3> QED
      BY <2>2, <3>1, InvIs DEF MirrorOf, Tuning
  <2> QED
    BY <2>1, <2>2 DEF AcceptsAsTuned
<1>2. ChipSettles
  BY DEF TuneInv, ChipInv, ChipSettles, Tuning
<1> QED
  BY <1>1, <1>2 DEF TunesAsShown

\* The parameters of variants keep their inductive invariant, whatever the number of
\* variants, the knobs they declare, the publications, the reloads and the losses.
THEOREM TuneInvariance == TuneSpec => []TuneInv
<1>1. TuneInit => TuneInv
  BY TuneInitHolds
<1>2. TuneInv /\ [TuneNext]_tuneVars => TuneInv'
  BY TuneStepKeeps
<1> QED
  BY <1>1, <1>2, PTL DEF TuneSpec

\* What is tuned on the page is what an accept carries, and a chip that spins when the
\* generation is done is about to hear of it.
THEOREM TunesStayAsShown == TuneSpec => []TunesAsShown
<1>1. TuneInv => TunesAsShown
  BY TuneInvShows
<1> QED
  BY <1>1, TuneInvariance, PTL

-----------------------------------------------------------------------------
(* The generations, whichever of their parts runs.                         *)

LEMMA GenerationsBegin == GenerationInit => GenerationsInv
<1> SUFFICES ASSUME GenerationInit PROVE GenerationsInv
  OBVIOUS
<1>1. /\ AgentInit /\ LiveInit /\ CopyInit /\ PreviewInit /\ CaptureInit /\ TuneInit
      /\ part \in GenerationParts
  BY DEF GenerationInit
<1> QED
  BY <1>1, AgentInitInv, LiveInitInv, CopyInitially, PreviewTypesBegin, PreviewStarts,
     CaptureBegins, TuneInitHolds DEF GenerationsInv, GenerationParts

LEMMA RunsOn == GenerationNext => UNCHANGED part
BY DEF GenerationNext, TargetStep, SessionStep, EditStep, PreviewStep, CaptureStep,
       TuneStep, OthersRest

\* A part that rests stays as it is, and the one that runs takes a step of its own.
LEMMA GenerationsKeep ==
  ASSUME GenerationsInv, GenerationNext
  PROVE  GenerationsInv'
<1>1. UNCHANGED part
  BY RunsOn
<1>2. CASE TargetStep
  BY <1>1, <1>2, AgentKept DEF TargetStep, GenerationsInv
<1>3. CASE SessionStep
  BY <1>1, <1>3, LiveStepInv DEF SessionStep, GenerationsInv
<1>4. CASE EditStep
  BY <1>1, <1>4, CopyKept DEF EditStep, GenerationsInv
<1>5. CASE PreviewStep
  BY <1>1, <1>5, PreviewTypesStay, PreviewKept DEF PreviewStep, GenerationsInv
<1>6. CASE CaptureStep
  BY <1>1, <1>6, CaptureStepInv DEF CaptureStep, GenerationsInv
<1>7. CASE TuneStep
  BY <1>1, <1>7, TuneStepKeeps DEF TuneStep, GenerationsInv
<1> QED
  BY <1>2, <1>3, <1>4, <1>5, <1>6, <1>7 DEF GenerationNext

\* Whichever part of the generations runs, each of its steps leaves it as that part has
\* to be.
THEOREM GenerationsInvariance == GenerationSpec => []GenerationsInv
<1>1. GenerationsInv /\ part \in GenerationParts /\ UNCHANGED generationVars
        => GenerationsInv'
  <2> SUFFICES ASSUME GenerationsInv, part \in GenerationParts, UNCHANGED generationVars
               PROVE  GenerationsInv'
    OBVIOUS
  <2>1. /\ UNCHANGED part /\ UNCHANGED agentVars /\ UNCHANGED liveVars
        /\ UNCHANGED copyVars /\ UNCHANGED previewVars /\ UNCHANGED captureVars
        /\ UNCHANGED tuneVars
    BY DEF generationVars
  <2>2. /\ AgentInv => AgentInv'
        /\ LiveInv => LiveInv'
        /\ CopyInv => CopyInv'
        /\ PreviewTypeOK => PreviewTypeOK'
        /\ PreviewInv => PreviewInv'
        /\ CaptureInv => CaptureInv'
        /\ TuneInv => TuneInv'
    BY <2>1, AgentKept, LiveStepInv, CopyKept, PreviewTypesStay, PreviewKept,
       CaptureStepInv, TuneStepKeeps
  <2> QED
    BY <2>1, <2>2 DEF GenerationsInv, GenerationParts
<1> DEFINE Inv == GenerationsInv /\ part \in GenerationParts
<1>2. Inv /\ [GenerationNext]_generationVars => Inv'
  <2>1. part \in GenerationParts /\ [GenerationNext]_generationVars
          => part' \in GenerationParts
    BY RunsOn DEF generationVars
  <2> QED
    BY <1>1, <2>1, GenerationsKeep, Zenon
<1>3. GenerationInit => Inv
  BY GenerationsBegin DEF GenerationInit
<1>4. Inv => GenerationsInv
  OBVIOUS
<1> HIDE DEF Inv
<1> QED
  BY <1>2, <1>3, <1>4, PTL DEF GenerationSpec
=============================================================================
