------------------------------ MODULE WebProofs ------------------------------
(* TLAPS proofs about the machines of the web interface, for every number  *)
(* of moves, texts, rows, pages, organizations, submissions, links and     *)
(* requests.  Each machine has an inductive invariant of its own, proved   *)
(* over its own steps; the last part carries these over to behaviours of   *)
(* MCWeb, where the steps of one machine leave the others as they are.     *)
EXTENDS MCWeb, SequenceTheorems, FiniteSetTheorems, TLAPS

-----------------------------------------------------------------------------
(* Forms *)

(* A form as FormTable has it: what stays open follows its answer, and     *)
(* what does not send a blank keeps it.                                    *)
LEMMA FormRows ==
  ASSUME form \in Forms
  PROVE  /\ InForm!F.after # "closes" => InForm!F.refills = TRUE
         /\ InForm!F.blank # "null" => InForm!F.unset = "kept"
         /\ InForm!F.refills \in BOOLEAN
         /\ InForm!F.unset \in {"kept", "cleared"}
<1>1. form \in {"organization", "pack", "rule", "artifact", "provider", "usage", "profile"}
  BY FormsAssumption DEF InForm!FormTable
<1> USE DEF InForm!F, InForm!FormTable, InForm!OrganizationForm, InForm!PackForm, InForm!RuleForm,
            InForm!ArtifactForm, InForm!ProviderForm, InForm!UsageForm, InForm!Profile
<1>2. CASE form = "organization"
  BY <1>2
<1>3. CASE form = "pack"
  BY <1>3
<1>4. CASE form = "rule"
  BY <1>4
<1>5. CASE form = "artifact"
  BY <1>5
<1>6. CASE form = "provider"
  BY <1>6
<1>7. CASE form = "usage"
  BY <1>7
<1>8. CASE form = "profile"
  BY <1>8
<1> QED BY <1>1, <1>2, <1>3, <1>4, <1>5, <1>6, <1>7, <1>8

(* A submission of a form *)
Submission ==
  [step : {"sent", "done", "waiting"}, shown : InForm!Records, touched : SUBSET InForm!Fields,
   behind : BOOLEAN, alone : BOOLEAN]

(* A record is its two fields. *)
LEMMA FormRecords ==
  ASSUME NEW r, r = [f \in InForm!Fields |-> r[f]],
         r["must"] \in FormTexts, r["may"] \in MoreTexts \cup {InForm!Blank}
  PROVE  r \in InForm!Records
BY DEF InForm!Records, InForm!Fields

LEMMA RecordFields ==
  ASSUME NEW r \in InForm!Records
  PROVE  /\ r = [f \in InForm!Fields |-> r[f]]
         /\ r["must"] \in FormTexts /\ r["may"] \in MoreTexts \cup {InForm!Blank}
BY DEF InForm!Records, InForm!Fields

(* A record that takes a body stays a record. *)
LEMMA PatchedIsRecord ==
  ASSUME NEW r \in InForm!Records, NEW shown \in InForm!Records
  PROVE  InForm!Patched(r, InForm!Body(shown)) \in InForm!Records
<1> DEFINE p == InForm!Patched(r, InForm!Body(shown))
<1>1. p = [f \in InForm!Fields |-> p[f]]
  BY DEF InForm!Patched
<1>2. /\ r["must"] \in FormTexts /\ r["may"] \in MoreTexts \cup {InForm!Blank}
      /\ shown["must"] \in FormTexts /\ shown["may"] \in MoreTexts \cup {InForm!Blank}
  BY RecordFields
<1>3. p["must"] \in FormTexts /\ p["may"] \in MoreTexts \cup {InForm!Blank}
  BY <1>2, FormsAssumption DEF InForm!Patched, InForm!Body, InForm!Fields, InForm!Blank
<1> QED BY <1>1, <1>3, FormRecords

(* A sequence of one whose entry changes *)
LEMMA OneEntry ==
  ASSUME NEW s, NEW x
  PROVE  [<<s>> EXCEPT ![1] = x] = <<x>> /\ <<s>>[1] = s
OBVIOUS

(* A call that is not alone any more *)
LEMMA EachAlone ==
  ASSUME NEW s
  PROVE  [i \in DOMAIN <<s>> |-> [<<s>>[i] EXCEPT !.alone = FALSE]] = <<[s EXCEPT !.alone = FALSE]>>
<1> DEFINE g == [i \in DOMAIN <<s>> |-> [<<s>>[i] EXCEPT !.alone = FALSE]]
           x == [s EXCEPT !.alone = FALSE]
<1>1. g = [i \in DOMAIN <<s>> |-> x]
  <2>1. \A i \in DOMAIN <<s>> : <<s>>[i] = s
    OBVIOUS
  <2> QED BY <2>1
<1>2. [<<s>> EXCEPT ![1] = x] = [i \in DOMAIN <<s>> |-> x]
  <2>1. DOMAIN <<s>> = {1}
    OBVIOUS
  <2> HIDE DEF x
  <2> QED BY <2>1
<1>3. g = [<<s>> EXCEPT ![1] = x]
  BY <1>1, <1>2
<1> HIDE DEF g, x
<1>4. g = <<x>>
  BY <1>3, OneEntry
<1> QED BY <1>4 DEF g, x

(* The shapes of the form, its record and its calls; a form that stays     *)
(* open is open                                                            *)
FormShapes ==
  /\ form \in Forms
  /\ record \in InForm!Records /\ cached \in InForm!Records /\ answer \in InForm!Records
  /\ base \in InForm!Records /\ draft \in InForm!Records
  /\ owner \in [InForm!Fields -> {"others", "unsure", "user"}]
  /\ asked \in {"no", "sent", "answered"}
  /\ old \in BOOLEAN /\ behind \in BOOLEAN /\ opened \in BOOLEAN
  /\ touched \subseteq InForm!Fields
  /\ InForm!F.after # "closes" => opened
  /\ patch # <<>> => \E s \in Submission : patch = <<s>>
  /\ patch # <<>> /\ InForm!Sent.step = "waiting" => InForm!F.after = "waits" /\ asked # "no"
  /\ accepted # <<>> => \E r \in InForm!Records : accepted = <<r>>
  /\ edits \in 0..MaxEdits

(* A record is what was accepted of it. *)
Agrees(r, s) ==
  \A f \in InForm!Fields : r[f] = s[f] \/ (s[f] = InForm!Blank /\ InForm!F.unset = "kept")

Served == patch # <<>> /\ InForm!Sent.step = "done"

(* A submission that nobody interfered with is the record once it is       *)
(* served; once it is accepted, whatever is read is it.                    *)
AcceptedInv ==
  /\ Served /\ InForm!Sent.alone => Agrees(record, InForm!Sent.shown)
  /\ accepted # <<>> /\ ~Served =>
       /\ Agrees(record, accepted[1])
       /\ asked = "answered" => answer = record
       /\ asked = "no" /\ ~old => cached = record

(* What the user set last is in every answer that is not known to be old,  *)
(* and in the fields of the form that were not touched since.              *)
OwnInv ==
  /\ InForm!F.refills /\ opened => base = cached
  /\ \A f \in InForm!Fields :
       /\ f \notin touched => draft[f] = base[f]
       /\ owner[f] = "user" =>
            /\ ~old => cached[f] = record[f]
            /\ asked = "answered" => answer[f] = record[f]
            /\ opened /\ ~behind /\ f \notin touched /\ (~old \/ InForm!F.after = "closes")
                 => draft[f] = record[f]
            /\ patch # <<>> /\ InForm!Sent.step = "sent" /\ ~InForm!Sent.behind /\ f \notin InForm!Sent.touched
                 => InForm!Sent.shown[f] = record[f]

FormIInv == FormShapes /\ AcceptedInv /\ OwnInv

LEMMA FormIInit == InForm!FormInit => FormIInv
<1> SUFFICES ASSUME InForm!FormInit PROVE FormIInv
  OBVIOUS
<1> USE DEF InForm!FormInit
<1>1. FormShapes
  <2>1. edits \in 0..MaxEdits
    BY BoundsAssumption
  <2>2. opened \in BOOLEAN
    OBVIOUS
  <2> QED BY <2>1, <2>2 DEF FormShapes
<1>2. AcceptedInv /\ OwnInv
  BY DEF AcceptedInv, OwnInv, Served
<1> QED BY <1>1, <1>2 DEF FormIInv

(* What a service makes of a submission *)
LEMMA PatchedAgrees ==
  ASSUME form \in Forms, NEW r \in InForm!Records, NEW shown \in InForm!Records
  PROVE  LET p == InForm!Patched(r, InForm!Body(shown))
         IN /\ p \in InForm!Records
            /\ Agrees(p, shown)
            /\ \A f \in InForm!Fields : shown[f] = r[f] => p[f] = r[f]
<1> DEFINE p == InForm!Patched(r, InForm!Body(shown))
<1>1. \A f \in InForm!Fields : shown[f] # "null"
  BY RecordFields, FormsAssumption DEF InForm!Fields, InForm!Blank
<1>2. ASSUME NEW f \in InForm!Fields
      PROVE  p[f] = shown[f] \/ (shown[f] = InForm!Blank /\ p[f] = r[f] /\ InForm!F.unset = "kept")
  <2>1. CASE shown[f] # InForm!Blank
    BY <1>1, <2>1 DEF InForm!Patched, InForm!Body
  <2>2. CASE shown[f] = InForm!Blank /\ InForm!F.blank = "null" /\ InForm!F.unset = "cleared"
    BY <1>1, <2>2 DEF InForm!Patched, InForm!Body
  <2>3. CASE shown[f] = InForm!Blank /\ InForm!F.blank = "null" /\ InForm!F.unset # "cleared"
    BY <1>1, <2>3, FormRows DEF InForm!Patched, InForm!Body
  <2>4. CASE shown[f] = InForm!Blank /\ InForm!F.blank # "null"
    BY <1>1, <2>4, FormRows DEF InForm!Patched, InForm!Body
  <2> QED BY <2>1, <2>2, <2>3, <2>4
<1>3. p \in InForm!Records
  BY PatchedIsRecord
<1>4. Agrees(p, shown)
  BY <1>2 DEF Agrees
<1>5. \A f \in InForm!Fields : shown[f] = r[f] => p[f] = r[f]
  BY <1>2
<1> QED BY <1>3, <1>4, <1>5

(* What a form, its record and the others do keeps the invariant. *)
LEMMA FormIStep == FormIInv /\ [InForm!FormNext]_formVars => FormIInv'
<1> SUFFICES ASSUME FormIInv, [InForm!FormNext]_formVars PROVE FormIInv'
  OBVIOUS
<1>s. FormShapes /\ AcceptedInv /\ OwnInv
  BY DEF FormIInv
<1>f. /\ InForm!F.after # "closes" => InForm!F.refills = TRUE
      /\ InForm!F.refills \in BOOLEAN
  BY <1>s, FormRows DEF FormShapes
<1>p. ASSUME patch # <<>>
      PROVE  patch = <<patch[1]>> /\ patch[1] \in Submission
  BY <1>s, <1>p DEF FormShapes
<1> USE DEF FormIInv, InForm!Sent, Served
<1>1. CASE InForm!Open
  <2> USE <1>1, <1>s DEF InForm!Open, InForm!Fill
  <2>1. FormShapes'
    BY DEF FormShapes, InForm!F
  <2>2. AcceptedInv'
    BY DEF AcceptedInv, Agrees, InForm!F
  <2>3. OwnInv'
    BY DEF OwnInv, InForm!F, FormShapes
  <2> QED BY <2>1, <2>2, <2>3
<1>2. CASE InForm!Close
  <2> USE <1>2, <1>s DEF InForm!Close
  <2>1. FormShapes'
    BY DEF FormShapes, InForm!F
  <2>2. AcceptedInv'
    BY DEF AcceptedInv, Agrees, InForm!F
  <2>3. OwnInv'
    BY DEF OwnInv, InForm!F
  <2> QED BY <2>1, <2>2, <2>3
<1>3. CASE InForm!SubmitForm
  <2> USE <1>3, <1>s DEF InForm!SubmitForm
  <2> DEFINE s == [step |-> "sent", shown |-> draft, touched |-> touched, behind |-> behind \/ old, alone |-> TRUE]
  <2>0. s \in Submission /\ s.step = "sent" /\ s.shown = draft /\ s.touched = touched /\ s.behind = (behind \/ old)
    BY DEF Submission, FormShapes
  <2>1. patch' = <<s>> /\ patch'[1] = s
    OBVIOUS
  <2> HIDE DEF s
  <2>2. FormShapes'
    <3>1. edits' \in 0..MaxEdits
      BY BoundsAssumption DEF FormShapes
    <3> QED BY <2>0, <2>1, <3>1 DEF FormShapes, InForm!F
  <2>3. AcceptedInv'
    BY <2>0, <2>1 DEF AcceptedInv, Agrees, InForm!F
  <2>4. OwnInv'
    BY <2>0, <2>1 DEF OwnInv, InForm!F, FormShapes
  <2> QED BY <2>2, <2>3, <2>4
<1>4. CASE InForm!ServeForm
  <2> USE <1>4, <1>s, <1>p DEF InForm!ServeForm
  <2> DEFINE s == patch[1]
             t == [s EXCEPT !.step = "done"]
  <2>0. s \in Submission /\ s.step = "sent" /\ patch = <<s>>
    OBVIOUS
  <2>1. patch' = <<t>> /\ patch'[1] = t
    BY <2>0, OneEntry
  <2>2. t \in Submission /\ t.step = "done" /\ t.shown = s.shown /\ t.touched = s.touched
    BY <2>0 DEF Submission
  <2>3. s.shown \in InForm!Records /\ record' = InForm!Patched(record, InForm!Body(s.shown))
    BY <2>0 DEF Submission
  <2>4. /\ record' \in InForm!Records /\ Agrees(record', s.shown)
        /\ \A f \in InForm!Fields : s.shown[f] = record[f] => record'[f] = record[f]
    BY <2>3, PatchedAgrees DEF FormShapes
  <2> HIDE DEF s, t
  <2>5. FormShapes'
    BY <2>0, <2>1, <2>2, <2>4 DEF FormShapes, InForm!F
  <2>6. AcceptedInv'
    <3>1. InForm!F' = InForm!F
      BY DEF InForm!F
    <3>2. \A f \in InForm!Fields :
            record'[f] = t.shown[f] \/ (t.shown[f] = InForm!Blank /\ InForm!F.unset = "kept")
      BY <2>2, <2>4 DEF Agrees
    <3>3. Served'
      BY <2>1, <2>2
    <3>4. Agrees(record, InForm!Sent.shown)'
      BY <2>1, <3>1, <3>2 DEF Agrees
    <3> QED BY ONLY <3>3, <3>4 DEF AcceptedInv
  <2>7. OwnInv'
    <3>1. \A f \in InForm!Fields : owner'[f] = "user" => record'[f] = record[f] /\ owner[f] = "user"
      BY DEF FormShapes
    <3> QED BY <2>1, <2>2, <3>1 DEF OwnInv, InForm!F
  <2> QED BY <2>5, <2>6, <2>7
<1>5. CASE InForm!Accept
  <2> USE <1>5, <1>s, <1>p DEF InForm!Accept
  <2> DEFINE s == patch[1]
             t == [s EXCEPT !.step = "waiting"]
  <2>0. s \in Submission /\ s.step = "done" /\ patch = <<s>> /\ InForm!F' = InForm!F
    BY DEF InForm!F
  <2>1. t \in Submission /\ t.step = "waiting" /\ s.shown \in InForm!Records
    BY <2>0 DEF Submission
  <2>2. patch' = <<>> \/ (patch' = <<t>> /\ patch'[1] = t /\ InForm!F.after = "waits")
    BY <2>0, OneEntry
  <2> HIDE DEF s, t
  <2>3. FormShapes'
    <3>1. owner' \in [InForm!Fields -> {"others", "unsure", "user"}]
      BY DEF FormShapes, InForm!Settled
    <3>2. accepted' # <<>> => accepted' = <<s.shown>>
      BY DEF s
    <3> QED BY <2>0, <2>1, <2>2, <3>1, <3>2 DEF FormShapes
  <2>4. AcceptedInv'
    <3>1. ~Served' /\ asked' = "sent"
      BY <2>1, <2>2
    <3>2. accepted' # <<>> => accepted' = <<s.shown>> /\ Agrees(record, s.shown)
      BY DEF AcceptedInv, s
    <3> QED BY <2>0, <3>1, <3>2 DEF AcceptedInv, Agrees
  <2>5. OwnInv'
    <3>1. old' /\ asked' = "sent" /\ (opened' => InForm!F.after # "closes")
      BY <2>1, <2>2
    <3>2. patch' # <<>> => patch'[1].step = "waiting"
      BY <2>1, <2>2
    <3> QED BY <2>0, <3>1, <3>2 DEF OwnInv
  <2> QED BY <2>3, <2>4, <2>5
<1>6. CASE InForm!Decline
  <2> USE <1>6, <1>s DEF InForm!Decline
  <2>0. InForm!F' = InForm!F
    BY DEF InForm!F
  <2>1. FormShapes'
    <3>1. owner' \in [InForm!Fields -> {"others", "unsure", "user"}]
      BY DEF FormShapes, InForm!Settled
    <3> QED BY <2>0, <3>1 DEF FormShapes
  <2>2. AcceptedInv'
    BY <2>0 DEF AcceptedInv, Agrees
  <2>3. OwnInv'
    <3>1. \A f \in InForm!Fields : owner'[f] = "user" => owner[f] = "user"
      BY DEF InForm!Settled
    <3> QED BY <2>0, <3>1 DEF OwnInv
  <2> QED BY <2>1, <2>2, <2>3
<1>7. ASSUME NEW f \in InForm!Fields, NEW text, InForm!Type(f, text) PROVE FormIInv'
  <2> USE <1>7, <1>s DEF InForm!Type
  <2>0. InForm!F' = InForm!F
    BY DEF InForm!F
  <2>1. FormShapes'
    BY <2>0 DEF FormShapes
  <2>2. AcceptedInv'
    BY <2>0 DEF AcceptedInv, Agrees
  <2>3. OwnInv'
    <3>1. \A g \in InForm!Fields : g \notin touched' => g \notin touched /\ draft'[g] = draft[g]
      BY RecordFields DEF FormShapes
    <3> QED BY <2>0, <3>1 DEF OwnInv
  <2> QED BY <2>1, <2>2, <2>3
<1>8. CASE InForm!AskRecord
  <2> USE <1>8, <1>s DEF InForm!AskRecord
  <2>0. InForm!F' = InForm!F
    BY DEF InForm!F
  <2>1. FormShapes'
    BY <2>0 DEF FormShapes
  <2>2. AcceptedInv'
    BY <2>0 DEF AcceptedInv, Agrees
  <2>3. OwnInv'
    BY <2>0 DEF OwnInv
  <2> QED BY <2>1, <2>2, <2>3
<1>9. CASE InForm!ServeRecord
  <2> USE <1>9, <1>s DEF InForm!ServeRecord
  <2>0. InForm!F' = InForm!F
    BY DEF InForm!F
  <2>1. FormShapes'
    BY <2>0 DEF FormShapes
  <2>2. AcceptedInv'
    BY <2>0 DEF AcceptedInv, Agrees
  <2>3. OwnInv'
    BY <2>0 DEF OwnInv
  <2> QED BY <2>1, <2>2, <2>3
<1>10. CASE InForm!TakeRecord
  <2> USE <1>10, <1>s, <1>f, <1>p DEF InForm!TakeRecord, InForm!Settle
  <2>0. InForm!F' = InForm!F
    BY DEF InForm!F
  <2>1. FormShapes'
    BY <2>0 DEF FormShapes, InForm!Fill
  <2>2. AcceptedInv'
    BY <2>0 DEF AcceptedInv, Agrees
  <2>3. OwnInv'
    <3>1. CASE opened /\ InForm!F.refills /\ answer # cached
      BY <2>0, <3>1 DEF OwnInv, InForm!Fill
    <3>2. CASE ~(opened /\ InForm!F.refills /\ answer # cached)
      <4>1. base' = base /\ behind' = behind /\ draft' = draft /\ touched' = touched
        BY <3>2
      <4>2. CASE InForm!F.refills /\ opened
        BY <2>0, <3>2, <4>1, <4>2 DEF OwnInv
      <4>3. CASE ~InForm!F.refills \/ ~opened
        BY <2>0, <4>1, <4>3 DEF OwnInv
      <4> QED BY <4>2, <4>3
    <3> QED BY <3>1, <3>2
  <2> QED BY <2>1, <2>2, <2>3
<1>11. CASE InForm!LoseRecord
  <2> USE <1>11, <1>s DEF InForm!LoseRecord, InForm!Settle
  <2>0. InForm!F' = InForm!F
    BY DEF InForm!F
  <2>1. FormShapes'
    BY <2>0 DEF FormShapes
  <2>2. AcceptedInv'
    BY <2>0 DEF AcceptedInv, Agrees
  <2>3. OwnInv'
    BY <2>0 DEF OwnInv
  <2> QED BY <2>1, <2>2, <2>3
<1>12. CASE InForm!Others
  <2> USE <1>12, <1>s DEF InForm!Others
  <2> DEFINE t == [patch[1] EXCEPT !.alone = FALSE]
  <2>0. InForm!F' = InForm!F
    BY DEF InForm!F
  <2>1. (patch' # <<>>) = (patch # <<>>)
    BY <1>p
  <2>2. patch # <<>> => patch' = <<t>> /\ patch'[1] = t
    <3>1. patch' = [i \in DOMAIN patch |-> [patch[i] EXCEPT !.alone = FALSE]]
      OBVIOUS
    <3> QED BY <1>p, <3>1, EachAlone
  <2>3. patch # <<>> => /\ t \in Submission /\ t.step = patch[1].step /\ t.shown = patch[1].shown
                        /\ t.touched = patch[1].touched /\ t.behind = patch[1].behind
                        /\ t.alone = FALSE
    BY <1>p DEF Submission
  <2> HIDE DEF t
  <2>4. FormShapes'
    <3>1. owner' \in [InForm!Fields -> {"others", "unsure", "user"}]
      BY DEF FormShapes
    <3>2. edits' \in 0..MaxEdits
      BY BoundsAssumption DEF FormShapes
    <3> QED BY <2>0, <2>1, <2>2, <2>3, <3>1, <3>2 DEF FormShapes
  <2>5. AcceptedInv'
    BY <2>0, <2>1, <2>2, <2>3 DEF AcceptedInv
  <2>6. OwnInv'
    <3>1. \A f \in InForm!Fields : owner'[f] = "user" => owner[f] = "user" /\ record'[f] = record[f]
      OBVIOUS
    <3> QED BY <2>0, <2>1, <2>2, <2>3, <3>1 DEF OwnInv
  <2> QED BY <2>4, <2>5, <2>6
<1>13. CASE UNCHANGED formVars
  <2>0. InForm!F' = InForm!F
    BY <1>13 DEF InForm!F, formVars
  <2> QED BY <1>13, <1>s, <2>0 DEF formVars, FormShapes, AcceptedInv, Agrees, OwnInv
<1> QED
  BY <1>1, <1>2, <1>3, <1>4, <1>5, <1>6, <1>7, <1>8, <1>9, <1>10, <1>11, <1>12, <1>13
     DEF InForm!FormNext

(* The invariant says what the runs check of forms. *)
LEMMA FormFacts ==
  /\ FormIInv => InForm!FormsTypeOK /\ InForm!AcceptedIsShown
  /\ FormIInv /\ InForm!FormNext => InForm!KeepsOwnEdit
<1>1. FormIInv => InForm!FormsTypeOK
  BY RecordFields DEF FormIInv, FormShapes, InForm!FormsTypeOK, Submission, InForm!Sent
<1>2. FormIInv => InForm!AcceptedIsShown
  BY DEF FormIInv, AcceptedInv, InForm!AcceptedIsShown, Served, Agrees, InForm!Sent
<1>3. ASSUME FormIInv, patch # <<>>, patch' # <<>>, InForm!Sent.step = "sent", InForm!Sent'.step = "done",
             InForm!FormNext
      PROVE  InForm!KeepsOwnEdit
  <2>1. InForm!ServeForm
    <3>p. patch = <<patch[1]>> /\ patch[1] \in Submission
      BY <1>3 DEF FormIInv, FormShapes
    <3>1. ASSUME InForm!Others PROVE FALSE
      <4>1. patch' = <<[patch[1] EXCEPT !.alone = FALSE]>>
        BY <3>1, <3>p, EachAlone DEF InForm!Others
      <4>2. patch'[1].step = "sent"
        BY <1>3, <3>p, <4>1 DEF Submission, InForm!Sent
      <4> QED BY <1>3, <4>2 DEF InForm!Sent
    <3>2. ~InForm!Accept
      BY <1>3 DEF InForm!Accept, InForm!Sent
    <3>3. ~InForm!SubmitForm /\ ~InForm!Decline
      BY <1>3 DEF InForm!SubmitForm, InForm!Decline
    <3>4. ASSUME patch' = patch PROVE FALSE
      BY <1>3, <3>4 DEF InForm!Sent
    <3>5. ASSUME InForm!TakeRecord \/ InForm!LoseRecord PROVE FALSE
      BY <1>3, <3>4, <3>5 DEF InForm!TakeRecord, InForm!LoseRecord, InForm!Settle, InForm!Sent
    <3> QED BY <1>3, <3>1, <3>2, <3>3, <3>4, <3>5
            DEF InForm!FormNext, InForm!Open, InForm!Close, InForm!Type, InForm!AskRecord, InForm!ServeRecord
  <2>2. ASSUME NEW f \in InForm!Fields, owner[f] = "user", f \notin InForm!Sent.touched, ~InForm!Sent.behind
        PROVE  record'[f] = record[f]
    <3>1. InForm!Sent.shown[f] = record[f] /\ record \in InForm!Records /\ form \in Forms
      BY <1>3, <2>2 DEF FormIInv, OwnInv, FormShapes
    <3>2. InForm!Sent.shown \in InForm!Records
      BY <1>3 DEF FormIInv, FormShapes, Submission, InForm!Sent
    <3> QED BY <2>1, <3>1, <3>2, PatchedAgrees DEF InForm!ServeForm
  <2> QED BY <2>2 DEF InForm!KeepsOwnEdit
<1> QED BY <1>1, <1>2, <1>3 DEF InForm!KeepsOwnEdit

-----------------------------------------------------------------------------
(* The list of artifacts and its address *)

(* The shapes of the history, the list and what is on its way *)
AddressShapes ==
  /\ entries \in Seq(AtAddress!Queries)
  /\ at \in 1..Len(entries)
  /\ local \in AtAddress!Queries /\ debounced \in Searches
  /\ frame # <<>> => \E url \in AtAddress!Queries : frame = <<url>>
  /\ nav # <<>> => \E kind \in {"push", "replace"}, url \in AtAddress!Queries :
                     nav = <<[kind |-> kind, url |-> url]>>
  /\ overtaken \in BOOLEAN

(* The list but for its search, which is in the field before it is in the  *)
(* address *)
SameBut(x, url) == x.page = url.page /\ x.type = url.type

(* What is to be copied is the address; a search that has rested is in the *)
(* address or on its way there; a list that has nothing to copy is that of *)
(* its address, or a navigation that will change the address is on its way.*)
AddressInv ==
  /\ frame # <<>> => frame[1] = AtAddress!Url
  /\ nav = <<>> => debounced = AtAddress!Url.search
  /\ frame = <<>> /\ ~overtaken /\ (nav # <<>> => nav[1].url = AtAddress!Url)
       => SameBut(local, AtAddress!Url)

AddressIInv == AddressShapes /\ AddressInv

(* What changes in the query of a list *)
LEMMA QueryFields ==
  ASSUME NEW q \in AtAddress!Queries
  PROVE  q.page \in Pages /\ q.search \in Searches /\ q.type \in {"all", "one"}
BY DEF AtAddress!Queries

LEMMA SameQuery ==
  ASSUME NEW q \in AtAddress!Queries, NEW r \in AtAddress!Queries,
         q.page = r.page, q.search = r.search, q.type = r.type
  PROVE  q = r
BY DEF AtAddress!Queries

LEMMA SearchSet ==
  ASSUME NEW q \in AtAddress!Queries, NEW text \in Searches
  PROVE  LET r == [q EXCEPT !.search = text]
         IN r \in AtAddress!Queries /\ r.search = text /\ SameBut(r, q)
BY DEF AtAddress!Queries, SameBut

LEMMA SearchSent ==
  ASSUME NEW q \in AtAddress!Queries, NEW text \in Searches
  PROVE  LET r == [q EXCEPT !.search = text, !.page = 1]
         IN r \in AtAddress!Queries /\ r.search = text
<1> DEFINE s == [q EXCEPT !.search = text]
<1>1. s \in AtAddress!Queries /\ s.search = text
  BY DEF AtAddress!Queries
<1> HIDE DEF s
<1>2. LET r == [s EXCEPT !.page = 1] IN r \in AtAddress!Queries /\ r.search = text
  BY <1>1, AddressAssumption DEF AtAddress!Queries
<1> QED BY <1>2 DEF s

LEMMA PageSet ==
  ASSUME NEW q \in AtAddress!Queries, NEW page \in Pages
  PROVE  [q EXCEPT !.page = page] \in AtAddress!Queries /\ [q EXCEPT !.page = page].page = page
BY DEF AtAddress!Queries

LEMMA TypeSet ==
  ASSUME NEW q \in AtAddress!Queries, NEW type \in {"all", "one"}
  PROVE  LET r == [q EXCEPT !.type = type, !.page = 1]
         IN r \in AtAddress!Queries /\ r.type = type
<1> DEFINE s == [q EXCEPT !.type = type]
<1>1. s \in AtAddress!Queries /\ s.type = type
  BY DEF AtAddress!Queries
<1> HIDE DEF s
<1>2. LET r == [s EXCEPT !.page = 1] IN r \in AtAddress!Queries /\ r.type = type
  BY <1>1, AddressAssumption DEF AtAddress!Queries
<1> QED BY <1>2 DEF s

LEMMA PlainIsQuery == AtAddress!Plain \in AtAddress!Queries
BY AddressAssumption DEF AtAddress!Plain, AtAddress!Queries

(* A navigation on its way has its fields. *)
LEMMA NavEntry ==
  ASSUME NEW kind, NEW url
  PROVE  /\ <<[kind |-> kind, url |-> url]>> # <<>>
         /\ <<[kind |-> kind, url |-> url]>>[1].url = url
         /\ <<[kind |-> kind, url |-> url]>>[1].kind = kind
OBVIOUS

(* The effects of a render at an address *)
LEMMA EffectsKeep ==
  ASSUME NEW url \in AtAddress!Queries, NEW changed, NEW text \in Searches, NEW f, NEW n,
         f # <<>> => \E u \in AtAddress!Queries : f = <<u>>,
         n # <<>> => \E kind \in {"push", "replace"}, u \in AtAddress!Queries : n = <<[kind |-> kind, url |-> u]>>,
         AtAddress!Effects(url, changed, text, f, n)
  PROVE  /\ frame' # <<>> => \E u \in AtAddress!Queries : frame' = <<u>>
         /\ nav' # <<>> => \E kind \in {"push", "replace"}, u \in AtAddress!Queries :
                             nav' = <<[kind |-> kind, url |-> u]>>
         /\ changed => frame' = <<url>> /\ frame' # <<>> /\ frame'[1] = url
         /\ ~changed => frame' = f
         /\ text # url.search => nav' # <<>> /\ nav'[1].url # url
         /\ text = url.search => nav' = n
<1> USE DEF AtAddress!Effects
<1>1. CASE text # url.search
  <2> DEFINE u == [url EXCEPT !.search = text, !.page = 1]
  <2>1. u \in AtAddress!Queries /\ u # url
    BY <1>1, SearchSent
  <2>2. nav' = <<[kind |-> "replace", url |-> u]>>
    BY <1>1 DEF AtAddress!Replace
  <2> HIDE DEF u
  <2>3. nav' # <<>> /\ nav'[1].url = u
    BY <2>2, NavEntry
  <2> QED BY <1>1, <2>1, <2>2, <2>3
<1>2. CASE text = url.search
  BY <1>2
<1> QED BY <1>1, <1>2

LEMMA AddressIInit == AtAddress!ListInit => AddressIInv
<1> SUFFICES ASSUME AtAddress!ListInit PROVE AddressIInv
  OBVIOUS
<1>1. PICK first \in AtAddress!Queries : entries = <<first>> /\ local = first
  BY PlainIsQuery DEF AtAddress!ListInit, AtAddress!Plain, AtAddress!Queries
<1>2. at = 1 /\ debounced = local.search /\ frame = <<local>> /\ nav = <<>> /\ overtaken = FALSE
  BY DEF AtAddress!ListInit
<1>3. entries \in Seq(AtAddress!Queries) /\ Len(entries) = 1 /\ entries[1] = first
  BY <1>1
<1>4. AddressShapes
  <2>1. local \in AtAddress!Queries /\ debounced \in Searches
    BY <1>1, <1>2, QueryFields
  <2>2. frame = <<first>> /\ at \in 1..Len(entries)
    BY <1>1, <1>2, <1>3
  <2> QED BY <1>2, <1>3, <2>1, <2>2 DEF AddressShapes
<1>5. AddressInv
  BY <1>1, <1>2, <1>3 DEF AddressInv, AtAddress!Url
<1> QED BY <1>4, <1>5 DEF AddressIInv

(* What the user, the timer, the router and the effects do keeps the       *)
(* invariant.                                                              *)
LEMMA AddressIStep == AddressIInv /\ [AtAddress!ListNext]_urlVars => AddressIInv'
<1> SUFFICES ASSUME AddressIInv, [AtAddress!ListNext]_urlVars PROVE AddressIInv'
  OBVIOUS
<1>s. AddressShapes /\ AddressInv
  BY DEF AddressIInv
<1>u. AtAddress!Url \in AtAddress!Queries
  BY <1>s, ElementOfSeq DEF AddressShapes, AtAddress!Url
<1>l. local \in AtAddress!Queries
  BY <1>s DEF AddressShapes
<1>q. /\ frame # <<>> => \E url \in AtAddress!Queries : frame = <<url>>
      /\ nav # <<>> => \E kind \in {"push", "replace"}, url \in AtAddress!Queries :
                         nav = <<[kind |-> kind, url |-> url]>>
  BY <1>s DEF AddressShapes
(* An act that starts a navigation, from a list that is changed with it *)
<1>n. ASSUME NEW kind \in {"push", "replace"}, NEW url \in AtAddress!Queries,
             nav' = <<[kind |-> kind, url |-> url]>>, AtAddress!Overtake,
             UNCHANGED <<entries, at, debounced, frame>>, local' \in AtAddress!Queries,
             SameBut(local, AtAddress!Url) /\ url = AtAddress!Url => SameBut(local', AtAddress!Url)
      PROVE  AddressIInv'
  <2>1. nav' # <<>> /\ nav'[1].url = url
    BY <1>n, NavEntry
  <2>2. AtAddress!Url' = AtAddress!Url
    BY <1>n DEF AtAddress!Url
  <2>3. AddressShapes'
    BY <1>n, <1>s DEF AddressShapes, AtAddress!Overtake
  <2>4. AddressInv'
    BY <1>n, <1>s, <2>1, <2>2 DEF AddressInv, AtAddress!Overtake
  <2> QED BY <2>3, <2>4 DEF AddressIInv
<1>1. ASSUME NEW text \in Searches, AtAddress!TypeSearch(text) PROVE AddressIInv'
  <2> USE <1>1 DEF AtAddress!TypeSearch
  <2>1. local' \in AtAddress!Queries /\ SameBut(local', local)
    BY <1>l, SearchSet
  <2>2. AddressShapes'
    BY <1>s, <2>1 DEF AddressShapes
  <2>3. AddressInv'
    BY <1>s, <2>1 DEF AddressInv, SameBut, AtAddress!Url
  <2> QED BY <2>2, <2>3 DEF AddressIInv
<1>2. ASSUME NEW type \in {"all", "one"}, AtAddress!Choose(type) PROVE AddressIInv'
  <2> DEFINE url == [AtAddress!Url EXCEPT !.type = type, !.page = 1]
  <2>1. url \in AtAddress!Queries /\ url.type = type
    BY <1>u, TypeSet
  <2>2. nav' = <<[kind |-> "replace", url |-> url]>>
    BY SMTT(30), <1>2 DEF AtAddress!Choose, AtAddress!Replace
  <2> HIDE DEF url
  <2>3. local' \in AtAddress!Queries
    BY <1>2, <1>l, TypeSet DEF AtAddress!Choose
  <2>4. ~(SameBut(local, AtAddress!Url) /\ url = AtAddress!Url)
    BY <1>2, <2>1 DEF AtAddress!Choose, SameBut
  <2>5. AtAddress!Overtake /\ UNCHANGED <<entries, at, debounced, frame>>
    BY <1>2 DEF AtAddress!Choose
  <2> QED BY SMTT(30), <2>1, <2>2, <2>3, <2>4, <2>5, <1>n
<1>3. ASSUME NEW page \in Pages, AtAddress!Turn(page) PROVE AddressIInv'
  <2> DEFINE url == [AtAddress!Url EXCEPT !.page = page]
  <2>1. url \in AtAddress!Queries /\ url.page = page
    BY <1>u, PageSet
  <2>2. nav' = <<[kind |-> "replace", url |-> url]>>
    BY <1>3 DEF AtAddress!Turn, AtAddress!Replace
  <2> HIDE DEF url
  <2>3. local' \in AtAddress!Queries
    BY <1>3, <1>l, PageSet DEF AtAddress!Turn
  <2>4. ~(SameBut(local, AtAddress!Url) /\ url = AtAddress!Url)
    BY <1>3, <2>1 DEF AtAddress!Turn, SameBut
  <2>5. AtAddress!Overtake /\ UNCHANGED <<entries, at, debounced, frame>>
    BY <1>3 DEF AtAddress!Turn
  <2> QED BY <2>1, <2>2, <2>3, <2>4, <2>5, <1>n
<1>4. CASE AtAddress!ClearFilters
  <2>1. nav' = <<[kind |-> "replace", url |-> AtAddress!Plain]>> /\ local' = AtAddress!Plain
    BY <1>4 DEF AtAddress!ClearFilters, AtAddress!Replace
  <2>2. AtAddress!Plain = AtAddress!Url => SameBut(local', AtAddress!Url)
    BY <2>1 DEF SameBut
  <2>3. AtAddress!Overtake /\ UNCHANGED <<entries, at, debounced, frame>>
    BY <1>4 DEF AtAddress!ClearFilters
  <2> QED BY <2>1, <2>2, <2>3, <1>n, PlainIsQuery
<1>5. CASE AtAddress!FollowLink
  <2>1. nav' = <<[kind |-> "push", url |-> AtAddress!Plain]>> /\ local' = local
    BY <1>5 DEF AtAddress!FollowLink
  <2>2. AtAddress!Overtake /\ UNCHANGED <<entries, at, debounced, frame>>
    BY <1>5 DEF AtAddress!FollowLink
  <2> QED BY <2>1, <2>2, <1>n, <1>l, PlainIsQuery
(* A render at an address, which may be another one *)
<1>e. ASSUME NEW url \in AtAddress!Queries, url = AtAddress!Url',
             AtAddress!Effects(url, url # AtAddress!Url, debounced, frame, <<>>),
             entries' \in Seq(AtAddress!Queries), at' \in 1..Len(entries'),
             UNCHANGED <<local, debounced>>, overtaken' \in BOOLEAN,
             ~overtaken' => ~overtaken /\ (nav # <<>> => nav[1].url = url)
      PROVE  AddressIInv'
  <2>d. debounced \in Searches
    BY <1>s DEF AddressShapes
  <2>1. /\ frame' # <<>> => \E u \in AtAddress!Queries : frame' = <<u>>
        /\ nav' # <<>> => \E kind \in {"push", "replace"}, u \in AtAddress!Queries :
                            nav' = <<[kind |-> kind, url |-> u]>>
        /\ url # AtAddress!Url => frame' # <<>> /\ frame'[1] = url
        /\ url = AtAddress!Url => frame' = frame
        /\ debounced # url.search => nav' # <<>> /\ nav'[1].url # url
        /\ debounced = url.search => nav' = <<>>
    <3> DEFINE changed == url # AtAddress!Url
    <3>1. AtAddress!Effects(url, changed, debounced, frame, <<>>)
      BY <1>e
    <3> HIDE DEF changed
    <3>2. /\ frame' # <<>> => \E u \in AtAddress!Queries : frame' = <<u>>
          /\ nav' # <<>> => \E kind \in {"push", "replace"}, u \in AtAddress!Queries :
                              nav' = <<[kind |-> kind, url |-> u]>>
          /\ changed => frame' = <<url>> /\ frame' # <<>> /\ frame'[1] = url
          /\ ~changed => frame' = frame
          /\ debounced # url.search => nav' # <<>> /\ nav'[1].url # url
          /\ debounced = url.search => nav' = <<>>
      <4> DEFINE n == <<>>
      <4>1. n # <<>> => \E kind \in {"push", "replace"}, u \in AtAddress!Queries :
                           n = <<[kind |-> kind, url |-> u]>>
        OBVIOUS
      <4>2. AtAddress!Effects(url, changed, debounced, frame, n)
        BY <3>1
      <4>3. frame # <<>> => \E u \in AtAddress!Queries : frame = <<u>>
        BY <1>q
      <4>4. n = <<>>
        OBVIOUS
      <4> HIDE DEF n
      <4> QED BY <4>1, <4>2, <4>3, <4>4, <2>d, EffectsKeep
    <3> QED BY <3>2 DEF changed
  <2>2. AddressShapes'
    BY <2>1, <1>e, <1>s DEF AddressShapes
  <2>3. AddressInv'
    BY <2>1, <1>e, <1>s DEF AddressInv, SameBut
  <2> QED BY <2>2, <2>3 DEF AddressIInv
<1>6. ASSUME NEW to \in DOMAIN entries, AtAddress!Traverse(to) PROVE AddressIInv'
  <2>1. to \in 1..Len(entries) /\ entries[to] \in AtAddress!Queries
    BY <1>s, ElementOfSeq DEF AddressShapes
  <2>2. entries' = entries /\ at' = to /\ AtAddress!Overtake
    BY <1>6 DEF AtAddress!Traverse
  <2>3. AtAddress!Url' = entries[to]
    BY <2>2 DEF AtAddress!Url
  <2>4. overtaken' \in BOOLEAN /\ (~overtaken' => ~overtaken /\ nav = <<>>)
    BY <2>2, <1>s DEF AtAddress!Overtake, AddressShapes
  <2>5. /\ AtAddress!Effects(entries[to], entries[to] # AtAddress!Url, debounced, frame, <<>>)
        /\ UNCHANGED <<local, debounced>>
    BY <1>6 DEF AtAddress!Traverse
  <2>6. entries' \in Seq(AtAddress!Queries) /\ at' \in 1..Len(entries')
    BY <2>1, <2>2, <1>s DEF AddressShapes
  <2> QED BY <2>1, <2>3, <2>4, <2>5, <2>6, <1>e
<1>7. CASE AtAddress!Arrive
  <2> DEFINE url == nav[1].url
             before == SubSeq(entries, 1, IF nav[1].kind = "push" THEN at ELSE at - 1)
             after == IF nav[1].kind = "push" THEN <<>> ELSE SubSeq(entries, at + 1, Len(entries))
  <2>1. /\ entries' = before \o <<url>> \o after
        /\ at' = Len(before) + 1
        /\ AtAddress!Effects(url, url # AtAddress!Url, debounced, frame, <<>>)
        /\ UNCHANGED <<local, debounced, overtaken>>
        /\ nav # <<>>
    BY <1>7 DEF AtAddress!Arrive
  <2>2. url \in AtAddress!Queries
    BY <1>q, <2>1, NavEntry
  <2>3. /\ \A i \in 1..Len(entries) : entries[i] \in AtAddress!Queries
        /\ at \in Int /\ Len(entries) \in Nat /\ at >= 1 /\ at <= Len(entries)
    BY <1>s, ElementOfSeq DEF AddressShapes
  <2>4. before \in Seq(AtAddress!Queries)
    <3>1. CASE nav[1].kind = "push"
      <4>1. \A i \in 1..at : entries[i] \in AtAddress!Queries
        BY <2>3
      <4> QED BY <4>1, <2>3, <3>1, SubSeqProperties
    <3>2. CASE nav[1].kind # "push"
      <4>1. (\A i \in 1..(at - 1) : entries[i] \in AtAddress!Queries) /\ at - 1 \in Int
        BY <2>3
      <4> QED BY <4>1, <2>3, <3>2, SubSeqProperties
    <3> QED BY <3>1, <3>2
  <2>5. after \in Seq(AtAddress!Queries)
    <3>1. (\A i \in (at + 1)..Len(entries) : entries[i] \in AtAddress!Queries) /\ at + 1 \in Int
      BY <2>3
    <3>2. SubSeq(entries, at + 1, Len(entries)) \in Seq(AtAddress!Queries)
      BY <3>1, <2>3, SubSeqProperties
    <3> QED BY <3>2, EmptySeq
  <2> HIDE DEF before, after, url
  <2>6. /\ <<url>> \in Seq(AtAddress!Queries) /\ Len(<<url>>) = 1 /\ <<url>>[1] = url
        /\ Len(before) \in Nat /\ Len(after) \in Nat
    BY <2>2, <2>4, <2>5
  <2>7. /\ before \o <<url>> \in Seq(AtAddress!Queries)
        /\ Len(before \o <<url>>) = Len(before) + 1
        /\ (before \o <<url>>)[Len(before) + 1] = url
    BY <2>4, <2>6, ConcatProperties
  <2>8. /\ entries' \in Seq(AtAddress!Queries)
        /\ Len(entries') = Len(before) + 1 + Len(after)
        /\ entries'[Len(before) + 1] = url
    BY <2>1, <2>5, <2>6, <2>7, ConcatProperties
  <2>9. at' \in 1..Len(entries') /\ AtAddress!Url' = url
    BY <2>1, <2>6, <2>8 DEF AtAddress!Url
  <2>10. overtaken' \in BOOLEAN /\ overtaken' = overtaken
    BY <2>1, <1>s DEF AddressShapes
  <2>11. nav[1].url = url
    BY DEF url
  <2> QED BY <2>1, <2>2, <2>8, <2>9, <2>10, <2>11, <1>e
<1>8. CASE AtAddress!CopyAddress
  <2> USE <1>8 DEF AtAddress!CopyAddress
  <2>1. local' = AtAddress!Url /\ AtAddress!Url' = AtAddress!Url
    BY <1>s DEF AddressInv, AtAddress!Url
  <2>2. AddressShapes'
    BY <1>s, <1>u, <2>1 DEF AddressShapes
  <2>3. AddressInv'
    BY <1>s, <2>1 DEF AddressInv, SameBut
  <2> QED BY <2>2, <2>3 DEF AddressIInv
<1>9. CASE AtAddress!Rest
  <2>1. /\ debounced' = local.search /\ AtAddress!Effects(AtAddress!Url, FALSE, debounced', frame, nav)
        /\ debounced' # AtAddress!Url.search => AtAddress!Overtake
        /\ debounced' = AtAddress!Url.search => UNCHANGED overtaken
        /\ UNCHANGED <<entries, at, local>>
    BY <1>9 DEF AtAddress!Rest
  <2>2. debounced' \in Searches
    BY <2>1, <1>l, QueryFields
  <2>3. AtAddress!Effects(AtAddress!Url, FALSE, local.search, frame, nav) /\ local.search \in Searches
    BY <2>1, <2>2
  <2>4. /\ frame' = frame
        /\ nav' # <<>> => \E kind \in {"push", "replace"}, u \in AtAddress!Queries :
                            nav' = <<[kind |-> kind, url |-> u]>>
        /\ local.search # AtAddress!Url.search => nav' # <<>> /\ nav'[1].url # AtAddress!Url
        /\ local.search = AtAddress!Url.search => nav' = nav
    <3> DEFINE changed == FALSE
               url == AtAddress!Url
               text == local.search
    <3>1. /\ AtAddress!Effects(url, changed, text, frame, nav) /\ ~changed
          /\ url \in AtAddress!Queries /\ text \in Searches
      BY <2>3, <1>u
    <3> HIDE DEF changed, url, text
    <3>2. /\ frame' = frame
          /\ nav' # <<>> => \E kind \in {"push", "replace"}, u \in AtAddress!Queries :
                              nav' = <<[kind |-> kind, url |-> u]>>
          /\ text # url.search => nav' # <<>> /\ nav'[1].url # url
          /\ text = url.search => nav' = nav
      BY <3>1, <1>q, EffectsKeep
    <3> QED BY <3>2 DEF url, text
  <2>5. AtAddress!Url' = AtAddress!Url
    BY <2>1 DEF AtAddress!Url
  <2>6. overtaken' \in BOOLEAN
    BY <2>1, <1>s DEF AtAddress!Overtake, AddressShapes
  <2>7. AddressShapes'
    BY <1>s, <2>1, <2>2, <2>4, <2>6 DEF AddressShapes
  <2>8. AddressInv'
    BY <1>s, <2>1, <2>4, <2>5 DEF AddressInv, SameBut, AtAddress!Overtake
  <2> QED BY <2>7, <2>8 DEF AddressIInv
<1>10. CASE UNCHANGED urlVars
  BY <1>10, <1>s DEF urlVars, AddressIInv, AddressShapes, AddressInv, SameBut, AtAddress!Url
<1> QED
  BY <1>1, <1>2, <1>3, <1>4, <1>5, <1>6, <1>7, <1>8, <1>9, <1>10 DEF AtAddress!ListNext

(* The invariant says what the runs check of the address. *)
LEMMA AddressFacts == AddressIInv => AtAddress!ListTypeOK /\ AtAddress!ListIsAddress
<1> SUFFICES ASSUME AddressIInv PROVE AtAddress!ListTypeOK /\ AtAddress!ListIsAddress
  OBVIOUS
<1>1. AddressShapes /\ AddressInv
  BY DEF AddressIInv
<1>2. AtAddress!Url \in AtAddress!Queries
  BY <1>1, ElementOfSeq DEF AddressShapes, AtAddress!Url
<1>3. AtAddress!ListTypeOK
  <2>1. \A i \in DOMAIN entries : entries[i] \in AtAddress!Queries
    BY <1>1, ElementOfSeq DEF AddressShapes
  <2>2. at \in DOMAIN entries /\ local \in AtAddress!Queries /\ debounced \in Searches
    BY <1>1 DEF AddressShapes
  <2>3. frame # <<>> => frame[1] \in AtAddress!Queries
    BY <1>1, <1>2 DEF AddressInv
  <2>4. ASSUME nav # <<>> PROVE nav[1].url \in AtAddress!Queries /\ nav[1].kind \in {"push", "replace"}
    BY <2>4, <1>1, NavEntry DEF AddressShapes
  <2> QED BY <2>1, <2>2, <2>3, <2>4 DEF AtAddress!ListTypeOK
<1>4. AtAddress!ListIsAddress
  <2> SUFFICES ASSUME AtAddress!Settled, ~overtaken PROVE local = AtAddress!Url
    BY DEF AtAddress!ListIsAddress
  <2>1. local.search = AtAddress!Url.search /\ SameBut(local, AtAddress!Url)
    BY <1>1 DEF AtAddress!Settled, AddressInv
  <2>2. local \in AtAddress!Queries
    BY <1>1 DEF AddressShapes
  <2> QED BY <2>1, <2>2, <1>2, SameQuery DEF SameBut
<1> QED BY <1>3, <1>4

-----------------------------------------------------------------------------
(* Lists of pages *)

(* The keys of answers, and the totals an answer may have *)
Keys == InList!Spaces \X Filters \X (0..MaxRows)
Counts == 0..InList!NoAnswer

(* The shapes of a list, its answers and the turn of a page *)
ListShapes ==
  /\ InList!ListsTypeOK
  /\ totals \in [Keys -> Counts]
  /\ turned \in [space : InList!Spaces, filter : Filters, total : Counts]

(* A page but the first was turned to when the list was longer, under the  *)
(* filter that is shown unless that rests. *)
TurnedInv ==
  pageIndex > 0 => /\ pageIndex < turned.total
                   /\ turned.filter = rested \/ InList!L.filter = "debounced"

ListIInv == ListShapes /\ TurnedInv

(* A list reads by its keys. *)
LEMMA KeyIsKey ==
  ASSUME NEW s \in InList!Spaces, NEW f \in Filters, NEW p \in 0..MaxRows
  PROVE  InList!KeyOf(s, f, p) \in Keys
<1>1. (IF InList!L.of = "workspace" THEN s ELSE "first") \in InList!Spaces
  BY DEF InList!Spaces
<1> QED BY <1>1 DEF InList!KeyOf, Keys

LEMMA Bounds == MaxRows \in Nat /\ MaxTurns \in Nat /\ Counts = 0..(MaxRows + 1)
BY BoundsAssumption DEF Counts, InList!NoAnswer

LEMMA ListIInit == InList!PagingInit => ListIInv
<1> SUFFICES ASSUME InList!PagingInit PROVE ListIInv
  OBVIOUS
<1> USE ListsAssumption, Bounds
<1>1. /\ list \in Lists /\ space = "first" /\ filter = NoFilter /\ rested = NoFilter
      /\ pageIndex = 0 /\ turns = 0 /\ reading = {<<"first", NoFilter, 0>>}
      /\ turned = [space |-> "first", filter |-> NoFilter, total |-> 0]
      /\ rows \in [InList!Spaces \X Filters -> 0..MaxRows]
      /\ totals = [k \in InList!Spaces \X Filters \X (0..MaxRows) |-> InList!NoAnswer]
  BY DEF InList!PagingInit
<1>2. totals \in [Keys -> Counts]
  BY <1>1 DEF Keys, Counts, InList!NoAnswer
<1>3. turned \in [space : InList!Spaces, filter : Filters, total : Counts]
  BY <1>1 DEF InList!Spaces
<1>4. reading \subseteq InList!Spaces \X Filters \X (0..MaxRows)
  BY <1>1 DEF InList!Spaces
<1>5. InList!ListsTypeOK
  BY <1>1, <1>2, <1>4 DEF InList!ListsTypeOK, InList!Spaces, Counts, Keys
<1> QED BY <1>1, <1>2, <1>3, <1>5 DEF ListIInv, ListShapes, TurnedInv

(* What the user, the timer and the answers do keeps the invariant. *)
LEMMA ListIStep == ListIInv /\ [InList!PagingNext]_listVars => ListIInv'
<1> SUFFICES ASSUME ListIInv, [InList!PagingNext]_listVars PROVE ListIInv'
  OBVIOUS
<1> USE Bounds
<1>s. /\ list \in Lists /\ space \in InList!Spaces /\ turns \in 0..MaxTurns
      /\ rows \in [InList!Spaces \X Filters -> 0..MaxRows]
      /\ filter \in Filters /\ rested \in Filters
      /\ rested # filter => InList!L.filter = "debounced"
      /\ pageIndex \in 0..MaxRows
      /\ reading \subseteq Keys
      /\ totals \in [Keys -> Counts]
      /\ turned \in [space : InList!Spaces, filter : Filters, total : Counts]
  BY DEF ListIInv, ListShapes, InList!ListsTypeOK, Keys
<1>v. TurnedInv
  BY DEF ListIInv
<1>t. InList!Total \in Counts
  BY <1>s, KeyIsKey DEF InList!Total, InList!Key
(* The parts of the invariant are checked one by one. *)
<1>p. ASSUME list' = list, space' \in InList!Spaces, turns' = turns \/ InList!Turn,
             rows' \in [InList!Spaces \X Filters -> 0..MaxRows],
             filter' \in Filters, rested' \in Filters,
             rested' # filter' => InList!L.filter = "debounced",
             pageIndex' \in 0..MaxRows, reading' \subseteq Keys,
             totals' \in [Keys -> Counts],
             turned' \in [space : InList!Spaces, filter : Filters, total : Counts],
             pageIndex' > 0 => pageIndex' < turned'.total,
             pageIndex' > 0 => turned'.filter = rested' \/ InList!L.filter = "debounced"
      PROVE  ListIInv'
  <2>1. InList!L' = InList!L
    BY <1>p DEF InList!L
  <2>2. turns' \in 0..MaxTurns
    BY <1>p, <1>s DEF InList!Turn
  <2>3. \A k \in DOMAIN totals' : totals'[k] \in 0..InList!NoAnswer
    BY <1>p DEF Counts
  <2>4. InList!ListsTypeOK'
    BY <1>p, <1>s, <2>1, <2>2, <2>3 DEF InList!ListsTypeOK, Keys, InList!Spaces, InList!NoAnswer
  <2>5. TurnedInv'
    BY <1>p, <2>1 DEF TurnedInv
  <2> QED BY <1>p, <2>4, <2>5 DEF ListIInv, ListShapes, Keys, Counts, InList!Spaces, InList!NoAnswer
<1>k. ASSUME list' = list, space' \in InList!Spaces, rested' \in Filters, pageIndex' \in 0..MaxRows, InList!Read
      PROVE  reading' \subseteq Keys
  <2>1. InList!KeyOf(space', rested', pageIndex') \in Keys
    BY <1>k, KeyIsKey
  <2> QED BY <1>k, <1>s, <2>1 DEF InList!Read
<1>1. ASSUME NEW f \in Filters, InList!SetFilter(f) PROVE ListIInv'
  <2>1. /\ filter' = f /\ rested' = (IF InList!L.filter = "debounced" THEN rested ELSE f)
        /\ pageIndex' = 0 /\ InList!Turn /\ InList!Read
        /\ UNCHANGED <<list, rows, space, totals, turned>>
    BY <1>1 DEF InList!SetFilter
  <2>2. reading' \subseteq Keys
    BY <2>1, <1>s, <1>k
  <2> QED BY <2>1, <2>2, <1>s, <1>p
<1>2. CASE InList!RestFilter
  <2>1. /\ rested # filter /\ rested' = filter /\ InList!Read
        /\ UNCHANGED <<list, rows, space, filter, pageIndex, totals, turned, turns>>
    BY <1>2 DEF InList!RestFilter
  <2>2. reading' \subseteq Keys
    BY <2>1, <1>s, <1>k
  <2> QED BY <2>1, <2>2, <1>s, <1>v, <1>p DEF TurnedInv
<1>3. ASSUME NEW p \in 0..MaxRows, InList!PageChange(p) PROVE ListIInv'
  <2>1. /\ InList!Turn /\ InList!Read /\ pageIndex' = p
        /\ \/ p = pageIndex + 1 /\ p < InList!Total
           \/ p + 1 = pageIndex
        /\ turned' = IF p > pageIndex THEN [space |-> space, filter |-> rested, total |-> InList!Total] ELSE turned
        /\ UNCHANGED <<list, rows, space, filter, rested, totals>>
    BY <1>3 DEF InList!PageChange
  <2>2. reading' \subseteq Keys
    BY <2>1, <1>s, <1>k
  <2>3. CASE p = pageIndex + 1 /\ p < InList!Total
    <3>1. turned' = [space |-> space, filter |-> rested, total |-> InList!Total]
      BY <2>1, <2>3, <1>s
    <3>2. turned' \in [space : InList!Spaces, filter : Filters, total : Counts]
      BY <3>1, <1>s, <1>t
    <3>3. turned'.total = InList!Total /\ turned'.filter = rested
      BY <3>1
    <3> QED BY <2>1, <2>2, <2>3, <3>2, <3>3, <1>s, <1>p
  <2>4. CASE p + 1 = pageIndex
    <3>1. turned' = turned /\ pageIndex > 0 /\ p < pageIndex
      BY <2>1, <2>4, <1>s
    <3>2. pageIndex' > 0 => pageIndex' < turned'.total
      BY <3>1, <2>1, <1>v, <1>s DEF TurnedInv
    <3> QED BY <2>1, <2>2, <3>1, <3>2, <1>s, <1>v, <1>p DEF TurnedInv
  <2> QED BY <2>1, <2>3, <2>4
<1>4. ASSUME NEW s \in InList!Spaces, InList!SwitchTo(s) PROVE ListIInv'
  <2>1. /\ InList!Turn /\ InList!Read /\ space' = s
        /\ totals' = IF InList!L.of = "workspace" THEN InList!Cleared(space) ELSE totals
        /\ UNCHANGED <<list, rows, filter, rested, pageIndex, turned>>
    BY <1>4 DEF InList!SwitchTo
  <2>2. reading' \subseteq Keys
    BY <2>1, <1>s, <1>k
  <2>3. totals' \in [Keys -> Counts]
    BY <2>1, <1>s DEF InList!Cleared, InList!NoAnswer, Counts
  <2> QED BY <2>1, <2>2, <2>3, <1>s, <1>v, <1>p DEF TurnedInv
<1>5. ASSUME NEW s \in InList!Spaces, InList!RowsChange(s) PROVE ListIInv'
  <2>1. PICK new \in [Filters -> 0..MaxRows] :
          rows' = [key \in DOMAIN rows |-> IF key[1] = s THEN new[key[2]] ELSE rows[key]]
    BY <1>5 DEF InList!RowsChange
  <2>2. rows' \in [InList!Spaces \X Filters -> 0..MaxRows]
    BY <2>1, <1>s
  <2>3. /\ InList!Turn /\ reading' \in {reading, reading \cup {InList!Key}}
        /\ UNCHANGED <<list, space, filter, rested, pageIndex, totals, turned>>
    BY <1>5 DEF InList!RowsChange
  <2>4. InList!Key \in Keys
    BY <1>s, KeyIsKey DEF InList!Key
  <2>5. reading' \subseteq Keys
    BY <2>3, <2>4, <1>s
  <2> QED BY <2>2, <2>3, <2>5, <1>s, <1>v, <1>p DEF TurnedInv
<1>6. ASSUME NEW k \in reading, InList!Answer(k) PROVE ListIInv'
  <2>1. /\ totals' = [totals EXCEPT ![k] = rows[<<k[1], k[2]>>]] /\ reading' = reading \ {k}
        /\ UNCHANGED <<list, rows, space, filter, rested, pageIndex, turned, turns>>
    BY <1>6 DEF InList!Answer
  <2>2. k \in Keys /\ rows[<<k[1], k[2]>>] \in Counts
    BY <1>s DEF Keys
  <2>3. totals' \in [Keys -> Counts]
    BY <2>1, <2>2, <1>s
  <2> QED BY <2>1, <2>3, <1>s, <1>v, <1>p DEF TurnedInv
<1>7. ASSUME NEW k \in reading, InList!Unanswered(k) PROVE ListIInv'
  BY <1>7, <1>s, <1>v, <1>p DEF InList!Unanswered, TurnedInv
<1>8. CASE UNCHANGED listVars
  BY <1>8, <1>s, <1>v, <1>p DEF listVars, TurnedInv
<1> QED
  BY <1>1, <1>2, <1>3, <1>4, <1>5, <1>6, <1>7, <1>8 DEF InList!PagingNext

(* The invariant says what the runs check of lists. *)
LEMMA ListFacts == ListIInv => InList!ListsTypeOK /\ InList!EmptyMeansNone
<1> SUFFICES ASSUME ListIInv PROVE InList!ListsTypeOK /\ InList!EmptyMeansNone
  OBVIOUS
<1>1. InList!ListsTypeOK /\ TurnedInv /\ turned \in [space : InList!Spaces, filter : Filters, total : Counts]
  BY DEF ListIInv, ListShapes
<1>2. /\ pageIndex \in 0..MaxRows /\ space \in InList!Spaces /\ rested \in Filters
      /\ totals \in [Keys -> Counts]
  BY DEF InList!ListsTypeOK, ListIInv, ListShapes
<1>3. InList!Total \in Counts
  BY <1>2, KeyIsKey DEF InList!Total, InList!Key
<1>4. InList!EmptyMeansNone
  <2> SUFFICES ASSUME InList!Total <= pageIndex, InList!Total # 0
               PROVE  \/ InList!Total < turned.total /\ turned.filter = rested
                      \/ InList!L.filter = "debounced" /\ turned.filter # rested
    BY DEF InList!EmptyMeansNone
  <2>1. pageIndex > 0
    BY <1>2, <1>3, Bounds
  <2>2. pageIndex < turned.total /\ (turned.filter = rested \/ InList!L.filter = "debounced")
    BY <1>1, <2>1 DEF TurnedInv
  <2>3. InList!Total < turned.total
    BY <2>2, <1>1, <1>2, <1>3, Bounds
  <2> QED BY <2>2, <2>3
<1> QED BY <1>1, <1>4

-----------------------------------------------------------------------------
(* Generators and reviews *)

(* What a form has ticked, and what a request carries *)
Ticks ==
  [org : ToolOrgs \cup {"none"}, save : BOOLEAN, named : BOOLEAN, validate : BOOLEAN, ids : SUBSET Packs]
Bodies ==
  [org : ToolOrgs \cup {"none"}, save : BOOLEAN, validate : BOOLEAN, ids : SUBSET Packs]

(* What a form asked for, and what its request says of it *)
AsksFor(b, a) ==
  /\ b.save = a.save /\ b.validate = a.validate
  /\ b.save => b.org = a.org
  /\ b.validate => b.org = a.org /\ b.ids = a.ids

(* A result is as its form asked. *)
AsAsked(made) ==
  /\ made.saved = IF made.asked.save THEN made.asked.org ELSE "none"
  /\ made.evaluated = IF made.asked.validate /\ made.asked.org # "none" THEN made.asked.ids ELSE {}
  /\ made.evaluated \subseteq InTool!Of(Packs, made.asked.org)
  /\ made.as = makes \/ tool = "pipeline"

(* A request as the model keeps it *)
ToolRequest(b, a, step, made) ==
  [body |-> b, asked |-> a, step |-> step, made |-> made]

(* The shapes of a tool and its form *)
ToolShapes ==
  /\ tool \in Tools /\ makes \in InTool!T.makes
  /\ writers \subseteq ToolOrgs /\ active \subseteq Packs /\ known \subseteq Packs
  /\ workspace \in ToolOrgs \cup {"none"}
  /\ steps \in 0..MaxSteps
  /\ ticks \in Ticks /\ ticks.org = workspace
  /\ ticks.save => InTool!T.saves

(* A request asks for what its form had ticked, and makes only that. *)
CallInv ==
  request # <<>> =>
    \E b \in Bodies, a \in Ticks, step \in {"sent", "done"} : \E made :
      /\ request = <<ToolRequest(b, a, step, made)>>
      /\ AsksFor(b, a)
      /\ made # <<>> => AsAsked(made[1])

(* The result that is shown is as its form asked. *)
OutcomeInv == outcome # <<>> => AsAsked(outcome[1])

ToolIInv == ToolShapes /\ CallInv /\ OutcomeInv

(* Each tool judges what it makes, but for pipelines. *)
LEMMA ToolRows ==
  ASSUME NEW t \in Tools
  PROVE  /\ \A m \in InTool!ToolTable[t].makes :
              InTool!ToolTable[t].judged[m] = m \/ t = "pipeline"
         /\ InTool!ToolTable[t].saves \in BOOLEAN
<1>1. t \in {"dockerfile", "kubernetes", "pipeline", "command", "review"}
  BY ToolsAssumption DEF InTool!ToolTable
<1>2. CASE t = "dockerfile"
  <2>1. InTool!ToolTable[t] = InTool!DockerfileForm
    BY <1>2 DEF InTool!ToolTable
  <2>2. /\ InTool!DockerfileForm.makes = {"dockerfile"} /\ InTool!DockerfileForm.saves = TRUE
        /\ InTool!DockerfileForm.judged = [dockerfile |-> "dockerfile"]
    BY DEF InTool!DockerfileForm
  <2>3. [dockerfile |-> "dockerfile"]["dockerfile"] = "dockerfile"
    OBVIOUS
  <2> QED BY <2>1, <2>2, <2>3
<1>3. CASE t = "kubernetes"
  <2>1. InTool!ToolTable[t] = InTool!KubernetesForm
    BY <1>3 DEF InTool!ToolTable
  <2>2. /\ InTool!KubernetesForm.makes = {"kubernetes"} /\ InTool!KubernetesForm.saves = TRUE
        /\ InTool!KubernetesForm.judged = [kubernetes |-> "kubernetes"]
    BY DEF InTool!KubernetesForm
  <2>3. [kubernetes |-> "kubernetes"]["kubernetes"] = "kubernetes"
    OBVIOUS
  <2> QED BY <2>1, <2>2, <2>3
<1>4. CASE t = "pipeline"
  BY <1>4 DEF InTool!ToolTable, InTool!PipelineForm
<1>5. CASE t = "command"
  BY <1>5 DEF InTool!ToolTable, InTool!CommandForm
<1>6. CASE t = "review"
  BY <1>6 DEF InTool!ToolTable, InTool!ReviewWorkspace
<1> QED BY <1>1, <1>2, <1>3, <1>4, <1>5, <1>6

LEMMA ToolIInit == InTool!ToolInit => ToolIInv
<1> SUFFICES ASSUME InTool!ToolInit PROVE ToolIInv
  OBVIOUS
<1> USE DEF InTool!ToolInit
<1>1. ticks \in Ticks /\ ticks.org = workspace /\ ticks.save = FALSE
  BY DEF Ticks
<1>2. ToolShapes
  BY <1>1, BoundsAssumption DEF ToolShapes
<1> QED BY <1>2 DEF ToolIInv, CallInv, OutcomeInv

(* One answer: what is made of a request is as its form asked. *)
LEMMA MadeAsAsked ==
  ASSUME ToolShapes, NEW b \in Bodies, NEW a \in Ticks, AsksFor(b, a),
         InTool!Evaluates(b) => InTool!EvaluatePacks(b),
         NEW made, made = [asked |-> a,
                           evaluated |-> IF InTool!Evaluates(b) THEN b.ids ELSE {},
                           as |-> InTool!T.judged[makes],
                           saved |-> IF b.save THEN b.org ELSE "none"]
  PROVE  AsAsked(made)
<1>1. made.as = makes \/ tool = "pipeline"
  BY ToolRows DEF InTool!T, ToolShapes
<1>2. made.saved = IF made.asked.save THEN made.asked.org ELSE "none"
  BY DEF AsksFor
<1>3. made.evaluated = IF made.asked.validate /\ made.asked.org # "none" THEN made.asked.ids ELSE {}
  BY DEF AsksFor, InTool!Evaluates, Bodies, Ticks
<1>4. made.evaluated \subseteq InTool!Of(Packs, made.asked.org)
  <2>1. CASE InTool!Evaluates(b)
    <3>1. b.ids \subseteq InTool!Of(active, a.org) /\ made.evaluated = b.ids
      BY <2>1 DEF InTool!EvaluatePacks, InTool!Evaluates, AsksFor
    <3> QED BY <3>1 DEF InTool!Of, ToolShapes
  <2>2. CASE ~InTool!Evaluates(b)
    BY <2>2
  <2> QED BY <2>1, <2>2
<1> QED BY <1>1, <1>2, <1>3, <1>4 DEF AsAsked

(* A request is its four fields. *)
LEMMA RequestFields ==
  ASSUME NEW r, NEW b, NEW a, NEW step, NEW made, r = <<ToolRequest(b, a, step, made)>>
  PROVE  r # <<>> /\ r[1].body = b /\ r[1].asked = a /\ r[1].step = step /\ r[1].made = made
BY DEF ToolRequest

LEMMA RequestDone ==
  ASSUME NEW r, NEW b, NEW a, NEW step, NEW made, r = <<ToolRequest(b, a, step, made)>>
  PROVE  [r EXCEPT ![1].step = "done"] = <<ToolRequest(b, a, "done", made)>>
<1> DEFINE q == ToolRequest(b, a, step, made)
           q1 == ToolRequest(b, a, "done", made)
<1>1. [q EXCEPT !.step = "done"] = q1
  BY DEF ToolRequest
<1> HIDE DEF q, q1
<1>2. [<<q>> EXCEPT ![1].step = "done"] = <<q1>>
  BY <1>1
<1> QED BY <1>2 DEF q, q1

LEMMA RequestMade ==
  ASSUME NEW r, NEW b, NEW a, NEW step, NEW made, r = <<ToolRequest(b, a, step, made)>>,
         NEW m
  PROVE  [r EXCEPT ![1].made = m] = <<ToolRequest(b, a, step, m)>>
<1> DEFINE q == ToolRequest(b, a, step, made)
           q1 == ToolRequest(b, a, step, m)
<1>1. [q EXCEPT !.made = m] = q1
  BY DEF ToolRequest
<1> HIDE DEF q, q1
<1>2. [<<q>> EXCEPT ![1].made = m] = <<q1>>
  BY <1>1
<1> QED BY <1>2 DEF q, q1

(* What the user, the server and other members do keeps the invariant. *)
LEMMA ToolIStep == ToolIInv /\ [InTool!ToolNext]_toolVars => ToolIInv'
<1> SUFFICES ASSUME ToolIInv, [InTool!ToolNext]_toolVars PROVE ToolIInv'
  OBVIOUS
<1>s. ToolShapes /\ CallInv /\ OutcomeInv
  BY DEF ToolIInv
(* What is made depends on the form alone. *)
<1>m. tool' = tool /\ makes' = makes => \A made : AsAsked(made)' = AsAsked(made)
  BY DEF AsAsked
<1>c. ASSUME tool' = tool, makes' = makes, request' = request PROVE CallInv'
  BY <1>c, <1>s DEF CallInv, AsAsked
<1>o. ASSUME tool' = tool, makes' = makes, outcome' = outcome PROVE OutcomeInv'
  BY <1>o, <1>s DEF OutcomeInv, AsAsked
<1>t. InTool!Step => steps' \in 0..MaxSteps
  BY <1>s, BoundsAssumption DEF InTool!Step, ToolShapes
<1>1. ASSUME NEW s \in ToolOrgs \cup {"none"}, InTool!SwitchSpace(s) PROVE ToolIInv'
  <2> USE <1>1 DEF InTool!SwitchSpace
  <2>1. ticks' \in Ticks /\ ticks'.org = workspace' /\ ticks'.save = ticks.save
    BY <1>s DEF ToolShapes, Ticks
  <2>2. ToolShapes'
    BY <1>s, <1>t, <2>1 DEF ToolShapes, InTool!T
  <2> QED BY <2>2, <1>c, <1>o DEF ToolIInv
<1>2. ASSUME NEW named \in BOOLEAN, InTool!TickSave(named) PROVE ToolIInv'
  <2> USE <1>2 DEF InTool!TickSave
  <2>1. ticks' \in Ticks /\ ticks'.org = workspace'
    <3>1. CASE ticks.save /\ named # ticks.named
      <4>1. ticks' = [ticks EXCEPT !.named = named]
        BY <3>1
      <4> QED BY <4>1, <1>s DEF ToolShapes, Ticks
    <3>2. CASE ~(ticks.save /\ named # ticks.named)
      <4> DEFINE t1 == [ticks EXCEPT !.save = ~ticks.save]
                 t2 == [t1 EXCEPT !.named = named]
                 t3 == [t2 EXCEPT !.org = workspace]
      <4>1. ticks' = t3
        BY <3>2
      <4>2. t1 \in Ticks
        BY <1>s DEF ToolShapes, Ticks
      <4> HIDE DEF t1
      <4>3. t2 \in Ticks
        BY <4>2 DEF Ticks
      <4> HIDE DEF t2
      <4>4. t3 \in Ticks /\ t3.org = workspace
        BY <4>3, <1>s DEF ToolShapes, Ticks
      <4> QED BY <4>1, <4>4
    <3> QED BY <3>1, <3>2
  <2>2. ToolShapes'
    BY <1>s, <1>t, <2>1 DEF ToolShapes, InTool!T
  <2> QED BY <2>2, <1>c, <1>o DEF ToolIInv
<1>3. CASE InTool!TickPolicies
  <2> USE <1>3 DEF InTool!TickPolicies
  <2>1. ticks' \in Ticks /\ ticks'.org = workspace' /\ ticks'.save = ticks.save
    <3> DEFINE t1 == [ticks EXCEPT !.validate = ~ticks.validate]
               t2 == [t1 EXCEPT !.org = workspace]
    <3>1. ticks' = t2
      OBVIOUS
    <3>2. t1 \in Ticks /\ t1.save = ticks.save
      BY <1>s DEF ToolShapes, Ticks
    <3> HIDE DEF t1
    <3>3. t2 \in Ticks /\ t2.org = workspace /\ t2.save = t1.save
      BY <3>2, <1>s DEF ToolShapes, Ticks
    <3> QED BY <3>1, <3>2, <3>3
  <2>2. ToolShapes'
    BY <1>s, <1>t, <2>1 DEF ToolShapes, InTool!T
  <2> QED BY <2>2, <1>c, <1>o DEF ToolIInv
<1>4. ASSUME NEW p \in Packs, InTool!TickPack(p) PROVE ToolIInv'
  <2> USE <1>4 DEF InTool!TickPack
  <2>1. ticks' \in Ticks /\ ticks'.org = ticks.org /\ ticks'.save = ticks.save
    BY <1>s DEF ToolShapes, Ticks
  <2>2. ToolShapes'
    BY <1>s, <1>t, <2>1 DEF ToolShapes, InTool!T
  <2> QED BY <2>2, <1>c, <1>o DEF ToolIInv
<1>5. CASE InTool!ReadPacks
  <2> USE <1>5 DEF InTool!ReadPacks
  <2>1. known' \subseteq Packs
    BY <1>s DEF ToolShapes, InTool!Of
  <2>2. ToolShapes'
    BY <1>s, <2>1 DEF ToolShapes, InTool!T
  <2> QED BY <2>2, <1>c, <1>o DEF ToolIInv
<1>6. CASE InTool!SubmitTool
  <2> DEFINE a == [ticks EXCEPT !.org = workspace]
             b == InTool!Payload
  <2>1. request' = <<ToolRequest(b, a, "sent", <<>>)>> /\ InTool!Step
    BY <1>6 DEF InTool!SubmitTool, ToolRequest
  <2>2. UNCHANGED <<tool, makes, writers, active, known, workspace, ticks, outcome>>
    BY <1>6 DEF InTool!SubmitTool
  <2>3. a = ticks /\ a \in Ticks
    BY <1>s DEF ToolShapes, Ticks
  <2>4. b \in Bodies /\ AsksFor(b, a)
    <3>1. CASE InTool!T.saves
      <4>1. b = [org |-> ticks.org, save |-> ticks.save, validate |-> ticks.validate, ids |-> ticks.ids]
        BY <3>1 DEF InTool!Payload
      <4> QED BY <4>1, <2>3 DEF Bodies, AsksFor, Ticks
    <3>2. CASE ~InTool!T.saves
      <4>1. b = [org |-> IF ticks.validate THEN workspace ELSE "none", save |-> FALSE,
                    validate |-> ticks.validate, ids |-> IF ticks.validate THEN ticks.ids ELSE {}]
        BY <3>2 DEF InTool!Payload
      <4>2. ticks.save = FALSE /\ workspace = ticks.org
        BY <3>2, <1>s DEF ToolShapes, Ticks
      <4> QED BY <4>1, <4>2, <2>3 DEF Bodies, AsksFor, Ticks
    <3> QED BY <3>1, <3>2
  <2> HIDE DEF a, b
  <2>5. CallInv'
    BY <2>1, <2>3, <2>4 DEF CallInv
  <2>6. ToolShapes'
    BY <1>s, <1>t, <2>1, <2>2 DEF ToolShapes, InTool!T
  <2> QED BY <2>2, <2>5, <2>6, <1>o DEF ToolIInv
<1>7. CASE InTool!ServeTool
  <2>1. request # <<>> /\ UNCHANGED <<tool, makes, writers, active, known, workspace, ticks, outcome, steps>>
    BY <1>7 DEF InTool!ServeTool
  <2>k. PICK b \in Bodies, a \in Ticks, step \in {"sent", "done"} :
               \E made : /\ request = <<ToolRequest(b, a, step, made)>>
                         /\ AsksFor(b, a)
                         /\ made # <<>> => AsAsked(made[1])
    BY <1>s, <2>1 DEF CallInv
  <2>2. PICK made :
               /\ request = <<ToolRequest(b, a, step, made)>>
               /\ AsksFor(b, a)
               /\ made # <<>> => AsAsked(made[1])
    BY <2>k
  <2>r. PICK new : new = [asked |-> a,
                          evaluated |-> IF InTool!Evaluates(b) THEN b.ids ELSE {},
                          as |-> InTool!T.judged[makes],
                          saved |-> IF b.save THEN b.org ELSE "none"]
    OBVIOUS
  <2>3. request[1].body = b /\ request[1].asked = a
    BY <2>2, RequestFields
  <2>4. \/ /\ InTool!Evaluates(b) => InTool!EvaluatePacks(b)
           /\ request' = [request EXCEPT ![1].step = "done", ![1].made = <<new>>]
        \/ request' = [request EXCEPT ![1].step = "done"]
    BY <1>7, <2>3, <2>r DEF InTool!ServeTool
  <2>5. ASSUME /\ InTool!Evaluates(b) => InTool!EvaluatePacks(b)
               /\ request' = [request EXCEPT ![1].step = "done", ![1].made = <<new>>]
        PROVE  CallInv'
    <3>1. AsAsked(new)
      BY <1>s, <2>2, <2>5, <2>r, MadeAsAsked
    <3>2. request' = <<ToolRequest(b, a, "done", <<new>>)>>
      <4>1. PICK m : m = <<new>>
        OBVIOUS
      <4>2. request' = [request EXCEPT ![1].step = "done", ![1].made = m]
        BY <2>5, <4>1
      <4>3. PICK r : r = [request EXCEPT ![1].step = "done"]
        OBVIOUS
      <4>4. request' = [r EXCEPT ![1].made = m]
        BY <4>2, <4>3
      <4>5. r = <<ToolRequest(b, a, "done", made)>>
        BY <2>2, <4>3, RequestDone
      <4>6. [r EXCEPT ![1].made = m] = <<ToolRequest(b, a, "done", m)>>
        BY <4>5, RequestMade
      <4> QED BY <4>1, <4>4, <4>6
    <3>3. <<new>>[1] = new
      OBVIOUS
    <3>4. AsAsked(<<new>>[1])'
      BY <3>1, <3>3, <2>1 DEF AsAsked
    <3> QED BY <3>2, <3>4, <2>2 DEF CallInv
  <2>6. ASSUME request' = [request EXCEPT ![1].step = "done"] PROVE CallInv'
    <3>1. request' = <<ToolRequest(b, a, "done", made)>>
      BY <2>2, <2>6, RequestDone
    <3>2. made # <<>> => AsAsked(made[1])'
      BY <2>1, <2>2 DEF AsAsked
    <3> QED BY <3>1, <3>2, <2>2 DEF CallInv
  <2>7. CallInv'
    BY <2>4, <2>5, <2>6
  <2>8. ToolShapes'
    BY <1>s, <2>1 DEF ToolShapes, InTool!T
  <2> QED BY <2>1, <2>7, <2>8, <1>o DEF ToolIInv
<1>8. CASE InTool!TakeOutcome
  <2> USE <1>8 DEF InTool!TakeOutcome
  <2>1. ToolShapes' /\ CallInv'
    BY <1>s DEF ToolShapes, CallInv, InTool!T
  <2>2. CASE request[1].made = <<>>
    BY <2>1, <2>2, <1>o DEF ToolIInv
  <2>3. CASE request[1].made # <<>>
    <3>1. AsAsked(request[1].made[1])
      BY <1>s, <2>3, RequestFields DEF CallInv
    <3>2. OutcomeInv'
      BY <3>1, <2>3 DEF OutcomeInv, AsAsked
    <3> QED BY <2>1, <3>2 DEF ToolIInv
  <2> QED BY <2>2, <2>3
<1>9. CASE InTool!LoseOutcome
  <2> USE <1>9 DEF InTool!LoseOutcome
  <2>1. ToolShapes' /\ CallInv'
    BY <1>s DEF ToolShapes, CallInv, InTool!T
  <2> QED BY <2>1, <1>o DEF ToolIInv
<1>10. CASE InTool!Clear
  <2> USE <1>10 DEF InTool!Clear
  <2>1. ToolShapes' /\ OutcomeInv'
    BY <1>s DEF ToolShapes, OutcomeInv, InTool!T
  <2> QED BY <2>1, <1>c DEF ToolIInv
<1>11. ASSUME NEW p \in Packs, InTool!Deactivate(p) PROVE ToolIInv'
  <2> USE <1>11 DEF InTool!Deactivate
  <2>1. ToolShapes'
    BY <1>s, <1>t DEF ToolShapes, InTool!T
  <2> QED BY <2>1, <1>c, <1>o DEF ToolIInv
<1>12. ASSUME NEW org \in ToolOrgs, InTool!ChangeWriter(org) PROVE ToolIInv'
  <2> USE <1>12 DEF InTool!ChangeWriter
  <2>1. ToolShapes'
    BY <1>s, <1>t DEF ToolShapes, InTool!T
  <2> QED BY <2>1, <1>c, <1>o DEF ToolIInv
<1>13. CASE UNCHANGED toolVars
  <2> USE <1>13 DEF toolVars
  <2>1. ToolShapes'
    BY <1>s DEF ToolShapes, InTool!T
  <2> QED BY <2>1, <1>c, <1>o DEF ToolIInv
<1> QED
  BY <1>1, <1>2, <1>3, <1>4, <1>5, <1>6, <1>7, <1>8, <1>9, <1>10, <1>11, <1>12, <1>13 DEF InTool!ToolNext

(* The invariant says what the runs check of generators. *)
LEMMA ToolFacts == ToolIInv => InTool!ToolsTypeOK /\ InTool!GeneratedAsAsked
BY DEF ToolIInv, ToolShapes, Ticks, InTool!ToolsTypeOK, OutcomeInv, AsAsked, InTool!GeneratedAsAsked

-----------------------------------------------------------------------------
(* Logs *)

(* The steps of a submitted log *)
LogSteps == {"reading", "invalid", "sent", "refused", "analyzed"} \cup InLog!Active \cup InLog!Ended

LogCall ==
  [kind : InLog!Kinds, org : LogOrgs \cup {"none"}, step : LogSteps,
   crossed : {"no", "on its way", "settled"}]

(* The workspace that is chosen, and the form *)
ChoiceInv ==
  /\ selected \in LogOrgs \cup {"none"} /\ canCreate \in BOOLEAN
  /\ canCreate => selected # "none"
  /\ logForm \in [workspace : {"personal", "organization"}, async : BOOLEAN]
  /\ logForm.workspace = "organization" => canCreate
  /\ switches \in 0..MaxSwitches

(* Only a file is read; what is on its way was not over at a change of the *)
(* workspace; and but for an upload it is the last submission, and pending.*)
CallsInv ==
  /\ submissions \in Seq(LogCall) /\ Len(submissions) <= MaxSubmissions
  /\ latest \in [InLog!Kinds -> Nat]
  /\ \A k \in InLog!Kinds :
       latest[k] # 0 => latest[k] \in 1..Len(submissions) /\ submissions[latest[k]].kind = k
  /\ \A i \in 1..Len(submissions) :
       /\ submissions[i].step \in {"reading", "invalid"} => submissions[i].kind = "upload"
       /\ submissions[i].step \in {"reading", "sent"} => submissions[i].crossed # "settled"
       /\ submissions[i].step = "sent" /\ submissions[i].kind # "upload" =>
            i = Len(submissions) /\ latest[submissions[i].kind] = i

(* A submission whose analysis may be shown *)
Current(i) ==
  /\ submissions[i].kind = "upload" \/ i = Len(submissions)
  /\ submissions[i].crossed # "settled"

(* What is polled or shown is current. *)
ShownInv ==
  /\ poll \in [step : {"idle", "asked"}, seen : InLog!Active \cup {"nothing"}]
  /\ taskId = <<>> => poll = InLog!NoPoll
  /\ taskId # <<>> => \E i \in 1..Len(submissions) :
                        /\ taskId = <<i>> /\ Current(i)
                        /\ submissions[i].kind = "async" /\ queuedOrg = submissions[i].org
  /\ result # <<>> => \E i \in 1..Len(submissions) : result = <<i>> /\ Current(i)

LogIInv == ChoiceInv /\ CallsInv /\ ShownInv

(* Submissions are calls. *)
LEMMA CallAt ==
  ASSUME CallsInv, NEW i \in 1..Len(submissions)
  PROVE  submissions[i] \in LogCall
BY ElementOfSeq DEF CallsInv

(* A call takes a step. *)
LEMMA StepTaken ==
  ASSUME NEW s \in Seq(LogCall), NEW i \in 1..Len(s), NEW step \in LogSteps
  PROVE  LET t == [s EXCEPT ![i].step = step]
         IN /\ t \in Seq(LogCall) /\ Len(t) = Len(s)
            /\ \A j \in 1..Len(s) : /\ t[j].kind = s[j].kind /\ t[j].org = s[j].org
                                    /\ t[j].crossed = s[j].crossed
                                    /\ t[j].step = IF j = i THEN step ELSE s[j].step
<1>1. s[i] \in LogCall
  BY ElementOfSeq
<1> DEFINE x == [s[i] EXCEPT !.step = step]
           t == [s EXCEPT ![i].step = step]
<1>2. x \in LogCall /\ x.kind = s[i].kind /\ x.org = s[i].org /\ x.crossed = s[i].crossed /\ x.step = step
  BY <1>1 DEF LogCall
<1>3. t = [s EXCEPT ![i] = x]
  OBVIOUS
<1> HIDE DEF x, t
<1>4. t \in Seq(LogCall) /\ Len(t) = Len(s) /\ t[i] = x /\ \A j \in 1..Len(s) : j # i => t[j] = s[j]
  BY <1>2, <1>3, ExceptSeq
<1> QED BY <1>2, <1>4 DEF t

(* A change of the workspace crosses every call. *)
LEMMA AllCrossed ==
  ASSUME NEW s \in Seq(LogCall), NEW t, t = [i \in DOMAIN s |-> InLog!Crossed(s[i])]
  PROVE  /\ t \in Seq(LogCall) /\ Len(t) = Len(s)
         /\ \A j \in 1..Len(s) : /\ t[j].kind = s[j].kind /\ t[j].step = s[j].step
                                 /\ s[j].step \in {"reading", "sent"} => t[j].crossed = "on its way"
<1>1. \A j \in 1..Len(s) : s[j] \in LogCall
  BY ElementOfSeq
<1>2. ASSUME NEW c \in LogCall
      PROVE  /\ InLog!Crossed(c) \in LogCall
             /\ InLog!Crossed(c).kind = c.kind /\ InLog!Crossed(c).step = c.step
             /\ c.step \in {"reading", "sent"} => InLog!Crossed(c).crossed = "on its way"
  BY DEF InLog!Crossed, LogCall
<1>3. DOMAIN s = 1..Len(s) /\ Len(s) \in Nat
  OBVIOUS
<1>4. \A j \in 1..Len(s) : t[j] = InLog!Crossed(s[j]) /\ t[j] \in LogCall
  BY <1>1, <1>2, <1>3
<1>5. t \in Seq(LogCall) /\ Len(t) = Len(s)
  BY <1>3, <1>4, IsASeq
<1> QED BY <1>1, <1>2, <1>4, <1>5

LEMMA LogIInit == InLog!LogInit => LogIInv
<1> SUFFICES ASSUME InLog!LogInit PROVE LogIInv
  OBVIOUS
<1> USE DEF InLog!LogInit
<1>1. ChoiceInv
  BY BoundsAssumption DEF ChoiceInv
<1>2. CallsInv
  BY BoundsAssumption DEF CallsInv
<1>3. ShownInv
  BY DEF ShownInv, InLog!NoPoll
<1> QED BY <1>1, <1>2, <1>3 DEF LogIInv

(* What the user, the server and the poll do keeps the invariant. *)
LEMMA LogIStep == LogIInv /\ [InLog!LogNext]_logVars => LogIInv'
<1> SUFFICES ASSUME LogIInv, [InLog!LogNext]_logVars PROVE LogIInv'
  OBVIOUS
<1>s. ChoiceInv /\ CallsInv /\ ShownInv
  BY DEF LogIInv
<1>l. /\ submissions \in Seq(LogCall) /\ Len(submissions) \in Nat
      /\ DOMAIN submissions = 1..Len(submissions)
  BY <1>s DEF CallsInv
<1>f. latest \in [InLog!Kinds -> Nat]
  BY <1>s DEF CallsInv
(* The three parts, where what they are about does not change *)
<1>ch. UNCHANGED <<selected, canCreate, logForm, switches>> => ChoiceInv'
  BY <1>s DEF ChoiceInv
<1>ca. UNCHANGED <<submissions, latest>> => CallsInv'
  BY <1>s DEF CallsInv
<1>sh. ASSUME UNCHANGED <<taskId, queuedOrg, poll, result>>, Len(submissions') = Len(submissions),
              \A j \in 1..Len(submissions) :
                 /\ submissions'[j].kind = submissions[j].kind /\ submissions'[j].org = submissions[j].org
                 /\ submissions'[j].crossed = submissions[j].crossed
       PROVE  ShownInv'
  BY <1>sh, <1>s DEF ShownInv, Current
<1>no. ASSUME taskId' = <<>>, poll' = InLog!NoPoll, result' = <<>> PROVE ShownInv'
  BY <1>no DEF ShownInv, InLog!NoPoll
(* A step of a call, which is not sent by it unless its file was read *)
<1>st. ASSUME NEW i \in 1..Len(submissions), NEW step \in LogSteps,
              submissions' = [submissions EXCEPT ![i].step = step],
              \/ step \notin {"reading", "invalid", "sent"} /\ latest' = latest
              \/ submissions[i].step = "reading" /\ step = "invalid" /\ latest' = latest
              \/ submissions[i].step = "reading" /\ step = "sent" /\ latest' = [latest EXCEPT !.upload = i]
       PROVE  /\ CallsInv'
              /\ Len(submissions') = Len(submissions)
              /\ \A j \in 1..Len(submissions) :
                    /\ submissions'[j].kind = submissions[j].kind /\ submissions'[j].org = submissions[j].org
                    /\ submissions'[j].crossed = submissions[j].crossed
  <2>1. /\ submissions' \in Seq(LogCall) /\ Len(submissions') = Len(submissions)
        /\ \A j \in 1..Len(submissions) :
              /\ submissions'[j].kind = submissions[j].kind /\ submissions'[j].org = submissions[j].org
              /\ submissions'[j].crossed = submissions[j].crossed
              /\ submissions'[j].step = IF j = i THEN step ELSE submissions[j].step
    <3>1. submissions' = [submissions EXCEPT ![i].step = step]
      BY <1>st
    <3> QED BY <3>1, <1>l, StepTaken
  <2>2. /\ latest' \in [InLog!Kinds -> Nat]
        /\ \A k \in InLog!Kinds : latest'[k] = latest[k] \/ (k = "upload" /\ latest'[k] = i /\ submissions[i].kind = "upload")
    <3>1. latest \in [InLog!Kinds -> Nat] /\ i \in Nat /\ "upload" \in InLog!Kinds
      BY <1>f, <1>l DEF InLog!Kinds
    <3>2. submissions[i].step = "reading" => submissions[i].kind = "upload"
      BY <1>s DEF CallsInv
    <3> QED BY <3>1, <3>2, <1>st
  <2>3. \A k \in InLog!Kinds :
          latest'[k] # 0 => latest'[k] \in 1..Len(submissions') /\ submissions'[latest'[k]].kind = k
    BY <2>1, <2>2, <1>s DEF CallsInv
  <2>4. ASSUME NEW j \in 1..Len(submissions)
        PROVE  /\ submissions'[j].step \in {"reading", "invalid"} => submissions'[j].kind = "upload"
               /\ submissions'[j].step \in {"reading", "sent"} => submissions'[j].crossed # "settled"
               /\ submissions'[j].step = "sent" /\ submissions'[j].kind # "upload" =>
                    j = Len(submissions') /\ latest'[submissions'[j].kind] = j
    <3>1. submissions[j].kind \in InLog!Kinds
      BY <1>s, CallAt DEF LogCall
    <3>2. CASE j = i
      BY <3>1, <3>2, <2>1, <1>st, <1>s DEF CallsInv
    <3>3. CASE j # i
      BY <3>1, <3>3, <2>1, <2>2, <1>s DEF CallsInv
    <3> QED BY <3>2, <3>3
  <2>5. CallsInv'
    BY <2>1, <2>2, <2>3, <2>4, <1>s DEF CallsInv
  <2> QED BY <2>1, <2>5
(* Nothing is submitted while a call that is not an upload is on its way. *)
<1>su. ASSUME NEW kind \in InLog!Kinds, NEW org \in LogOrgs \cup {"none"}, NEW step,
              InLog!Submit(kind, org, step),
              \/ step = "sent" /\ kind # "upload" /\ latest' = [latest EXCEPT ![kind] = Len(submissions')]
              \/ step \in {"reading", "invalid"} /\ kind = "upload" /\ latest' = latest
       PROVE  CallsInv'
  <2> DEFINE new == [kind |-> kind, org |-> org, step |-> step, crossed |-> "no"]
  <2>1. new \in LogCall
    BY <1>su DEF LogCall, LogSteps
  <2>2. /\ submissions' = Append(submissions, new) /\ ~InLog!Pending
        /\ Len(submissions) < MaxSubmissions
    BY <1>su DEF InLog!Submit
  <2>3. new.kind = kind /\ new.step = step /\ new.crossed = "no"
    OBVIOUS
  <2> HIDE DEF new
  <2>4. /\ submissions' \in Seq(LogCall) /\ Len(submissions') = Len(submissions) + 1
        /\ submissions'[Len(submissions) + 1] = new
        /\ \A j \in 1..Len(submissions) : submissions'[j] = submissions[j]
    BY <2>1, <2>2, <1>l, AppendProperties
  <2>5. \A j \in 1..Len(submissions) : submissions[j].kind # "upload" => submissions[j].step # "sent"
    <3> SUFFICES ASSUME NEW j \in 1..Len(submissions), submissions[j].kind # "upload", submissions[j].step = "sent"
                 PROVE  FALSE
      OBVIOUS
    <3>1. submissions[j].kind \in InLog!Kinds
      BY <1>s, CallAt DEF LogCall
    <3>2. latest[submissions[j].kind] = j
      BY <1>s DEF CallsInv
    <3>3. InLog!Pending
      BY <3>1, <3>2, <1>l DEF InLog!Pending
    <3> QED BY <3>3, <2>2
  <2>6. /\ latest' \in [InLog!Kinds -> Nat]
        /\ \A k \in InLog!Kinds : latest'[k] = latest[k] \/ (k = kind /\ latest'[k] = Len(submissions'))
    <3>1. Len(submissions') \in Nat
      BY <1>l, <2>4
    <3> QED BY <3>1, <1>f, <1>su
  <2>7. ASSUME NEW k \in InLog!Kinds, latest'[k] # 0
        PROVE  latest'[k] \in 1..Len(submissions') /\ submissions'[latest'[k]].kind = k
    <3>1. CASE latest'[k] = latest[k]
      <4>1. latest[k] \in 1..Len(submissions) /\ submissions[latest[k]].kind = k
        BY <3>1, <2>7, <1>s DEF CallsInv
      <4> QED BY <4>1, <3>1, <2>4, <1>l
    <3>2. CASE k = kind /\ latest'[k] = Len(submissions')
      BY <3>2, <2>3, <2>4, <1>l
    <3> QED BY <3>1, <3>2, <2>6
  <2>8. ASSUME NEW j \in 1..Len(submissions')
        PROVE  /\ submissions'[j].step \in {"reading", "invalid"} => submissions'[j].kind = "upload"
               /\ submissions'[j].step \in {"reading", "sent"} => submissions'[j].crossed # "settled"
               /\ submissions'[j].step = "sent" /\ submissions'[j].kind # "upload" =>
                    j = Len(submissions') /\ latest'[submissions'[j].kind] = j
    <3>1. CASE j \in 1..Len(submissions)
      BY <3>1, <2>4, <2>5, <1>s DEF CallsInv
    <3>2. CASE j = Len(submissions) + 1
      <4>1. submissions'[j] = new /\ j = Len(submissions')
        BY <3>2, <2>4
      <4>2. step = "sent" /\ kind # "upload" => latest'[kind] = Len(submissions')
        BY <1>su, <1>s DEF CallsInv
      <4> QED BY <4>1, <4>2, <2>3, <1>su
    <3> QED BY <3>1, <3>2, <2>4, <1>l
  <2>9. Len(submissions') <= MaxSubmissions
    BY <2>2, <2>4, <1>l, BoundsAssumption
  <2> QED BY <2>4, <2>6, <2>7, <2>8, <2>9 DEF CallsInv
<1>1. CASE InLog!Paste
  <2> DEFINE kind == IF logForm.async THEN "async" ELSE "sync"
             org == IF logForm.workspace = "organization" THEN selected ELSE "none"
  <2>1. /\ InLog!Submit(kind, org, "sent") /\ latest' = [latest EXCEPT ![kind] = Len(submissions')]
        /\ InLog!Forget /\ UNCHANGED <<selected, canCreate, logForm, switches>>
    BY <1>1 DEF InLog!Paste
  <2>2. kind \in InLog!Kinds /\ kind # "upload" /\ org \in LogOrgs \cup {"none"}
    BY <1>s DEF ChoiceInv, InLog!Kinds
  <2> HIDE DEF kind, org
  <2>3. CallsInv'
    BY <2>1, <2>2, <1>su
  <2>4. ShownInv'
    BY <2>1, <1>no DEF InLog!Forget
  <2> QED BY <2>1, <2>3, <2>4, <1>ch DEF LogIInv
<1>2. CASE InLog!Upload
  <2>1. PICK step \in {"reading", "invalid"} : InLog!Submit("upload", "none", step)
    BY <1>2 DEF InLog!Upload
  <2>2. /\ taskId' = <<>> /\ poll' = InLog!NoPoll /\ result' = <<>>
        /\ UNCHANGED <<selected, canCreate, logForm, latest, queuedOrg, switches>>
    BY <1>2 DEF InLog!Upload
  <2>3. CallsInv'
    <3>1. "upload" \in InLog!Kinds /\ "none" \in LogOrgs \cup {"none"}
      BY DEF InLog!Kinds
    <3> QED BY <2>1, <2>2, <3>1, <1>su
  <2> QED BY <2>2, <2>3, <1>ch, <1>no DEF LogIInv
<1>3. CASE InLog!TickAsync
  <2>1. /\ logForm' = [logForm EXCEPT !.async = ~@]
        /\ UNCHANGED <<selected, canCreate, submissions, latest, taskId, queuedOrg, poll, result, switches>>
    BY <1>3 DEF InLog!TickAsync
  <2>2. ChoiceInv'
    BY <2>1, <1>s DEF ChoiceInv
  <2>3. ShownInv'
    BY <2>1, <1>sh
  <2> QED BY <2>1, <2>2, <2>3, <1>ca DEF LogIInv
<1>4. ASSUME NEW org \in LogOrgs \cup {"none"}, NEW may \in BOOLEAN, InLog!ChangeWorkspace(org, may)
      PROVE  LogIInv'
  <2>1. /\ switches < MaxSwitches /\ switches' = switches + 1
        /\ may => org # "none"
        /\ selected' = org /\ canCreate' = may /\ InLog!Forget /\ UNCHANGED latest
        /\ logForm' = IF may THEN logForm ELSE [logForm EXCEPT !.workspace = "personal"]
        /\ submissions' = [i \in DOMAIN submissions |-> InLog!Crossed(submissions[i])]
    BY <1>4 DEF InLog!ChangeWorkspace
  <2>2. ChoiceInv'
    BY <2>1, <1>s, BoundsAssumption DEF ChoiceInv
  <2>3. /\ submissions' \in Seq(LogCall) /\ Len(submissions') = Len(submissions)
        /\ \A j \in 1..Len(submissions) :
              /\ submissions'[j].kind = submissions[j].kind /\ submissions'[j].step = submissions[j].step
              /\ submissions[j].step \in {"reading", "sent"} => submissions'[j].crossed = "on its way"
    BY <2>1, <1>l, AllCrossed
  <2>4. CallsInv'
    <3>1. ASSUME NEW k \in InLog!Kinds, latest[k] # 0
          PROVE  latest[k] \in 1..Len(submissions') /\ submissions'[latest[k]].kind = k
      BY <3>1, <2>3, <1>s DEF CallsInv
    <3>2. ASSUME NEW j \in 1..Len(submissions)
          PROVE  /\ submissions'[j].step \in {"reading", "invalid"} => submissions'[j].kind = "upload"
                 /\ submissions'[j].step \in {"reading", "sent"} => submissions'[j].crossed # "settled"
                 /\ submissions'[j].step = "sent" /\ submissions'[j].kind # "upload" =>
                      j = Len(submissions) /\ latest[submissions'[j].kind] = j
      <4>1. /\ submissions'[j].kind = submissions[j].kind /\ submissions'[j].step = submissions[j].step
            /\ submissions[j].step \in {"reading", "sent"} => submissions'[j].crossed = "on its way"
        BY <2>3
      <4>2. /\ submissions[j].step \in {"reading", "invalid"} => submissions[j].kind = "upload"
            /\ submissions[j].step = "sent" /\ submissions[j].kind # "upload" =>
                 j = Len(submissions) /\ latest[submissions[j].kind] = j
        BY <1>s DEF CallsInv
      <4> QED BY <4>1, <4>2
    <3>3. latest' = latest /\ latest \in [InLog!Kinds -> Nat] /\ Len(submissions) <= MaxSubmissions
      BY <2>1, <1>s DEF CallsInv
    <3> QED BY <3>1, <3>2, <3>3, <2>3 DEF CallsInv
  <2>5. ShownInv'
    BY <2>1, <1>no DEF InLog!Forget
  <2> QED BY <2>2, <2>4, <2>5 DEF LogIInv
<1>5. ASSUME NEW w \in {"personal", "organization"}, InLog!ChooseWorkspace(w) PROVE LogIInv'
  <2>1. /\ w = "organization" => canCreate
        /\ logForm' = [logForm EXCEPT !.workspace = w]
        /\ UNCHANGED <<selected, canCreate, submissions, latest, taskId, queuedOrg, poll, result, switches>>
    BY <1>5 DEF InLog!ChooseWorkspace
  <2>2. ChoiceInv'
    BY <2>1, <1>s DEF ChoiceInv
  <2>3. ShownInv'
    BY <2>1, <1>sh
  <2> QED BY <2>1, <2>2, <2>3, <1>ca DEF LogIInv
<1>6. ASSUME NEW i \in DOMAIN submissions, InLog!FileRead(i) PROVE LogIInv'
  <2>1. /\ submissions[i].step = "reading"
        /\ \/ /\ submissions' = [submissions EXCEPT ![i].step = "sent"]
              /\ latest' = [latest EXCEPT !.upload = i]
           \/ /\ submissions' = [submissions EXCEPT ![i].step = "invalid"]
              /\ latest' = latest
        /\ UNCHANGED <<selected, canCreate, logForm, taskId, queuedOrg, poll, result, switches>>
    BY <1>6 DEF InLog!FileRead
  <2>2. "sent" \in LogSteps /\ "invalid" \in LogSteps
    BY DEF LogSteps
  <2>3. /\ CallsInv'
        /\ Len(submissions') = Len(submissions)
        /\ \A j \in 1..Len(submissions) :
              /\ submissions'[j].kind = submissions[j].kind /\ submissions'[j].org = submissions[j].org
              /\ submissions'[j].crossed = submissions[j].crossed
    BY <2>1, <2>2, <1>l, <1>st
  <2>4. ShownInv'
    BY <2>1, <2>3, <1>sh
  <2> QED BY <2>1, <2>3, <2>4, <1>ch DEF LogIInv
<1>7. ASSUME NEW i \in DOMAIN submissions, InLog!Answered(i) PROVE LogIInv'
  <2>1. submissions[i].step = "sent" /\ UNCHANGED <<selected, canCreate, logForm, latest, switches>>
    BY SMTT(30), <1>7 DEF InLog!Answered
  <2>2. Current(i) /\ i \in 1..Len(submissions)
    BY <2>1, <1>s, <1>l DEF CallsInv, Current
  <2>3. CASE submissions[i].kind = "async"
    <3>1. /\ submissions' = [submissions EXCEPT ![i].step = "queued"]
          /\ taskId' = <<i>> /\ queuedOrg' = submissions[i].org
          /\ poll' = [step |-> "asked", seen |-> "nothing"] /\ UNCHANGED result
      BY <1>7, <2>3 DEF InLog!Answered
    <3>2. "queued" \in LogSteps
      BY DEF LogSteps, InLog!Active
    <3>3. /\ CallsInv'
          /\ Len(submissions') = Len(submissions)
          /\ \A j \in 1..Len(submissions) :
                /\ submissions'[j].kind = submissions[j].kind /\ submissions'[j].org = submissions[j].org
                /\ submissions'[j].crossed = submissions[j].crossed
      BY <2>1, <3>1, <3>2, <1>l, <1>st
    <3>4. ShownInv'
      <4>1. poll' \in [step : {"idle", "asked"}, seen : InLog!Active \cup {"nothing"}]
        BY <3>1
      <4>2. taskId' # <<>>
        BY <3>1
      <4>3. /\ taskId' = <<i>> /\ Current(i)'
            /\ submissions'[i].kind = "async" /\ queuedOrg' = submissions'[i].org
        BY <3>1, <3>3, <2>2, <2>3 DEF Current
      <4>4. result' # <<>> => \E j \in 1..Len(submissions') : result' = <<j>> /\ Current(j)'
        BY <3>1, <3>3, <1>s DEF ShownInv, Current
      <4> QED BY <4>1, <4>2, <4>3, <4>4, <2>2, <3>3 DEF ShownInv
    <3> QED BY <2>1, <3>3, <3>4, <1>ch DEF LogIInv
  <2>4. CASE submissions[i].kind # "async"
    <3>1. /\ submissions' = [submissions EXCEPT ![i].step = "analyzed"]
          /\ result' = <<i>> /\ UNCHANGED <<taskId, queuedOrg, poll>>
      BY <1>7, <2>4 DEF InLog!Answered
    <3>2. "analyzed" \in LogSteps
      BY DEF LogSteps
    <3>3. /\ CallsInv'
          /\ Len(submissions') = Len(submissions)
          /\ \A j \in 1..Len(submissions) :
                /\ submissions'[j].kind = submissions[j].kind /\ submissions'[j].org = submissions[j].org
                /\ submissions'[j].crossed = submissions[j].crossed
      BY <2>1, <3>1, <3>2, <1>l, <1>st
    <3>4. ShownInv'
      <4>1. result' = <<i>> /\ Current(i)'
        BY <3>1, <3>3, <2>2 DEF Current
      <4> QED BY <4>1, <3>1, <3>3, <2>2, <1>s DEF ShownInv, Current
    <3> QED BY <2>1, <3>3, <3>4, <1>ch DEF LogIInv
  <2> QED BY <2>3, <2>4
<1>8. ASSUME NEW i \in DOMAIN submissions, InLog!Refused(i) PROVE LogIInv'
  <2>1. /\ submissions' = [submissions EXCEPT ![i].step = "refused"]
        /\ UNCHANGED <<selected, canCreate, logForm, latest, taskId, queuedOrg, poll, result, switches>>
    BY <1>8 DEF InLog!Refused
  <2>2. "refused" \in LogSteps
    BY DEF LogSteps
  <2>3. /\ CallsInv'
        /\ Len(submissions') = Len(submissions)
        /\ \A j \in 1..Len(submissions) :
              /\ submissions'[j].kind = submissions[j].kind /\ submissions'[j].org = submissions[j].org
              /\ submissions'[j].crossed = submissions[j].crossed
    BY <2>1, <2>2, <1>l, <1>st
  <2>4. ShownInv'
    BY <2>1, <2>3, <1>sh
  <2> QED BY <2>1, <2>3, <2>4, <1>ch DEF LogIInv
<1>9. ASSUME NEW i \in DOMAIN submissions, InLog!TaskMoves(i) PROVE LogIInv'
  <2>1. PICK step \in {"running"} \cup InLog!Ended : submissions' = [submissions EXCEPT ![i].step = step]
    BY <1>9 DEF InLog!TaskMoves
  <2>2. UNCHANGED <<selected, canCreate, logForm, latest, taskId, queuedOrg, poll, result, switches>>
    BY <1>9 DEF InLog!TaskMoves
  <2>3. step \in LogSteps /\ step \notin {"reading", "invalid", "sent"}
    BY DEF LogSteps, InLog!Active, InLog!Ended
  <2>4. /\ CallsInv'
        /\ Len(submissions') = Len(submissions)
        /\ \A j \in 1..Len(submissions) :
              /\ submissions'[j].kind = submissions[j].kind /\ submissions'[j].org = submissions[j].org
              /\ submissions'[j].crossed = submissions[j].crossed
    BY <2>1, <2>2, <2>3, <1>l, <1>st
  <2>5. ShownInv'
    BY <2>2, <2>4, <1>sh
  <2> QED BY <2>2, <2>4, <2>5, <1>ch DEF LogIInv
<1>10. CASE InLog!PollAnswered
  <2> DEFINE status == submissions[Head(taskId)].step
  <2>1. /\ poll.step = "asked" /\ UNCHANGED <<selected, canCreate, logForm, submissions, latest, switches>>
        /\ IF status \in InLog!Active
           THEN poll' = [step |-> "idle", seen |-> status] /\ UNCHANGED <<taskId, queuedOrg, result>>
           ELSE /\ taskId' = <<>> /\ queuedOrg' = "none" /\ poll' = InLog!NoPoll
                /\ result' \in {taskId, result}
    BY <1>10 DEF InLog!PollAnswered
  <2>2. taskId # <<>>
    BY <2>1, <1>s DEF ShownInv, InLog!NoPoll
  <2>3. ShownInv'
    <3>1. CASE status \in InLog!Active
      BY <3>1, <2>1, <2>2, <1>s DEF ShownInv, Current
    <3>2. CASE status \notin InLog!Active
      <4>1. taskId' = <<>> /\ poll' = InLog!NoPoll /\ result' \in {taskId, result} /\ submissions' = submissions
        BY <3>2, <2>1
      <4>2. poll' \in [step : {"idle", "asked"}, seen : InLog!Active \cup {"nothing"}]
        BY <4>1 DEF InLog!NoPoll
      <4>3. result' # <<>> => \E i \in 1..Len(submissions') : result' = <<i>> /\ Current(i)'
        BY <4>1, <2>2, <1>s DEF ShownInv, Current
      <4> QED BY <4>1, <4>2, <4>3 DEF ShownInv
    <3> QED BY <3>1, <3>2
  <2> QED BY <2>1, <2>3, <1>ch, <1>ca DEF LogIInv
<1>11. ASSUME InLog!PollFails \/ InLog!PollAgain PROVE LogIInv'
  <2>1. /\ \/ poll' = [poll EXCEPT !.step = "idle"]
           \/ poll' = [poll EXCEPT !.step = "asked"]
        /\ taskId # <<>>
        /\ UNCHANGED <<selected, canCreate, logForm, submissions, latest, taskId, queuedOrg, result, switches>>
    BY <1>11, <1>s DEF InLog!PollFails, InLog!PollAgain, ShownInv, InLog!NoPoll
  <2>2. poll' \in [step : {"idle", "asked"}, seen : InLog!Active \cup {"nothing"}]
    BY <2>1, <1>s DEF ShownInv
  <2>3. ShownInv'
    BY <2>1, <2>2, <1>s DEF ShownInv, Current
  <2> QED BY <2>1, <2>3, <1>ch, <1>ca DEF LogIInv
<1>12. CASE UNCHANGED logVars
  BY <1>12, <1>s DEF logVars, LogIInv, ChoiceInv, CallsInv, ShownInv, Current
<1> QED
  BY <1>1, <1>2, <1>3, <1>4, <1>5, <1>6, <1>7, <1>8, <1>9, <1>10, <1>11, <1>12 DEF InLog!LogNext

(* The invariant says what the runs check of logs. *)
LEMMA LogFacts == LogIInv => InLog!LogsTypeOK /\ InLog!AnalysisIsCurrent
<1> SUFFICES ASSUME LogIInv PROVE InLog!LogsTypeOK /\ InLog!AnalysisIsCurrent
  OBVIOUS
<1>1. ChoiceInv /\ CallsInv /\ ShownInv
  BY DEF LogIInv
<1>2. InLog!AnalysisIsCurrent
  <2> SUFFICES ASSUME NEW i \in DOMAIN submissions, <<i>> \in {result, taskId} PROVE Current(i)
    BY DEF InLog!AnalysisIsCurrent, Current
  <2> QED BY <1>1 DEF ShownInv
<1>3. InLog!LogsTypeOK
  <2>1. \A i \in DOMAIN submissions :
          /\ submissions[i].kind \in InLog!Kinds /\ submissions[i].org \in LogOrgs \cup {"none"}
          /\ submissions[i].step \in LogSteps
    <3>1. ASSUME NEW i \in DOMAIN submissions PROVE submissions[i] \in LogCall
      <4>1. i \in 1..Len(submissions)
        BY <1>1 DEF CallsInv
      <4> QED BY <1>1, <4>1, CallAt
    <3> QED BY <3>1 DEF LogCall
  <2>2. taskId # <<>> => /\ submissions[Head(taskId)].kind = "async"
                         /\ queuedOrg = submissions[Head(taskId)].org
    BY <1>1 DEF ShownInv
  <2> QED BY <1>1, <2>1, <2>2 DEF ChoiceInv, CallsInv, ShownInv, InLog!LogsTypeOK, LogSteps
<1> QED BY <1>2, <1>3

-----------------------------------------------------------------------------
(* Screens and their operations *)

(* Tables of different operations, above one another *)
LEMMA Stacked ==
  ASSUME NEW f1, NEW f2, NEW f3, NEW f4, NEW f5, NEW f6, NEW f7, NEW f8, NEW f9, NEW x
  PROVE  LET t7 == f1 ++ f2 ++ f3 ++ f4 ++ f5 ++ f6 ++ f7
             t8 == t7 ++ f8
             t9 == t8 ++ f9
             Before2 == x \notin DOMAIN f1
             Before3 == Before2 /\ x \notin DOMAIN f2
             Before4 == Before3 /\ x \notin DOMAIN f3
             Before5 == Before4 /\ x \notin DOMAIN f4
             Before6 == Before5 /\ x \notin DOMAIN f5
             Before7 == Before6 /\ x \notin DOMAIN f6
             Before8 == Before7 /\ x \notin DOMAIN f7
             Before9 == Before8 /\ x \notin DOMAIN f8
         IN /\ x \in DOMAIN f1 => t9[x] = f1[x]
            /\ Before2 /\ x \in DOMAIN f2 => t9[x] = f2[x]
            /\ Before3 /\ x \in DOMAIN f3 => t9[x] = f3[x]
            /\ Before4 /\ x \in DOMAIN f4 => t9[x] = f4[x]
            /\ Before5 /\ x \in DOMAIN f5 => t9[x] = f5[x]
            /\ Before6 /\ x \in DOMAIN f6 => t9[x] = f6[x]
            /\ Before7 /\ x \in DOMAIN f7 => t9[x] = f7[x]
            /\ Before8 /\ x \in DOMAIN f8 => t9[x] = f8[x]
            /\ Before9 /\ x \in DOMAIN f9 => t9[x] = f9[x]
<1> DEFINE t2 == f1 ++ f2
           t3 == t2 ++ f3
           t4 == t3 ++ f4
           t5 == t4 ++ f5
           t6 == t5 ++ f6
           t7 == t6 ++ f7
           t8 == t7 ++ f8
           t9 == t8 ++ f9
<1> HIDE DEF t2, t3, t4, t5, t6, t7, t8, t9
<1>1. /\ DOMAIN t2 = DOMAIN f1 \cup DOMAIN f2
      /\ x \in DOMAIN f1 => t2[x] = f1[x]
      /\ x \in DOMAIN f2 /\ x \notin DOMAIN f1 => t2[x] = f2[x]
  BY DEF t2, ++
<1>2. /\ DOMAIN t3 = DOMAIN t2 \cup DOMAIN f3
      /\ x \in DOMAIN t2 => t3[x] = t2[x]
      /\ x \in DOMAIN f3 /\ x \notin DOMAIN t2 => t3[x] = f3[x]
  BY DEF t3, ++
<1>3. /\ DOMAIN t4 = DOMAIN t3 \cup DOMAIN f4
      /\ x \in DOMAIN t3 => t4[x] = t3[x]
      /\ x \in DOMAIN f4 /\ x \notin DOMAIN t3 => t4[x] = f4[x]
  BY DEF t4, ++
<1>4. /\ DOMAIN t5 = DOMAIN t4 \cup DOMAIN f5
      /\ x \in DOMAIN t4 => t5[x] = t4[x]
      /\ x \in DOMAIN f5 /\ x \notin DOMAIN t4 => t5[x] = f5[x]
  BY DEF t5, ++
<1>5. /\ DOMAIN t6 = DOMAIN t5 \cup DOMAIN f6
      /\ x \in DOMAIN t5 => t6[x] = t5[x]
      /\ x \in DOMAIN f6 /\ x \notin DOMAIN t5 => t6[x] = f6[x]
  BY DEF t6, ++
<1>6. /\ DOMAIN t7 = DOMAIN t6 \cup DOMAIN f7
      /\ x \in DOMAIN t6 => t7[x] = t6[x]
      /\ x \in DOMAIN f7 /\ x \notin DOMAIN t6 => t7[x] = f7[x]
  BY DEF t7, ++
<1>7. /\ DOMAIN t8 = DOMAIN t7 \cup DOMAIN f8
      /\ x \in DOMAIN t7 => t8[x] = t7[x]
      /\ x \in DOMAIN f8 /\ x \notin DOMAIN t7 => t8[x] = f8[x]
  BY DEF t8, ++
<1>8. /\ DOMAIN t9 = DOMAIN t8 \cup DOMAIN f9
      /\ x \in DOMAIN t8 => t9[x] = t8[x]
      /\ x \in DOMAIN f9 /\ x \notin DOMAIN t8 => t9[x] = f9[x]
  BY DEF t9, ++
<1>9. LET Before2 == x \notin DOMAIN f1
          Before3 == Before2 /\ x \notin DOMAIN f2
          Before4 == Before3 /\ x \notin DOMAIN f3
          Before5 == Before4 /\ x \notin DOMAIN f4
          Before6 == Before5 /\ x \notin DOMAIN f5
          Before7 == Before6 /\ x \notin DOMAIN f6
          Before8 == Before7 /\ x \notin DOMAIN f7
          Before9 == Before8 /\ x \notin DOMAIN f8
      IN /\ x \in DOMAIN f1 => t9[x] = f1[x]
         /\ Before2 /\ x \in DOMAIN f2 => t9[x] = f2[x]
         /\ Before3 /\ x \in DOMAIN f3 => t9[x] = f3[x]
         /\ Before4 /\ x \in DOMAIN f4 => t9[x] = f4[x]
         /\ Before5 /\ x \in DOMAIN f5 => t9[x] = f5[x]
         /\ Before6 /\ x \in DOMAIN f6 => t9[x] = f6[x]
         /\ Before7 /\ x \in DOMAIN f7 => t9[x] = f7[x]
         /\ Before8 /\ x \in DOMAIN f8 => t9[x] = f8[x]
         /\ Before9 /\ x \in DOMAIN f9 => t9[x] = f9[x]
  BY <1>1, <1>2, <1>3, <1>4, <1>5, <1>6, <1>7, <1>8
<1> QED BY <1>9 DEF t2, t3, t4, t5, t6, t7, t8, t9

(* What the operations tell, table by table *)
LEMMA TellsRows ==
  /\ \A op \in {"createOrganization", "updateOrganization", "deleteOrganization", "updateMember",
                "removeMember"} :
       op \in DOMAIN OrganizationTells /\ Tells[op] = OrganizationTells[op]
  /\ \A op \in {"createInvitation", "resendInvitation", "revokeInvitation"} :
       op \in DOMAIN InvitationTells /\ Tells[op] = InvitationTells[op]
  /\ \A op \in {"acceptInvitation", "declineInvitation"} :
       op \in DOMAIN AnswerTells /\ Tells[op] = AnswerTells[op]
  /\ \A op \in {"createArtifact", "updateArtifact", "deleteArtifact", "createVersion",
                "restoreVersion", "addArtifactTag", "removeArtifactTag", "favoriteArtifact",
                "archiveArtifact"} :
       op \in DOMAIN ArtifactTells /\ Tells[op] = ArtifactTells[op]
  /\ \A op \in {"createPolicyPack", "updatePolicyPack", "deletePolicyPack", "createPolicyRule",
                "updatePolicyRule", "deletePolicyRule"} :
       op \in DOMAIN PolicyTells /\ Tells[op] = PolicyTells[op]
  /\ \A op \in {"patchAdminConfig", "patchAdminRouting", "patchOrgConfig", "patchOrgRouting"} :
       op \in DOMAIN ProviderTells /\ Tells[op] = ProviderTells[op]
  /\ \A op \in {"patchQuotas"} :
       op \in DOMAIN UsageTells /\ Tells[op] = UsageTells[op]
  /\ \A op \in {"cancelTask"} :
       op \in DOMAIN TaskTells /\ Tells[op] = TaskTells[op]
  /\ \A op \in {"revokeSession", "changePassword", "updateProfile"} :
       op \in DOMAIN AccountTells /\ Tells[op] = AccountTells[op]
<1>1. DOMAIN OrganizationTells = {"createOrganization", "updateOrganization",
                                  "deleteOrganization", "updateMember", "removeMember"}
  BY DEF OrganizationTells
<1>2. DOMAIN InvitationTells = {"createInvitation", "resendInvitation", "revokeInvitation"}
  BY DEF InvitationTells
<1>3. DOMAIN AnswerTells = {"acceptInvitation", "declineInvitation"}
  BY DEF AnswerTells
<1>4. DOMAIN ArtifactTells = {"createArtifact", "updateArtifact", "deleteArtifact",
                              "createVersion", "restoreVersion", "addArtifactTag",
                              "removeArtifactTag", "favoriteArtifact", "archiveArtifact"}
  BY DEF ArtifactTells
<1>5. DOMAIN PolicyTells = {"createPolicyPack", "updatePolicyPack", "deletePolicyPack",
                            "createPolicyRule", "updatePolicyRule", "deletePolicyRule"}
  BY DEF PolicyTells
<1>6. DOMAIN ProviderTells = {"patchAdminConfig", "patchAdminRouting", "patchOrgConfig",
                              "patchOrgRouting"}
  BY DEF ProviderTells
<1>7. DOMAIN UsageTells = {"patchQuotas"}
  BY DEF UsageTells
<1>8. DOMAIN TaskTells = {"cancelTask"}
  BY DEF TaskTells
<1>9. DOMAIN AccountTells = {"revokeSession", "changePassword", "updateProfile"}
  BY DEF AccountTells
<1>10. PICK t7, t8 : /\ t7 = OrganizationTells ++ InvitationTells ++ AnswerTells
                             ++ ArtifactTells ++ PolicyTells ++ ProviderTells ++ UsageTells
                   /\ t8 = t7 ++ TaskTells
  OBVIOUS
<1>11. Tells = t8 ++ AccountTells
  BY <1>10 DEF Tells
<1>12. ASSUME NEW op \in {"createOrganization", "updateOrganization", "deleteOrganization",
                          "updateMember", "removeMember"}
      PROVE  op \in DOMAIN OrganizationTells /\ Tells[op] = OrganizationTells[op]
  BY <1>1, <1>10, <1>11, Stacked
<1>13. ASSUME NEW op \in {"createInvitation", "resendInvitation", "revokeInvitation"}
      PROVE  op \in DOMAIN InvitationTells /\ Tells[op] = InvitationTells[op]
  BY <1>1, <1>2, <1>10, <1>11, Stacked
<1>14. ASSUME NEW op \in {"acceptInvitation", "declineInvitation"}
      PROVE  op \in DOMAIN AnswerTells /\ Tells[op] = AnswerTells[op]
  BY <1>1, <1>2, <1>3, <1>10, <1>11, Stacked
<1>15. ASSUME NEW op \in {"createArtifact", "updateArtifact", "deleteArtifact", "createVersion",
                          "restoreVersion", "addArtifactTag", "removeArtifactTag",
                          "favoriteArtifact", "archiveArtifact"}
      PROVE  op \in DOMAIN ArtifactTells /\ Tells[op] = ArtifactTells[op]
  BY <1>1, <1>2, <1>3, <1>4, <1>10, <1>11, Stacked
<1>16. ASSUME NEW op \in {"createPolicyPack", "updatePolicyPack", "deletePolicyPack",
                          "createPolicyRule", "updatePolicyRule", "deletePolicyRule"}
      PROVE  op \in DOMAIN PolicyTells /\ Tells[op] = PolicyTells[op]
  BY <1>1, <1>2, <1>3, <1>4, <1>5, <1>10, <1>11, Stacked
<1>17. ASSUME NEW op \in {"patchAdminConfig", "patchAdminRouting", "patchOrgConfig",
                          "patchOrgRouting"}
      PROVE  op \in DOMAIN ProviderTells /\ Tells[op] = ProviderTells[op]
  BY <1>1, <1>2, <1>3, <1>4, <1>5, <1>6, <1>10, <1>11, Stacked
<1>18. ASSUME NEW op \in {"patchQuotas"}
      PROVE  op \in DOMAIN UsageTells /\ Tells[op] = UsageTells[op]
  BY <1>1, <1>2, <1>3, <1>4, <1>5, <1>6, <1>7, <1>10, <1>11, Stacked
<1>19. ASSUME NEW op \in {"cancelTask"}
      PROVE  op \in DOMAIN TaskTells /\ Tells[op] = TaskTells[op]
  BY <1>1, <1>2, <1>3, <1>4, <1>5, <1>6, <1>7, <1>8, <1>10, <1>11, Stacked
<1>20. ASSUME NEW op \in {"revokeSession", "changePassword", "updateProfile"}
      PROVE  op \in DOMAIN AccountTells /\ Tells[op] = AccountTells[op]
  BY <1>1, <1>2, <1>3, <1>4, <1>5, <1>6, <1>7, <1>8, <1>9, <1>10, <1>11, Stacked
<1> QED
  BY <1>12, <1>13, <1>14, <1>15, <1>16, <1>17, <1>18, <1>19, <1>20

(* What they write *)
LEMMA WritesRows ==
  /\ \A op \in {"createOrganization", "updateOrganization", "deleteOrganization", "updateMember",
                "removeMember", "createInvitation", "resendInvitation", "revokeInvitation"} :
       op \in DOMAIN OrganizationWrites /\ Writes[op] = OrganizationWrites[op]
  /\ \A op \in {"acceptInvitation", "declineInvitation"} :
       op \in DOMAIN AnswerWrites /\ Writes[op] = AnswerWrites[op]
  /\ \A op \in {"createArtifact", "updateArtifact", "deleteArtifact", "createVersion",
                "restoreVersion"} :
       op \in DOMAIN ArtifactWrites /\ Writes[op] = ArtifactWrites[op]
  /\ \A op \in {"addArtifactTag", "removeArtifactTag", "favoriteArtifact", "archiveArtifact"} :
       op \in DOMAIN TagWrites /\ Writes[op] = TagWrites[op]
  /\ \A op \in {"createPolicyPack", "updatePolicyPack", "deletePolicyPack", "createPolicyRule",
                "updatePolicyRule", "deletePolicyRule"} :
       op \in DOMAIN PolicyWrites /\ Writes[op] = PolicyWrites[op]
  /\ \A op \in {"patchAdminConfig", "patchAdminRouting", "patchOrgConfig", "patchOrgRouting"} :
       op \in DOMAIN ProviderWrites /\ Writes[op] = ProviderWrites[op]
  /\ \A op \in {"patchQuotas"} :
       op \in DOMAIN UsageWrites /\ Writes[op] = UsageWrites[op]
  /\ \A op \in {"cancelTask"} :
       op \in DOMAIN TaskWrites /\ Writes[op] = TaskWrites[op]
  /\ \A op \in {"revokeSession", "changePassword", "updateProfile"} :
       op \in DOMAIN AccountWrites /\ Writes[op] = AccountWrites[op]
<1>1. DOMAIN OrganizationWrites = {"createOrganization", "updateOrganization",
                                   "deleteOrganization", "updateMember", "removeMember",
                                   "createInvitation", "resendInvitation", "revokeInvitation"}
  BY DEF OrganizationWrites
<1>2. DOMAIN AnswerWrites = {"acceptInvitation", "declineInvitation"}
  BY DEF AnswerWrites
<1>3. DOMAIN ArtifactWrites = {"createArtifact", "updateArtifact", "deleteArtifact",
                               "createVersion", "restoreVersion"}
  BY DEF ArtifactWrites
<1>4. DOMAIN TagWrites = {"addArtifactTag", "removeArtifactTag", "favoriteArtifact",
                          "archiveArtifact"}
  BY SMTT(30) DEF TagWrites
<1>5. DOMAIN PolicyWrites = {"createPolicyPack", "updatePolicyPack", "deletePolicyPack",
                             "createPolicyRule", "updatePolicyRule", "deletePolicyRule"}
  BY DEF PolicyWrites, PolicyTells, ++
<1>6. DOMAIN ProviderWrites = {"patchAdminConfig", "patchAdminRouting", "patchOrgConfig",
                               "patchOrgRouting"}
  BY DEF ProviderWrites
<1>7. DOMAIN UsageWrites = {"patchQuotas"}
  BY DEF UsageWrites
<1>8. DOMAIN TaskWrites = {"cancelTask"}
  BY DEF TaskWrites
<1>9. DOMAIN AccountWrites = {"revokeSession", "changePassword", "updateProfile"}
  BY DEF AccountWrites
<1>10. PICK t7, t8 : /\ t7 = OrganizationWrites ++ AnswerWrites ++ ArtifactWrites ++ TagWrites
                             ++ PolicyWrites ++ ProviderWrites ++ UsageWrites
                   /\ t8 = t7 ++ TaskWrites
  OBVIOUS
<1>11. Writes = t8 ++ AccountWrites
  BY <1>10 DEF Writes
<1>12. ASSUME NEW op \in {"createOrganization", "updateOrganization", "deleteOrganization",
                          "updateMember", "removeMember", "createInvitation", "resendInvitation",
                          "revokeInvitation"}
      PROVE  op \in DOMAIN OrganizationWrites /\ Writes[op] = OrganizationWrites[op]
  BY <1>1, <1>10, <1>11, Stacked
<1>13. ASSUME NEW op \in {"acceptInvitation", "declineInvitation"}
      PROVE  op \in DOMAIN AnswerWrites /\ Writes[op] = AnswerWrites[op]
  BY <1>1, <1>2, <1>10, <1>11, Stacked
<1>14. ASSUME NEW op \in {"createArtifact", "updateArtifact", "deleteArtifact", "createVersion",
                          "restoreVersion"}
      PROVE  op \in DOMAIN ArtifactWrites /\ Writes[op] = ArtifactWrites[op]
  BY <1>1, <1>2, <1>3, <1>10, <1>11, Stacked
<1>15. ASSUME NEW op \in {"addArtifactTag", "removeArtifactTag", "favoriteArtifact",
                          "archiveArtifact"}
      PROVE  op \in DOMAIN TagWrites /\ Writes[op] = TagWrites[op]
  BY <1>1, <1>2, <1>3, <1>4, <1>10, <1>11, Stacked
<1>16. ASSUME NEW op \in {"createPolicyPack", "updatePolicyPack", "deletePolicyPack",
                          "createPolicyRule", "updatePolicyRule", "deletePolicyRule"}
      PROVE  op \in DOMAIN PolicyWrites /\ Writes[op] = PolicyWrites[op]
  BY <1>1, <1>2, <1>3, <1>4, <1>5, <1>10, <1>11, Stacked
<1>17. ASSUME NEW op \in {"patchAdminConfig", "patchAdminRouting", "patchOrgConfig",
                          "patchOrgRouting"}
      PROVE  op \in DOMAIN ProviderWrites /\ Writes[op] = ProviderWrites[op]
  BY <1>1, <1>2, <1>3, <1>4, <1>5, <1>6, <1>10, <1>11, Stacked
<1>18. ASSUME NEW op \in {"patchQuotas"}
      PROVE  op \in DOMAIN UsageWrites /\ Writes[op] = UsageWrites[op]
  BY <1>1, <1>2, <1>3, <1>4, <1>5, <1>6, <1>7, <1>10, <1>11, Stacked
<1>19. ASSUME NEW op \in {"cancelTask"}
      PROVE  op \in DOMAIN TaskWrites /\ Writes[op] = TaskWrites[op]
  BY <1>1, <1>2, <1>3, <1>4, <1>5, <1>6, <1>7, <1>8, <1>10, <1>11, Stacked
<1>20. ASSUME NEW op \in {"revokeSession", "changePassword", "updateProfile"}
      PROVE  op \in DOMAIN AccountWrites /\ Writes[op] = AccountWrites[op]
  BY <1>1, <1>2, <1>3, <1>4, <1>5, <1>6, <1>7, <1>8, <1>9, <1>10, <1>11, Stacked
<1> QED
  BY <1>12, <1>13, <1>14, <1>15, <1>16, <1>17, <1>18, <1>19, <1>20

(* What the backend asks for them *)
LEMMA NeedsRows ==
  /\ \A op \in {"createOrganization", "updateOrganization", "updateSlug", "deleteOrganization",
                "updateMember", "removeMember"} :
       op \in DOMAIN OrganizationNeeds /\ Needs[op] = OrganizationNeeds[op]
  /\ \A op \in {"createInvitation", "resendInvitation", "revokeInvitation"} :
       op \in DOMAIN InvitationNeeds /\ Needs[op] = InvitationNeeds[op]
  /\ \A op \in {"acceptInvitation", "declineInvitation"} :
       op \in DOMAIN AnswerNeeds /\ Needs[op] = AnswerNeeds[op]
  /\ \A op \in {"createArtifact", "updateArtifact", "deleteArtifact", "createVersion",
                "restoreVersion", "addArtifactTag", "removeArtifactTag", "favoriteArtifact",
                "archiveArtifact"} :
       op \in DOMAIN ArtifactNeeds /\ Needs[op] = ArtifactNeeds[op]
  /\ \A op \in {"createPolicyPack", "updatePolicyPack", "deletePolicyPack", "createPolicyRule",
                "updatePolicyRule", "deletePolicyRule"} :
       op \in DOMAIN PolicyNeeds /\ Needs[op] = PolicyNeeds[op]
  /\ \A op \in {"patchAdminConfig", "patchAdminRouting", "patchOrgConfig", "patchOrgRouting"} :
       op \in DOMAIN ProviderNeeds /\ Needs[op] = ProviderNeeds[op]
  /\ \A op \in {"patchQuotas"} :
       op \in DOMAIN UsageNeeds /\ Needs[op] = UsageNeeds[op]
  /\ \A op \in {"cancelTask"} :
       op \in DOMAIN TaskNeeds /\ Needs[op] = TaskNeeds[op]
  /\ \A op \in {"revokeSession", "changePassword", "updateProfile"} :
       op \in DOMAIN AccountNeeds /\ Needs[op] = AccountNeeds[op]
<1>1. DOMAIN OrganizationNeeds = {"createOrganization", "updateOrganization", "updateSlug",
                                  "deleteOrganization", "updateMember", "removeMember"}
  BY DEF OrganizationNeeds
<1>2. DOMAIN InvitationNeeds = {"createInvitation", "resendInvitation", "revokeInvitation"}
  BY DEF InvitationNeeds
<1>3. DOMAIN AnswerNeeds = {"acceptInvitation", "declineInvitation"}
  BY SMTT(30) DEF AnswerNeeds
<1>4. DOMAIN ArtifactNeeds = {"createArtifact", "updateArtifact", "deleteArtifact",
                              "createVersion", "restoreVersion", "addArtifactTag",
                              "removeArtifactTag", "favoriteArtifact", "archiveArtifact"}
  BY DEF ArtifactNeeds, ArtifactTells, ++
<1>5. DOMAIN PolicyNeeds = {"createPolicyPack", "updatePolicyPack", "deletePolicyPack",
                            "createPolicyRule", "updatePolicyRule", "deletePolicyRule"}
  BY DEF PolicyNeeds, PolicyTells
<1>6. DOMAIN ProviderNeeds = {"patchAdminConfig", "patchAdminRouting", "patchOrgConfig",
                              "patchOrgRouting"}
  BY DEF ProviderNeeds
<1>7. DOMAIN UsageNeeds = {"patchQuotas"}
  BY DEF UsageNeeds
<1>8. DOMAIN TaskNeeds = {"cancelTask"}
  BY DEF TaskNeeds
<1>9. DOMAIN AccountNeeds = {"revokeSession", "changePassword", "updateProfile"}
  BY DEF AccountNeeds, AccountTells
<1>10. PICK t7, t8 : /\ t7 = OrganizationNeeds ++ InvitationNeeds ++ AnswerNeeds
                             ++ ArtifactNeeds ++ PolicyNeeds ++ ProviderNeeds ++ UsageNeeds
                   /\ t8 = t7 ++ TaskNeeds
  OBVIOUS
<1>11. Needs = t8 ++ AccountNeeds
  BY <1>10 DEF Needs
<1>12. ASSUME NEW op \in {"createOrganization", "updateOrganization", "updateSlug",
                          "deleteOrganization", "updateMember", "removeMember"}
      PROVE  op \in DOMAIN OrganizationNeeds /\ Needs[op] = OrganizationNeeds[op]
  BY <1>1, <1>10, <1>11, Stacked
<1>13. ASSUME NEW op \in {"createInvitation", "resendInvitation", "revokeInvitation"}
      PROVE  op \in DOMAIN InvitationNeeds /\ Needs[op] = InvitationNeeds[op]
  BY <1>1, <1>2, <1>10, <1>11, Stacked
<1>14. ASSUME NEW op \in {"acceptInvitation", "declineInvitation"}
      PROVE  op \in DOMAIN AnswerNeeds /\ Needs[op] = AnswerNeeds[op]
  BY <1>1, <1>2, <1>3, <1>10, <1>11, Stacked
<1>15. ASSUME NEW op \in {"createArtifact", "updateArtifact", "deleteArtifact", "createVersion",
                          "restoreVersion", "addArtifactTag", "removeArtifactTag",
                          "favoriteArtifact", "archiveArtifact"}
      PROVE  op \in DOMAIN ArtifactNeeds /\ Needs[op] = ArtifactNeeds[op]
  BY <1>1, <1>2, <1>3, <1>4, <1>10, <1>11, Stacked
<1>16. ASSUME NEW op \in {"createPolicyPack", "updatePolicyPack", "deletePolicyPack",
                          "createPolicyRule", "updatePolicyRule", "deletePolicyRule"}
      PROVE  op \in DOMAIN PolicyNeeds /\ Needs[op] = PolicyNeeds[op]
  BY <1>1, <1>2, <1>3, <1>4, <1>5, <1>10, <1>11, Stacked
<1>17. ASSUME NEW op \in {"patchAdminConfig", "patchAdminRouting", "patchOrgConfig",
                          "patchOrgRouting"}
      PROVE  op \in DOMAIN ProviderNeeds /\ Needs[op] = ProviderNeeds[op]
  BY <1>1, <1>2, <1>3, <1>4, <1>5, <1>6, <1>10, <1>11, Stacked
<1>18. ASSUME NEW op \in {"patchQuotas"}
      PROVE  op \in DOMAIN UsageNeeds /\ Needs[op] = UsageNeeds[op]
  BY <1>1, <1>2, <1>3, <1>4, <1>5, <1>6, <1>7, <1>10, <1>11, Stacked
<1>19. ASSUME NEW op \in {"cancelTask"}
      PROVE  op \in DOMAIN TaskNeeds /\ Needs[op] = TaskNeeds[op]
  BY <1>1, <1>2, <1>3, <1>4, <1>5, <1>6, <1>7, <1>8, <1>10, <1>11, Stacked
<1>20. ASSUME NEW op \in {"revokeSession", "changePassword", "updateProfile"}
      PROVE  op \in DOMAIN AccountNeeds /\ Needs[op] = AccountNeeds[op]
  BY <1>1, <1>2, <1>3, <1>4, <1>5, <1>6, <1>7, <1>8, <1>9, <1>10, <1>11, Stacked
<1> QED
  BY <1>12, <1>13, <1>14, <1>15, <1>16, <1>17, <1>18, <1>19, <1>20

(* A key begins the keys that it tells. *)
Begins(n, q) == IsPrefix(queryKeys[n], queryKeys[q])

LEMMA KeysBegin ==
  /\ Begins("organizations", "organizationList")
  /\ Begins("organizations", "organization")
  /\ Begins("members", "memberList")
  /\ Begins("invitations", "invitationList")
  /\ Begins("artifacts", "artifactList")
  /\ Begins("artifacts", "artifact")
  /\ Begins("artifact", "artifact")
  /\ Begins("versions", "versionList")
  /\ Begins("artifacts", "artifactTags")
  /\ Begins("policyPacks", "packList")
  /\ Begins("policyPacks", "pack")
  /\ Begins("pack", "pack")
  /\ Begins("adminConfigs", "adminConfigs")
  /\ Begins("adminHealth", "adminHealth")
  /\ Begins("adminRouting", "adminRouting")
  /\ Begins("orgConfigs", "orgConfigs")
  /\ Begins("orgRouting", "orgRouting")
  /\ Begins("orgUsage", "orgUsage")
  /\ Begins("orgQuotas", "orgQuotas")
  /\ Begins("tasks", "taskList")
  /\ Begins("tasks", "task")
  /\ Begins("sessions", "sessions")
  /\ Begins("currentUser", "currentUser")
BY DEF Begins, IsPrefix, queryKeys

(* The operations, by the tables that their rows are in *)
OrganizationOps ==
  {"createOrganization", "updateOrganization", "deleteOrganization", "updateMember", "removeMember"}
InvitationOps == {"createInvitation", "resendInvitation", "revokeInvitation"}
AnswerOps == {"acceptInvitation", "declineInvitation"}
VersionOps == {"createArtifact", "updateArtifact", "deleteArtifact", "createVersion", "restoreVersion"}
TagOps == {"addArtifactTag", "removeArtifactTag", "favoriteArtifact", "archiveArtifact"}
PolicyOps ==
  {"createPolicyPack", "updatePolicyPack", "deletePolicyPack", "createPolicyRule", "updatePolicyRule",
   "deletePolicyRule"}
PlatformOps == {"patchAdminConfig", "patchAdminRouting"}
ProviderOps == {"patchOrgConfig", "patchOrgRouting"}
AccountOps == {"revokeSession", "changePassword", "updateProfile"}
Operations ==
  OrganizationOps \cup InvitationOps \cup AnswerOps \cup VersionOps \cup TagOps \cup PolicyOps
    \cup PlatformOps \cup ProviderOps \cup {"patchQuotas", "cancelTask"} \cup AccountOps

(* The queries that everybody who is offered them may read, or that are    *)
(* listed in Unforeseen *)
OpenQueries ==
  {"organization", "memberList", "orgUsage", "orgQuotas", "taskList", "task", "artifactList", "artifact",
   "artifactTags", "versionList", "packList", "pack", "invitationList", "adminConfigs", "adminRouting",
   "adminHealth", "currentUser", "sessions", "organizationList", "myUsage"}

(* A mutation tells every query that it writes, but for the ones listed in *)
(* Untold.                                                                 *)
TellsWhatItWrites(op) ==
  \A q \in Writes[op] : <<op, q>> \notin OnPage!Untold => Told(Tells[op], q)

LEMMA WritesAreTold ==
  ASSUME NEW op \in Operations
  PROVE  TellsWhatItWrites(op) /\ (op \notin ProviderOps => Writes[op] \subseteq OpenQueries)
<1> DEFINE Good == TellsWhatItWrites(op) /\ (op \notin ProviderOps => Writes[op] \subseteq OpenQueries)
<1> USE DEF OpenQueries
<1>0. ASSUME NEW T, NEW W, Tells[op] = T, Writes[op] = W,
             \A q \in W : <<op, q>> \notin OnPage!Untold => \E n \in T : Begins(n, q),
             op \notin ProviderOps => W \subseteq OpenQueries
      PROVE  Good
  BY <1>0 DEF TellsWhatItWrites, Told, Begins
<1>1. CASE op \in OrganizationOps
  <2> USE <1>1 DEF OrganizationOps
  <2>1. Tells[op] = OrganizationTells[op] /\ Writes[op] = OrganizationWrites[op]
    BY TellsRows, WritesRows
  <2>2. /\ OrganizationWrites[op] \subseteq OpenQueries
        /\ \A q \in OrganizationWrites[op] : \E n \in OrganizationTells[op] : Begins(n, q)
    BY KeysBegin DEF OrganizationTells, OrganizationWrites
  <2> QED BY <1>0, <2>1, <2>2
<1>2. CASE op \in InvitationOps
  <2> USE <1>2 DEF InvitationOps
  <2>1. Tells[op] = InvitationTells[op] /\ Writes[op] = OrganizationWrites[op]
    BY TellsRows, WritesRows
  <2>2. /\ OrganizationWrites[op] \subseteq OpenQueries
        /\ \A q \in OrganizationWrites[op] : \E n \in InvitationTells[op] : Begins(n, q)
    BY KeysBegin DEF InvitationTells, OrganizationWrites
  <2> QED BY <1>0, <2>1, <2>2
<1>3. CASE op \in AnswerOps
  <2> USE <1>3 DEF AnswerOps
  <2>1. Tells[op] = AnswerTells[op] /\ Writes[op] = AnswerWrites[op]
    BY TellsRows, WritesRows
  <2>2. /\ AnswerWrites[op] \subseteq OpenQueries
        /\ \A q \in AnswerWrites[op] : <<op, q>> \in OnPage!Untold
    BY DEF AnswerWrites, OnPage!Untold
  <2> QED BY <1>0, <2>1, <2>2
<1>4. CASE op \in VersionOps
  <2> USE <1>4 DEF VersionOps
  <2>1. Tells[op] = ArtifactTells[op] /\ Writes[op] = ArtifactWrites[op]
    BY TellsRows, WritesRows
  <2>2. /\ ArtifactWrites[op] \subseteq OpenQueries
        /\ \A q \in ArtifactWrites[op] :
             <<op, q>> \notin OnPage!Untold => \E n \in ArtifactTells[op] : Begins(n, q)
    BY KeysBegin DEF ArtifactTells, ArtifactWrites, OnPage!Untold, Retold, Reversioned
  <2> QED BY <1>0, <2>1, <2>2
<1>5. CASE op \in TagOps
  <2> USE <1>5 DEF TagOps
  <2>1. Tells[op] = ArtifactTells[op] /\ Writes[op] = TagWrites[op]
    BY TellsRows, WritesRows
  <2>2. /\ TagWrites[op] \subseteq OpenQueries
        /\ \A q \in TagWrites[op] : \E n \in ArtifactTells[op] : Begins(n, q)
    BY KeysBegin DEF ArtifactTells, TagWrites, Retold
  <2> QED BY <1>0, <2>1, <2>2
<1>6. CASE op \in PolicyOps
  <2> USE <1>6 DEF PolicyOps
  <2>1. Tells[op] = PolicyTells[op] /\ Writes[op] = PolicyWrites[op]
    BY SMTT(30), TellsRows, WritesRows
  <2>2. PolicyWrites[op] = IF op = "createPolicyPack" THEN {"packList"} ELSE {"packList", "pack"}
    BY DEF PolicyWrites, PolicyTells, ++
  <2>3. \A q \in PolicyWrites[op] :
          <<op, q>> \notin OnPage!Untold => \E n \in PolicyTells[op] : Begins(n, q)
    BY <2>2, KeysBegin DEF PolicyTells, OnPage!Untold
  <2> QED BY <1>0, <2>1, <2>2, <2>3
<1>7. CASE op \in PlatformOps \cup ProviderOps
  <2> USE <1>7 DEF PlatformOps, ProviderOps
  <2>1. Tells[op] = ProviderTells[op] /\ Writes[op] = ProviderWrites[op]
    BY TellsRows, WritesRows
  <2>2. /\ op \notin ProviderOps => ProviderWrites[op] \subseteq OpenQueries
        /\ \A q \in ProviderWrites[op] : \E n \in ProviderTells[op] : Begins(n, q)
    BY KeysBegin DEF ProviderTells, ProviderWrites
  <2> QED BY <1>0, <2>1, <2>2
<1>8. CASE op = "patchQuotas"
  <2>1. Tells[op] = UsageTells[op] /\ Writes[op] = UsageWrites[op]
    BY <1>8, TellsRows, WritesRows
  <2>2. /\ UsageWrites[op] \subseteq OpenQueries
        /\ \A q \in UsageWrites[op] : \E n \in UsageTells[op] : Begins(n, q)
    BY <1>8, KeysBegin DEF UsageTells, UsageWrites
  <2> QED BY <1>0, <2>1, <2>2
<1>9. CASE op = "cancelTask"
  <2>1. Tells[op] = TaskTells[op] /\ Writes[op] = TaskWrites[op]
    BY <1>9, TellsRows, WritesRows
  <2>2. /\ TaskWrites[op] \subseteq OpenQueries
        /\ \A q \in TaskWrites[op] : \E n \in TaskTells[op] : Begins(n, q)
    BY <1>9, KeysBegin DEF TaskTells, TaskWrites
  <2> QED BY <1>0, <2>1, <2>2
<1>10. CASE op \in AccountOps
  <2> USE <1>10 DEF AccountOps
  <2>1. Tells[op] = AccountTells[op] /\ Writes[op] = AccountWrites[op]
    BY TellsRows, WritesRows
  <2>2. /\ AccountWrites[op] \subseteq OpenQueries
        /\ \A q \in AccountWrites[op] : \E n \in AccountTells[op] : Begins(n, q)
    BY KeysBegin DEF AccountTells, AccountWrites
  <2> QED BY <1>0, <2>1, <2>2
<1> QED BY <1>1, <1>2, <1>3, <1>4, <1>5, <1>6, <1>7, <1>8, <1>9, <1>10 DEF Operations

(* What a role may do when it is shown a control with this gate *)
Passes(role, gate) == gate = "none" \/ can(role, gate)

(* Who passes a gate *)
LEMMA GatesOfRoles ==
  ASSUME NEW role \in Roles
  PROVE  /\ Passes(role, "organization.update") => role \in {"owner", "admin"}
         /\ Passes(role, "organization.delete") => role = "owner"
         /\ Passes(role, "member.manage") => role \in {"owner", "admin"}
         /\ Passes(role, "policy.manage") => role \in {"owner", "admin"}
         /\ Passes(role, "audit.read") => role \in {"owner", "admin"}
         /\ Passes(role, "artifact.write") => role \in {"owner", "admin", "member"}
         /\ Passes(role, "task.cancel") => role \in {"owner", "admin", "member"}
<1>1. CASE role = "owner"
  BY <1>1 DEF Passes, can, AdminPermissions, MemberPermissions, ViewerPermissions
<1>2. CASE role = "admin"
  BY <1>2 DEF Passes, can, AdminPermissions, MemberPermissions, ViewerPermissions
<1>3. CASE role = "member"
  BY <1>3 DEF Passes, can, MemberPermissions, ViewerPermissions
<1>4. CASE role = "viewer"
  BY <1>4 DEF Passes, can, ViewerPermissions
<1> QED BY <1>1, <1>2, <1>3, <1>4 DEF Roles

(* What the backend permits to whom *)
LEMMA PermitsOfRoles ==
  ASSUME NEW role \in Roles
  PROVE  /\ Permits(role, "account") /\ Permits(role, "platform")
         /\ role = "owner" => Permits(role, "owner") /\ Permits(role, "organization.delete")
         /\ role \in {"owner", "admin"} =>
              /\ Permits(role, "owner or admin") /\ Permits(role, "organization.update")
              /\ Permits(role, "member.manage") /\ Permits(role, "policy.manage")
              /\ Permits(role, "audit.read")
         /\ role \in {"owner", "admin", "member"} =>
              Permits(role, "artifact.write") /\ Permits(role, "task.cancel")
         /\ Permits(role, "organization.read") /\ Permits(role, "artifact.read")
         /\ Permits(role, "policy.read")
BY DEF Permits, RoleHasPermission, Roles

(* The operations that controls with this gate start *)
OfferedOps(gate) ==
  CASE gate = "none" ->
         {"createOrganization"} \cup AnswerOps \cup TagOps \cup PlatformOps \cup AccountOps
    [] gate = "organization.update" -> {"updateOrganization", "patchQuotas"} \cup ProviderOps
    [] gate = "organization.delete" -> {"deleteOrganization"}
    [] gate = "member.manage" -> {"updateMember", "removeMember"} \cup InvitationOps
    [] gate = "artifact.write" -> VersionOps
    [] gate = "policy.manage" -> PolicyOps
    [] gate = "task.cancel" -> {"cancelTask"}
    [] OTHER -> {}

(* What the backend permits, or is known to refuse *)
MayDo(op, role) ==
  \/ \A part \in Asks(op) : Permits(role, Needs[part])
  \/ OnPage!Unforeseen(op, role)

(* What a control offers, the backend permits, but for what Unforeseen     *)
(* lists.                                                                  *)
LEMMA OfferedMayBeDone ==
  ASSUME NEW gate, NEW op \in OfferedOps(gate), NEW role \in Roles, Passes(role, gate)
  PROVE  MayDo(op, role)
<1>0. ASSUME op # "updateOrganization", NEW need, Needs[op] = need, Permits(role, need)
      PROVE  MayDo(op, role)
  BY <1>0 DEF MayDo, Asks
<1>1. CASE gate = "none"
  <2>1. op \in {"createOrganization"} \cup AnswerOps \cup AccountOps => Needs[op] = "account"
    BY NeedsRows DEF AnswerOps, AccountOps, OrganizationNeeds, AnswerNeeds, AccountNeeds, AccountTells
  <2>2. op \in PlatformOps => Needs[op] = "platform"
    BY SMTT(30), NeedsRows DEF PlatformOps, ProviderNeeds
  <2>3. op \in TagOps => Needs[op] = IF op = "favoriteArtifact" THEN "artifact.read" ELSE "artifact.write"
    BY NeedsRows DEF TagOps, ArtifactNeeds, ArtifactTells, ++
  <2>4. op \in TagOps /\ op # "favoriteArtifact" /\ role = "viewer" => MayDo(op, role)
    BY DEF MayDo, TagOps, OnPage!Unforeseen
  <2>5. op \in {"createOrganization"} \cup AnswerOps \cup TagOps \cup PlatformOps \cup AccountOps
    BY <1>1 DEF OfferedOps
  <2>6. op # "updateOrganization"
    BY <2>5 DEF AnswerOps, TagOps, PlatformOps, AccountOps
  <2>7. role \in {"owner", "admin", "member"} \/ role = "viewer"
    BY DEF Roles
  <2> QED BY <1>0, <2>1, <2>2, <2>3, <2>4, <2>5, <2>6, <2>7, PermitsOfRoles
<1>2. CASE gate = "organization.update"
  <2>1. op \in {"updateOrganization", "patchQuotas"} \cup ProviderOps
    BY <1>2 DEF OfferedOps
  <2>2. role \in {"owner", "admin"}
    BY <1>2, GatesOfRoles
  <2>3. CASE op = "patchQuotas"
    <3>1. Needs[op] = "owner or admin"
      BY <2>3, NeedsRows DEF UsageNeeds
    <3> QED BY <1>0, <2>2, <2>3, <3>1, PermitsOfRoles
  <2>4. CASE op # "patchQuotas" /\ role = "admin"
    BY <2>1, <2>4 DEF MayDo, OnPage!Unforeseen, ProviderOps
  <2>5. CASE op \in ProviderOps /\ role = "owner"
    <3>1. Needs[op] = "owner"
      BY <2>5, NeedsRows DEF ProviderOps, ProviderNeeds
    <3> QED BY <1>0, <2>5, <3>1, PermitsOfRoles DEF ProviderOps
  <2>6. CASE op = "updateOrganization" /\ role = "owner"
    <3>1. Needs["updateOrganization"] = "organization.update" /\ Needs["updateSlug"] = "owner"
      BY NeedsRows DEF OrganizationNeeds
    <3> QED BY <2>6, <3>1, PermitsOfRoles DEF MayDo, Asks
  <2> QED BY <2>1, <2>2, <2>3, <2>4, <2>5, <2>6
<1>3. CASE gate = "organization.delete"
  <2>1. op = "deleteOrganization" /\ role = "owner"
    BY <1>3, GatesOfRoles DEF OfferedOps
  <2>2. Needs[op] = "organization.delete"
    BY <2>1, NeedsRows DEF OrganizationNeeds
  <2> QED BY <1>0, <2>1, <2>2, PermitsOfRoles
<1>4. CASE gate = "member.manage"
  <2>1. op \in {"updateMember", "removeMember"} \cup InvitationOps /\ role \in {"owner", "admin"}
    BY <1>4, GatesOfRoles DEF OfferedOps
  <2>2. Needs[op] = "member.manage"
    BY <2>1, NeedsRows DEF InvitationOps, OrganizationNeeds, InvitationNeeds
  <2> QED BY <1>0, <2>1, <2>2, PermitsOfRoles DEF InvitationOps
<1>5. CASE gate = "artifact.write"
  <2>1. op \in VersionOps /\ role \in {"owner", "admin", "member"}
    BY SMTT(30), <1>5, GatesOfRoles DEF OfferedOps
  <2>2. Needs[op] = "artifact.write"
    BY <2>1, NeedsRows DEF VersionOps, ArtifactNeeds, ArtifactTells, ++
  <2> QED BY <1>0, <2>1, <2>2, PermitsOfRoles DEF VersionOps
<1>6. CASE gate = "policy.manage"
  <2>1. op \in PolicyOps /\ role \in {"owner", "admin"}
    BY <1>6, GatesOfRoles DEF OfferedOps
  <2>2. Needs[op] = "policy.manage"
    BY <2>1, NeedsRows DEF PolicyOps, PolicyNeeds, PolicyTells
  <2> QED BY <1>0, <2>1, <2>2, PermitsOfRoles DEF PolicyOps
<1>7. CASE gate = "task.cancel"
  <2>1. op = "cancelTask" /\ role \in {"owner", "admin", "member"}
    BY <1>7, GatesOfRoles DEF OfferedOps
  <2>2. Needs[op] = "task.cancel"
    BY <2>1, NeedsRows DEF TaskNeeds
  <2> QED BY <1>0, <2>1, <2>2, PermitsOfRoles
<1> QED BY <1>1, <1>2, <1>3, <1>4, <1>5, <1>6, <1>7 DEF OfferedOps

(* The queries by what the backend asks of their readers *)
OrganizationReads == {"organization", "memberList", "orgUsage", "orgQuotas", "taskList", "task"}
ArtifactReads == {"artifactList", "artifact", "artifactTags", "versionList"}
PackReads == {"packList", "pack"}
PlatformReads == {"adminConfigs", "adminRouting", "adminHealth"}
ProviderReads == {"orgConfigs", "orgRouting"}
AccountReads == {"currentUser", "sessions", "organizationList", "myUsage"}

(* What the backend asks of readers, table by table *)
LEMMA ReadRows ==
  /\ \A q \in OrganizationReads : ReadNeeds[q] = "organization.read"
  /\ \A q \in ArtifactReads : ReadNeeds[q] = "artifact.read"
  /\ \A q \in PackReads : ReadNeeds[q] = "policy.read"
  /\ ReadNeeds["invitationList"] = "member.manage" /\ ReadNeeds["auditList"] = "audit.read"
  /\ \A q \in PlatformReads : ReadNeeds[q] = "platform"
  /\ \A q \in ProviderReads : ReadNeeds[q] = "owner"
  /\ \A q \in AccountReads : ReadNeeds[q] = "account"
<1> USE DEF OrganizationReads, ArtifactReads, PackReads, PlatformReads, ProviderReads, AccountReads
<1>1. PICK f1, f2, f3, f4, f5, f6, f7 :
        /\ f1 = [q \in OrganizationReads |-> "organization.read"]
        /\ f2 = [q \in ArtifactReads |-> "artifact.read"]
        /\ f3 = [q \in PackReads |-> "policy.read"]
        /\ f4 = [invitationList |-> "member.manage", auditList |-> "audit.read"]
        /\ f5 = [q \in PlatformReads |-> "platform"]
        /\ f6 = [q \in ProviderReads |-> "owner"]
        /\ f7 = [q \in AccountReads |-> "account"]
  OBVIOUS
<1>2. ReadNeeds = f1 ++ f2 ++ f3 ++ f4 ++ f5 ++ f6 ++ f7
  BY <1>1 DEF ReadNeeds
<1>3. PICK t2 : t2 = f1 ++ f2
  OBVIOUS
<1>4. PICK t4 : t4 = t2 ++ f3 ++ f4
  OBVIOUS
<1>5. PICK t6 : t6 = t4 ++ f5 ++ f6
  OBVIOUS
<1>6. ReadNeeds = t6 ++ f7
  BY <1>2, <1>3, <1>4, <1>5
<1>7. /\ DOMAIN f1 = OrganizationReads /\ DOMAIN f2 = ArtifactReads /\ DOMAIN f3 = PackReads
      /\ DOMAIN f4 = {"invitationList", "auditList"} /\ DOMAIN f5 = PlatformReads
      /\ DOMAIN f6 = ProviderReads /\ DOMAIN f7 = AccountReads
  BY SMTT(30), <1>1
<1>8. /\ DOMAIN t2 = DOMAIN f1 \cup DOMAIN f2
      /\ \A q \in DOMAIN f1 : t2[q] = f1[q]
      /\ \A q \in DOMAIN f2 \ DOMAIN f1 : t2[q] = f2[q]
  BY <1>3 DEF ++
<1>9. /\ DOMAIN t4 = DOMAIN t2 \cup DOMAIN f3 \cup DOMAIN f4
      /\ \A q \in DOMAIN t2 : t4[q] = t2[q]
      /\ \A q \in DOMAIN f3 \ DOMAIN t2 : t4[q] = f3[q]
      /\ \A q \in DOMAIN f4 \ (DOMAIN t2 \cup DOMAIN f3) : t4[q] = f4[q]
  BY <1>4 DEF ++
<1>10. /\ DOMAIN t6 = DOMAIN t4 \cup DOMAIN f5 \cup DOMAIN f6
       /\ \A q \in DOMAIN t4 : t6[q] = t4[q]
       /\ \A q \in DOMAIN f5 \ DOMAIN t4 : t6[q] = f5[q]
       /\ \A q \in DOMAIN f6 \ (DOMAIN t4 \cup DOMAIN f5) : t6[q] = f6[q]
  BY <1>5 DEF ++
<1>11. /\ \A q \in DOMAIN t6 : ReadNeeds[q] = t6[q]
       /\ \A q \in DOMAIN f7 \ DOMAIN t6 : ReadNeeds[q] = f7[q]
  BY <1>6 DEF ++
<1>12. \A q \in OrganizationReads : ReadNeeds[q] = "organization.read"
  BY <1>1, <1>7, <1>8, <1>9, <1>10, <1>11
<1>13. \A q \in ArtifactReads : ReadNeeds[q] = "artifact.read"
  BY <1>1, <1>7, <1>8, <1>9, <1>10, <1>11
<1>14. \A q \in PackReads : ReadNeeds[q] = "policy.read"
  BY <1>1, <1>7, <1>8, <1>9, <1>10, <1>11
<1>15. ReadNeeds["invitationList"] = "member.manage" /\ ReadNeeds["auditList"] = "audit.read"
  BY <1>1, <1>7, <1>8, <1>9, <1>10, <1>11
<1>16. \A q \in PlatformReads : ReadNeeds[q] = "platform"
  BY <1>1, <1>7, <1>8, <1>9, <1>10, <1>11
<1>17. \A q \in ProviderReads : ReadNeeds[q] = "owner"
  BY <1>1, <1>7, <1>8, <1>9, <1>10, <1>11
<1>18. \A q \in AccountReads : ReadNeeds[q] = "account"
  BY <1>1, <1>7, <1>8, <1>9, <1>10, <1>11
<1> QED BY <1>12, <1>13, <1>14, <1>15, <1>16, <1>17, <1>18

(* What the backend lets read, or is known to refuse *)
MayRead(q, role) == Permits(role, ReadNeeds[q]) \/ OnPage!Unforeseen(q, role)

(* What a screen reads, its readers may, but for what Unforeseen lists. *)
LEMMA OpenMayBeRead ==
  ASSUME NEW role \in Roles
  PROVE  /\ \A q \in OpenQueries : MayRead(q, role)
         /\ \A q \in ProviderReads : Passes(role, "organization.update") => MayRead(q, role)
         /\ Passes(role, "audit.read") => MayRead("auditList", role)
<1>1. ASSUME NEW q, NEW need, ReadNeeds[q] = need, Permits(role, need)
      PROVE  MayRead(q, role)
  BY <1>1 DEF MayRead
<1>2. ASSUME NEW q \in OpenQueries \ {"invitationList"} PROVE MayRead(q, role)
  <2>1. q \in OrganizationReads \cup ArtifactReads \cup PackReads \cup PlatformReads \cup AccountReads
    BY DEF OpenQueries, OrganizationReads, ArtifactReads, PackReads, PlatformReads, AccountReads
  <2> QED BY <1>1, <2>1, ReadRows, PermitsOfRoles
<1>3. MayRead("invitationList", role)
  BY ReadRows, PermitsOfRoles DEF MayRead, OnPage!Unforeseen, Roles
<1>4. ASSUME NEW q \in ProviderReads, Passes(role, "organization.update")
      PROVE  MayRead(q, role)
  BY <1>4, ReadRows, GatesOfRoles, PermitsOfRoles DEF MayRead, OnPage!Unforeseen, ProviderReads
<1>5. ASSUME Passes(role, "audit.read") PROVE MayRead("auditList", role)
  BY <1>1, <1>5, ReadRows, GatesOfRoles, PermitsOfRoles
<1> QED BY <1>2, <1>3, <1>4, <1>5

(* A control is offered to those who may use it, and a dialog closes when  *)
(* its call ends and cannot be used before.                                *)
SoundControl(page, c) ==
  /\ c.dialog \in BOOLEAN
  /\ c.dialog => c.op \in c.busy /\ page.ends[c.op] # "stays"
  /\ c.op \in OfferedOps(c.gate)
  /\ c.busy \subseteq Operations
  /\ c.busy \cap ProviderOps # {} => ProviderReads \subseteq DOMAIN page.reads

(* A screen reads what everybody may, or has a gate before it. *)
SoundRead(page, q) ==
  \/ q \in OpenQueries /\ page.reads[q] = "none"
  \/ q \in ProviderReads /\ page.reads[q] = "organization.update"
  \/ q = "auditList" /\ page.reads[q] = "audit.read"

(* A screen whose controls and reads are sound *)
Sound(page) ==
  /\ \A c \in page.controls : SoundControl(page, c)
  /\ \A q \in DOMAIN page.reads : SoundRead(page, q)

(* The gates of the operations, one by one *)
LEMMA OfferedRows ==
  /\ \A op \in {"createOrganization"} \cup AnswerOps \cup TagOps \cup PlatformOps \cup AccountOps :
       op \in OfferedOps("none")
  /\ \A op \in {"updateOrganization", "patchQuotas"} \cup ProviderOps :
       op \in OfferedOps("organization.update")
  /\ "deleteOrganization" \in OfferedOps("organization.delete")
  /\ \A op \in {"updateMember", "removeMember"} \cup InvitationOps : op \in OfferedOps("member.manage")
  /\ \A op \in VersionOps : op \in OfferedOps("artifact.write")
  /\ \A op \in PolicyOps : op \in OfferedOps("policy.manage")
  /\ "cancelTask" \in OfferedOps("task.cancel")
BY DEF OfferedOps

(* The screens, control by control *)
LEMMA ControlsAreSound ==
  ASSUME NEW page, NEW op, NEW gate, NEW busy, op \in OfferedOps(gate), busy \subseteq Operations,
         busy \cap ProviderOps # {} => ProviderReads \subseteq DOMAIN page.reads
  PROVE  /\ SoundControl(page, Control(op, gate, busy))
         /\ op \in busy /\ page.ends[op] # "stays" => SoundControl(page, Dialog(op, gate, busy))
BY DEF SoundControl, Control, Dialog

(* Every screen of the table is sound. *)
LEMMA ScreensAreSound == \A name \in DOMAIN Screens : Sound(Screens[name])
<1> USE DEF Always, All, Screen, OpenQueries, ProviderReads, AnswerOps, InvitationOps, VersionOps, TagOps,
            PolicyOps, PlatformOps, ProviderOps, AccountOps, OrganizationOps
<1>1. Sound(Screens.organizations)
  <2>1. PICK page : page = Screens.organizations
    OBVIOUS
  <2>2. \A c \in page.controls : SoundControl(page, c)
    <3>1. page.controls = Screens.organizations.controls /\ page.ends = Screens.organizations.ends
          /\ page.reads = Screens.organizations.reads
      BY <2>1
    <3> QED BY <3>1, ControlsAreSound, OfferedRows DEF Screens, Operations, OrganizationsPage, OrganizationsView
  <2>3. \A q \in DOMAIN page.reads : SoundRead(page, q)
    BY <2>1 DEF Screens, SoundRead, OrganizationsPage
  <2> QED BY <2>1, <2>2, <2>3 DEF Sound
<1>2. Sound(Screens.organization)
  <2>1. PICK page : page = Screens.organization
    OBVIOUS
  <2>2. \A c \in page.controls : SoundControl(page, c)
    <3>1. page.controls = Screens.organization.controls /\ page.ends = Screens.organization.ends
          /\ page.reads = Screens.organization.reads
      BY <2>1
    <3> QED BY <3>1, ControlsAreSound, OfferedRows DEF Screens, Operations, OrganizationDetail, OrganizationActions
  <2>3. \A q \in DOMAIN page.reads : SoundRead(page, q)
    BY <2>1 DEF Screens, SoundRead, OrganizationDetail
  <2> QED BY <2>1, <2>2, <2>3 DEF Sound
<1>3. Sound(Screens.members)
  <2>1. PICK page : page = Screens.members
    BY SMTT(30)
  <2>2. \A c \in page.controls : SoundControl(page, c)
    <3>1. page.controls = Screens.members.controls /\ page.ends = Screens.members.ends
          /\ page.reads = Screens.members.reads
      BY <2>1
    <3> QED BY <3>1, ControlsAreSound, OfferedRows DEF Screens, Operations, MembersPage, MemberRows, InvitationRows, InviteDialog, ++
  <2>3. \A q \in DOMAIN page.reads : SoundRead(page, q)
    BY <2>1 DEF Screens, SoundRead, MembersPage
  <2> QED BY <2>1, <2>2, <2>3 DEF Sound
<1>4. Sound(Screens.invitation)
  <2>1. PICK page : page = Screens.invitation
    OBVIOUS
  <2>2. \A c \in page.controls : SoundControl(page, c)
    <3>1. page.controls = Screens.invitation.controls /\ page.ends = Screens.invitation.ends
          /\ page.reads = Screens.invitation.reads
      BY <2>1
    <3> QED BY <3>1, ControlsAreSound, OfferedRows DEF Screens, Operations, AcceptInvitation, InvitationAnswers
  <2>3. \A q \in DOMAIN page.reads : SoundRead(page, q)
    BY <2>1 DEF Screens, SoundRead, AcceptInvitation
  <2> QED BY <2>1, <2>2, <2>3 DEF Sound
<1>5. Sound(Screens.artifacts)
  <2>1. PICK page : page = Screens.artifacts
    OBVIOUS
  <2>2. \A c \in page.controls : SoundControl(page, c)
    <3>1. page.controls = Screens.artifacts.controls /\ page.ends = Screens.artifacts.ends
          /\ page.reads = Screens.artifacts.reads
      BY <2>1
    <3> QED BY <3>1, ControlsAreSound, OfferedRows DEF Screens, Operations, ArtifactsPage, ArtifactRows, NewArtifact
  <2>3. \A q \in DOMAIN page.reads : SoundRead(page, q)
    BY <2>1 DEF Screens, SoundRead, ArtifactsPage
  <2> QED BY <2>1, <2>2, <2>3 DEF Sound
<1>6. Sound(Screens.artifact)
  <2>1. PICK page : page = Screens.artifact
    OBVIOUS
  <2>2. \A c \in page.controls : SoundControl(page, c)
    <3>1. page.controls = Screens.artifact.controls /\ page.ends = Screens.artifact.ends
          /\ page.reads = Screens.artifact.reads
      BY <2>1
    <3>2. /\ page.ends = ArtifactDetail.ends ++ TagEnds
          /\ page.controls = ArtifactActions \cup VersionRows \cup ArtifactTagEditor
      BY SMTT(30), <3>1 DEF Screens
    <3>3. /\ page.ends["updateArtifact"] = "closes" /\ page.ends["createVersion"] = "closes"
          /\ page.ends["restoreVersion"] = "closes" /\ page.ends["deleteArtifact"] = "leaves"
      BY <3>2 DEF ArtifactDetail, TagEnds, ++
    <3>4. \A c \in ArtifactActions : SoundControl(page, c)
      BY <3>3, ControlsAreSound, OfferedRows DEF ArtifactActions, Operations
    <3>5. \A c \in VersionRows : SoundControl(page, c)
      BY <3>3, ControlsAreSound, OfferedRows DEF VersionRows, Operations
    <3>6. \A c \in ArtifactTagEditor : SoundControl(page, c)
      BY ControlsAreSound, OfferedRows DEF ArtifactTagEditor, TagEnds, Operations
    <3> QED BY <3>2, <3>4, <3>5, <3>6
  <2>3. \A q \in DOMAIN page.reads : SoundRead(page, q)
    BY <2>1 DEF Screens, SoundRead, ArtifactDetail
  <2> QED BY <2>1, <2>2, <2>3 DEF Sound
<1>7. Sound(Screens.packs)
  <2>1. PICK page : page = Screens.packs
    OBVIOUS
  <2>2. \A c \in page.controls : SoundControl(page, c)
    <3>1. page.controls = Screens.packs.controls /\ page.ends = Screens.packs.ends
          /\ page.reads = Screens.packs.reads
      BY <2>1
    <3> QED BY <3>1, ControlsAreSound, OfferedRows DEF Screens, Operations, PolicyPacksPage, PolicyPacksView
  <2>3. \A q \in DOMAIN page.reads : SoundRead(page, q)
    BY <2>1 DEF Screens, SoundRead, PolicyPacksPage
  <2> QED BY <2>1, <2>2, <2>3 DEF Sound
<1>8. Sound(Screens.pack)
  <2>1. PICK page : page = Screens.pack
    BY SMTT(30)
  <2>2. \A c \in page.controls : SoundControl(page, c)
    <3>1. page.controls = Screens.pack.controls /\ page.ends = Screens.pack.ends
          /\ page.reads = Screens.pack.reads
      BY <2>1
    <3> QED BY <3>1, ControlsAreSound, OfferedRows DEF Screens, Operations, PolicyPackDetail, PackActions, RuleRows, RuleBuilderForm, ++
  <2>3. \A q \in DOMAIN page.reads : SoundRead(page, q)
    BY <2>1 DEF Screens, SoundRead, PolicyPackDetail
  <2> QED BY <2>1, <2>2, <2>3 DEF Sound
<1>9. Sound(Screens.providers)
  <2>1. PICK page : page = Screens.providers
    OBVIOUS
  <2>2. \A c \in page.controls : SoundControl(page, c)
    <3>1. page.controls = Screens.providers.controls /\ page.ends = Screens.providers.ends
          /\ page.reads = Screens.providers.reads
      BY <2>1
    <3>2. page.controls \subseteq {c \in ConfigDialog \cup RoutingDialog : c.op \in ProviderOps}
      BY <3>1 DEF Screens, ProvidersPage
    <3>3. {c \in ConfigDialog \cup RoutingDialog : c.op \in ProviderOps}
            \subseteq {Dialog(op, "organization.update", {op}) : op \in ProviderOps}
      BY DEF ConfigDialog, RoutingDialog, Dialog
    <3>4. \A op \in ProviderOps : page.ends[op] = "closes"
      BY <3>1 DEF Screens, ProvidersPage
    <3>5. DOMAIN page.reads = ProviderReads
      BY <3>1 DEF Screens, ProvidersPage
    <3> QED BY <3>2, <3>3, <3>4, <3>5, ControlsAreSound, OfferedRows DEF Operations
  <2>3. \A q \in DOMAIN page.reads : SoundRead(page, q)
    BY <2>1 DEF Screens, SoundRead, ProvidersPage
  <2> QED BY <2>1, <2>2, <2>3 DEF Sound
<1>10. Sound(Screens.platform)
  <2>1. PICK page : page = Screens.platform
    OBVIOUS
  <2>2. \A c \in page.controls : SoundControl(page, c)
    <3>1. page.controls = Screens.platform.controls /\ page.ends = Screens.platform.ends
          /\ page.reads = Screens.platform.reads
      BY <2>1
    <3>2. page.controls \subseteq {c \in ConfigDialog \cup RoutingDialog : c.op \in PlatformOps}
      BY <3>1 DEF Screens, PlatformProvidersPage
    <3>3. {c \in ConfigDialog \cup RoutingDialog : c.op \in PlatformOps}
            \subseteq {Dialog(op, "none", {op}) : op \in PlatformOps}
      BY DEF ConfigDialog, RoutingDialog, Dialog
    <3>4. \A op \in PlatformOps : page.ends[op] = "closes"
      BY <3>1 DEF Screens, PlatformProvidersPage
    <3> QED BY <3>2, <3>3, <3>4, ControlsAreSound, OfferedRows DEF Operations
  <2>3. \A q \in DOMAIN page.reads : SoundRead(page, q)
    BY <2>1 DEF Screens, SoundRead, PlatformProvidersPage
  <2> QED BY <2>1, <2>2, <2>3 DEF Sound
<1>11. Sound(Screens.usage)
  <2>1. PICK page : page = Screens.usage
    OBVIOUS
  <2>2. \A c \in page.controls : SoundControl(page, c)
    <3>1. page.controls = Screens.usage.controls /\ page.ends = Screens.usage.ends
          /\ page.reads = Screens.usage.reads
      BY <2>1
    <3> QED BY <3>1, ControlsAreSound, OfferedRows DEF Screens, Operations, UsagePage, QuotaForm
  <2>3. \A q \in DOMAIN page.reads : SoundRead(page, q)
    BY <2>1 DEF Screens, SoundRead, UsagePage
  <2> QED BY <2>1, <2>2, <2>3 DEF Sound
<1>12. Sound(Screens.tasks)
  <2>1. PICK page : page = Screens.tasks
    OBVIOUS
  <2>2. \A c \in page.controls : SoundControl(page, c)
    <3>1. page.controls = Screens.tasks.controls /\ page.ends = Screens.tasks.ends
          /\ page.reads = Screens.tasks.reads
      BY <2>1
    <3> QED BY <3>1, ControlsAreSound, OfferedRows DEF Screens, Operations, TasksPage, TaskRows
  <2>3. \A q \in DOMAIN page.reads : SoundRead(page, q)
    BY <2>1 DEF Screens, SoundRead, TasksPage
  <2> QED BY <2>1, <2>2, <2>3 DEF Sound
<1>13. Sound(Screens.audit)
  <2>1. PICK page : page = Screens.audit
    OBVIOUS
  <2>2. \A c \in page.controls : SoundControl(page, c)
    <3>1. page.controls = Screens.audit.controls /\ page.ends = Screens.audit.ends
          /\ page.reads = Screens.audit.reads
      BY <2>1
    <3> QED BY <3>1, ControlsAreSound, OfferedRows DEF Screens, Operations, AuditPage
  <2>3. \A q \in DOMAIN page.reads : SoundRead(page, q)
    BY <2>1 DEF Screens, SoundRead, AuditPage
  <2> QED BY <2>1, <2>2, <2>3 DEF Sound
<1>14. Sound(Screens.security)
  <2>1. PICK page : page = Screens.security
    OBVIOUS
  <2>2. \A c \in page.controls : SoundControl(page, c)
    <3>1. page.controls = Screens.security.controls /\ page.ends = Screens.security.ends
          /\ page.reads = Screens.security.reads
      BY <2>1
    <3> QED BY <3>1, ControlsAreSound, OfferedRows DEF Screens, Operations, SecuritySettings, PasswordForm, SessionRows
  <2>3. \A q \in DOMAIN page.reads : SoundRead(page, q)
    BY <2>1 DEF Screens, SoundRead, SecuritySettings
  <2> QED BY <2>1, <2>2, <2>3 DEF Sound
<1>15. Sound(Screens.profile)
  <2>1. PICK page : page = Screens.profile
    OBVIOUS
  <2>2. \A c \in page.controls : SoundControl(page, c)
    <3>1. page.controls = Screens.profile.controls /\ page.ends = Screens.profile.ends
          /\ page.reads = Screens.profile.reads
      BY <2>1
    <3> QED BY <3>1, ControlsAreSound, OfferedRows DEF Screens, Operations, ProfileSettings, ProfileForm
  <2>3. \A q \in DOMAIN page.reads : SoundRead(page, q)
    BY <2>1 DEF Screens, SoundRead, ProfileSettings
  <2> QED BY <2>1, <2>2, <2>3 DEF Sound
<1>16. DOMAIN Screens =
        {"organizations", "organization", "members", "invitation", "artifacts", "artifact", "packs", "pack",
         "providers", "platform", "usage", "tasks", "audit", "security", "profile"}
  BY DEF Screens
<1> QED
  BY <1>1, <1>2, <1>3, <1>4, <1>5, <1>6, <1>7, <1>8, <1>9, <1>10, <1>11, <1>12, <1>13, <1>14, <1>15, <1>16

(* The queries that a screen follows *)
LEMMA ScenariosAreOfScreens ==
  ASSUME NEW s \in Scenarios
  PROVE  /\ s.screen \in DOMAIN Screens
         /\ s.ops \subseteq Operations
         /\ \/ s.query \in DOMAIN Screens[s.screen].reads
            \/ s.query \in OpenQueries
<1>0. PICK name \in DOMAIN Screens :
        \E ops \in Together(name) :
          s \in {[screen |-> name, ops |-> ops, query |-> q] :
                   q \in IF ops = {} THEN DOMAIN Screens[name].reads
                         ELSE UNION {Writes[op] : op \in ops} \cap ReadSomewhere}
  BY DEF Scenarios
<1>1. PICK ops \in Together(name) :
        s \in {[screen |-> name, ops |-> ops, query |-> q] :
                 q \in IF ops = {} THEN DOMAIN Screens[name].reads
                       ELSE UNION {Writes[op] : op \in ops} \cap ReadSomewhere}
  BY <1>0
<1>2. /\ s.screen = name /\ s.ops = ops
      /\ \/ ops = {} /\ s.query \in DOMAIN Screens[name].reads
         \/ ops # {} /\ \E op \in ops : s.query \in Writes[op]
  BY <1>1
<1>3. PICK page : page = Screens[name]
  OBVIOUS
<1>4. Sound(page) /\ (ops = {} \/ \E c \in page.controls : ops = c.busy)
  BY <1>3, ScreensAreSound DEF Together
<1>5. ops \subseteq Operations
  BY <1>4 DEF Sound, SoundControl
<1>6. CASE s.query \in DOMAIN page.reads
  BY <1>2, <1>3, <1>5, <1>6
<1>7. CASE \E op \in ops : s.query \in Writes[op]
  <2>1. PICK op \in ops : s.query \in Writes[op]
    BY <1>7
  <2>2. CASE op \in ProviderOps
    <3>1. Writes[op] \subseteq ProviderReads
      BY <2>2, WritesRows DEF ProviderOps, ProviderReads, ProviderWrites
    <3>2. ProviderReads \subseteq DOMAIN page.reads
      BY <1>4, <2>1, <2>2 DEF Sound, SoundControl
    <3> QED BY <1>2, <1>3, <1>5, <2>1, <3>1, <3>2
  <2>3. CASE op \notin ProviderOps
    BY <1>2, <1>5, <2>1, <2>3, WritesAreTold
  <2> QED BY <2>2, <2>3
<1> QED BY <1>2, <1>3, <1>6, <1>7

(* The page machine is an instance of its module: its tables are these.    *)
LEMMA SameTables ==
  /\ OnPage!Tells = Tells
  /\ OnPage!Writes = Writes
  /\ OnPage!Needs = Needs
  /\ OnPage!ReadNeeds = ReadNeeds
  /\ OnPage!Screens = Screens
  /\ OnPage!Roles = Roles
<1>1. ASSUME NEW f, NEW g PROVE OnPage!++(f, g) = f ++ g
  BY DEF OnPage!++, ++
<1>2. OnPage!Tells = Tells
  <2>1. /\ OnPage!OrganizationTells = OrganizationTells
        /\ OnPage!InvitationTells = InvitationTells
        /\ OnPage!AnswerTells = AnswerTells
        /\ OnPage!ArtifactTells = ArtifactTells
        /\ OnPage!PolicyTells = PolicyTells
        /\ OnPage!ProviderTells = ProviderTells
        /\ OnPage!UsageTells = UsageTells
        /\ OnPage!TaskTells = TaskTells
        /\ OnPage!AccountTells = AccountTells
    BY SMTT(30) DEF OnPage!OrganizationTells, OrganizationTells, OnPage!InvitationTells, InvitationTells,
      OnPage!AnswerTells, AnswerTells, OnPage!ArtifactTells, ArtifactTells, OnPage!PolicyTells,
      PolicyTells, OnPage!ProviderTells, ProviderTells, OnPage!UsageTells, UsageTells,
      OnPage!TaskTells, TaskTells, OnPage!AccountTells, AccountTells, OnPage!Retold, Retold,
      OnPage!Reversioned, Reversioned
  <2> QED BY <1>1, <2>1 DEF OnPage!Tells, Tells
<1>3. OnPage!Writes = Writes
  <2>1. /\ OnPage!OrganizationWrites = OrganizationWrites
        /\ OnPage!AnswerWrites = AnswerWrites
        /\ OnPage!ArtifactWrites = ArtifactWrites
        /\ OnPage!TagWrites = TagWrites
        /\ OnPage!PolicyWrites = PolicyWrites
        /\ OnPage!ProviderWrites = ProviderWrites
        /\ OnPage!UsageWrites = UsageWrites
        /\ OnPage!TaskWrites = TaskWrites
        /\ OnPage!AccountWrites = AccountWrites
    BY SMTT(30) DEF OnPage!OrganizationWrites, OrganizationWrites, OnPage!AnswerWrites, AnswerWrites,
      OnPage!ArtifactWrites, ArtifactWrites, OnPage!TagWrites, TagWrites, OnPage!PolicyWrites,
      PolicyWrites, OnPage!ProviderWrites, ProviderWrites, OnPage!UsageWrites, UsageWrites,
      OnPage!TaskWrites, TaskWrites, OnPage!AccountWrites, AccountWrites, OnPage!PolicyTells,
      PolicyTells, OnPage!++, ++
  <2> QED BY <1>1, <2>1 DEF OnPage!Writes, Writes
<1>4. OnPage!Needs = Needs
  <2>1. /\ OnPage!OrganizationNeeds = OrganizationNeeds
        /\ OnPage!InvitationNeeds = InvitationNeeds
        /\ OnPage!AnswerNeeds = AnswerNeeds
        /\ OnPage!ArtifactNeeds = ArtifactNeeds
        /\ OnPage!PolicyNeeds = PolicyNeeds
        /\ OnPage!ProviderNeeds = ProviderNeeds
        /\ OnPage!UsageNeeds = UsageNeeds
        /\ OnPage!TaskNeeds = TaskNeeds
        /\ OnPage!AccountNeeds = AccountNeeds
    BY DEF OnPage!OrganizationNeeds, OrganizationNeeds, OnPage!InvitationNeeds, InvitationNeeds,
      OnPage!AnswerNeeds, AnswerNeeds, OnPage!ArtifactNeeds, ArtifactNeeds, OnPage!PolicyNeeds,
      PolicyNeeds, OnPage!ProviderNeeds, ProviderNeeds, OnPage!UsageNeeds, UsageNeeds,
      OnPage!TaskNeeds, TaskNeeds, OnPage!AccountNeeds, AccountNeeds, OnPage!ArtifactTells,
      ArtifactTells, OnPage!PolicyTells, PolicyTells, OnPage!AccountTells, AccountTells,
      OnPage!++, ++
  <2> QED BY <1>1, <2>1 DEF OnPage!Needs, Needs
<1>5. OnPage!ReadNeeds = ReadNeeds
  BY SMTT(30), <1>1 DEF OnPage!ReadNeeds, ReadNeeds
<1>6. OnPage!Screens = Screens
  BY DEF OnPage!Screens, Screens, OnPage!Screen, Screen, OnPage!Control, Control, OnPage!Dialog,
    Dialog, OnPage!Always, Always, OnPage!All, All, OnPage!OrganizationsPage, OrganizationsPage,
    OnPage!OrganizationsView, OrganizationsView, OnPage!OrganizationDetail, OrganizationDetail,
    OnPage!OrganizationActions, OrganizationActions, OnPage!MembersPage, MembersPage,
    OnPage!MemberRows, MemberRows, OnPage!InvitationRows, InvitationRows, OnPage!InviteDialog,
    InviteDialog, OnPage!AcceptInvitation, AcceptInvitation, OnPage!InvitationAnswers,
    InvitationAnswers, OnPage!ArtifactsPage, ArtifactsPage, OnPage!ArtifactRows, ArtifactRows,
    OnPage!NewArtifact, NewArtifact, OnPage!ArtifactDetail, ArtifactDetail,
    OnPage!ArtifactActions, ArtifactActions, OnPage!VersionRows, VersionRows, OnPage!TagEnds,
    TagEnds, OnPage!ArtifactTagEditor, ArtifactTagEditor, OnPage!PolicyPacksPage,
    PolicyPacksPage, OnPage!PolicyPacksView, PolicyPacksView, OnPage!PolicyPackDetail,
    PolicyPackDetail, OnPage!PackActions, PackActions, OnPage!RuleRows, RuleRows,
    OnPage!RuleBuilderForm, RuleBuilderForm, OnPage!ProvidersPage, ProvidersPage,
    OnPage!PlatformProvidersPage, PlatformProvidersPage, OnPage!ConfigDialog, ConfigDialog,
    OnPage!RoutingDialog, RoutingDialog, OnPage!UsagePage, UsagePage, OnPage!QuotaForm,
    QuotaForm, OnPage!TasksPage, TasksPage, OnPage!TaskRows, TaskRows, OnPage!AuditPage,
    AuditPage, OnPage!SecuritySettings, SecuritySettings, OnPage!PasswordForm, PasswordForm,
    OnPage!SessionRows, SessionRows, OnPage!ProfileSettings, ProfileSettings,
    OnPage!ProfileForm, ProfileForm, OnPage!++, ++
<1>7. OnPage!Roles = Roles
  BY DEF OnPage!Roles, Roles
<1> QED BY SMTT(30), <1>2, <1>3, <1>4, <1>5, <1>6, <1>7

(* So are its rules. *)
LEMMA SameRules ==
  ASSUME NEW a, NEW b
  PROVE  /\ OnPage!can(a, b) <=> can(a, b)
         /\ OnPage!Permits(a, b) <=> Permits(a, b)
         /\ OnPage!Asks(a) = Asks(a)
         /\ OnPage!Told(a, b) <=> Told(a, b)
<1>1. OnPage!can(a, b) <=> can(a, b)
  BY DEF OnPage!can, can, OnPage!AdminPermissions, AdminPermissions, OnPage!MemberPermissions,
    MemberPermissions, OnPage!ViewerPermissions, ViewerPermissions
<1>2. OnPage!Permits(a, b) <=> Permits(a, b)
  BY DEF OnPage!Permits, Permits, OnPage!RoleHasPermission, RoleHasPermission, OnPage!Roles,
    Roles
<1>3. OnPage!Asks(a) = Asks(a)
  BY DEF OnPage!Asks, Asks
<1>4. OnPage!Told(a, b) <=> Told(a, b)
  BY DEF OnPage!Told, Told, OnPage!queryKeys, queryKeys, OnPage!IsPrefix, IsPrefix
<1> QED BY <1>1, <1>2, <1>3, <1>4

(* A control that is shown to a role *)
Gated(gate, role) == gate = "none" \/ OnPage!can(role, gate)

Holds(S) == {<<>>} \cup {<<v>> : v \in S}

(* What a query has on its way, and what a call is *)
Fetches(S) ==
  {f \in [step : {"idle", "asked", "answered", "refused", "failed"}, known : OnPage!Known, value : Holds(S)] :
     (f.step = "answered") <=> (f.value # <<>>)}

CallSteps == {"sent", "done", "refused", "over", "denied", "lost"}
PageCall(ops) ==
  [op : ops, step : CallSteps, known : OnPage!Known, visit : Nat, opening : Nat, wrote : Nat]

MemberRoles == OnPage!Roles \cup {"none"}
Valid(k) == IF k = "data" THEN 0..server.data ELSE MemberRoles
OnItsWay == {i \in 1..Len(calls) : calls[i].step = "sent"}

(* The screen and the database: every write of the user took a move. *)
ScreenShapes ==
  /\ scenario \in Scenarios
  /\ place \in {"screen", "elsewhere"} /\ visit \in Nat /\ moves \in 0..MaxMoves
  /\ visit <= moves + 1 /\ (visit = 0 => place = "elsewhere")
  /\ server \in [data : Nat, role : MemberRoles]
  /\ promised \in 0..server.data

(* No query is ahead of the database. *)
QueryShapes ==
  /\ cache = [k \in OnPage!Keys |-> cache[k]]
  /\ stale \in [OnPage!Keys -> BOOLEAN]
  /\ fetch = [k \in OnPage!Keys |-> fetch[k]]
  /\ \A k \in OnPage!Keys : cache[k] \in Holds(Valid(k)) /\ fetch[k] \in Fetches(Valid(k))

CallShapes ==
  /\ calls \in Seq(PageCall(scenario.ops))
  /\ \A i \in 1..Len(calls) :
       /\ calls[i].visit \in 1..visit /\ calls[i].wrote <= server.data
       /\ calls[i].wrote # 0 => scenario.query \in OnPage!Writes[calls[i].op]
       /\ calls[i].opening <= i

Budget == server.data + Cardinality(OnItsWay) <= moves

(* The open dialog is of a control of the screen, and has at most sent     *)
(* what has failed.                                                        *)
DialogInv ==
  dialog # <<>> =>
    /\ dialog = <<Head(dialog)>> /\ place = "screen"
    /\ Head(dialog).control \in OnPage!Here.controls
    /\ Head(dialog).control.dialog = TRUE
    /\ Head(dialog).control.op \in scenario.ops
    /\ Head(dialog).known \in OnPage!Known
    /\ Gated(Head(dialog).control.gate, Head(dialog).known)
    /\ Head(dialog).opening \in 1..(Len(calls) + 1)
    /\ \A i \in 1..Len(calls) :
         calls[i].opening = Head(dialog).opening =>
           /\ calls[i].op = Head(dialog).control.op
           /\ calls[i].visit = visit /\ calls[i].step # "over"

(* What is asked for was offered. *)
OfferInv ==
  /\ \A i \in 1..Len(calls) :
       calls[i].step = "sent" =>
         \E c \in OnPage!Here.controls : c.op = calls[i].op /\ Gated(c.gate, calls[i].known)
  /\ fetch.data.step = "asked" /\ scenario.query \in DOMAIN OnPage!Here.reads =>
       Gated(OnPage!Here.reads[scenario.query], fetch.data.known)

(* What is taken for current, and an answer on its way, have every write   *)
(* that the user is owed.                                                  *)
ToldScenario == \A op \in scenario.ops : <<op, scenario.query>> \notin OnPage!Untold
PromiseInv ==
  ToldScenario =>
    /\ cache.data # <<>> /\ ~stale.data => Head(cache.data) >= promised
    /\ fetch.data.step = "answered" => Head(fetch.data.value) >= promised

PageIInv ==
  /\ ScreenShapes /\ QueryShapes /\ CallShapes /\ Budget
  /\ DialogInv /\ OnPage!SentOnce /\ OfferInv /\ PromiseInv

(* What the tables of the screens guarantee *)
Granted(op, role) ==
  \/ \A part \in OnPage!Asks(op) : OnPage!Permits(role, OnPage!Needs[part])
  \/ OnPage!Unforeseen(op, role)
Readable(q, role) == OnPage!Permits(role, OnPage!ReadNeeds[q]) \/ OnPage!Unforeseen(q, role)

(* What the tables of the screens guarantee to the machine *)
LEMMA Tables ==
  ASSUME scenario \in Scenarios
  PROVE  /\ \A c \in OnPage!Here.controls :
              /\ c.dialog \in BOOLEAN
              /\ c.dialog => c.op \in c.busy /\ OnPage!Here.ends[c.op] # "stays"
              /\ \A role \in OnPage!Roles : Gated(c.gate, role) => Granted(c.op, role)
         /\ ToldScenario =>
              \A op \in scenario.ops :
                 scenario.query \in OnPage!Writes[op]
                   => OnPage!Told(OnPage!Tells[op], scenario.query)
         /\ \A role \in OnPage!Roles :
              /\ Readable("memberList", role)
              /\ scenario.query \notin DOMAIN OnPage!Here.reads => Readable(scenario.query, role)
              /\ scenario.query \in DOMAIN OnPage!Here.reads /\ Gated(OnPage!Here.reads[scenario.query], role)
                   => Readable(scenario.query, role)
<1>1. PICK page : page = Screens[scenario.screen]
  OBVIOUS
<1>2. /\ Sound(page) /\ scenario.ops \subseteq Operations
      /\ scenario.query \in DOMAIN page.reads \/ scenario.query \in OpenQueries
  BY SMTT(30), <1>1, ScreensAreSound, ScenariosAreOfScreens
<1>3. OnPage!Here = page
  BY <1>1, SameTables DEF OnPage!Here
<1>4. ASSUME NEW gate, NEW role PROVE Gated(gate, role) <=> Passes(role, gate)
  BY SameRules DEF Gated, Passes
<1>5. ASSUME NEW op, NEW role PROVE Granted(op, role) <=> MayDo(op, role)
  BY SameRules, SameTables DEF Granted, MayDo
<1>6. ASSUME NEW q, NEW role PROVE Readable(q, role) <=> MayRead(q, role)
  BY SameRules, SameTables DEF Readable, MayRead
<1>7. ASSUME NEW c \in page.controls
      PROVE  /\ c.dialog \in BOOLEAN
             /\ c.dialog => c.op \in c.busy /\ page.ends[c.op] # "stays"
             /\ \A role \in Roles : Gated(c.gate, role) => Granted(c.op, role)
  <2>1. SoundControl(page, c)
    BY <1>2 DEF Sound
  <2>2. \A role \in Roles : Passes(role, c.gate) => MayDo(c.op, role)
    BY <2>1, OfferedMayBeDone DEF SoundControl
  <2> QED BY <1>4, <1>5, <2>1, <2>2 DEF SoundControl
<1>8. ASSUME ToldScenario, NEW op \in scenario.ops, scenario.query \in Writes[op]
      PROVE  Told(Tells[op], scenario.query)
  BY <1>2, <1>8, WritesAreTold DEF ToldScenario, TellsWhatItWrites
<1>9. ASSUME NEW role \in Roles
      PROVE  /\ MayRead("memberList", role)
             /\ scenario.query \notin DOMAIN page.reads => MayRead(scenario.query, role)
             /\ scenario.query \in DOMAIN page.reads /\ Passes(role, page.reads[scenario.query])
                  => MayRead(scenario.query, role)
  <2>1. "memberList" \in OpenQueries
    BY DEF OpenQueries
  <2>2. ASSUME scenario.query \in DOMAIN page.reads, Passes(role, page.reads[scenario.query])
        PROVE  MayRead(scenario.query, role)
    <3>1. SoundRead(page, scenario.query)
      BY <1>2, <2>2 DEF Sound
    <3> QED BY <2>2, <3>1, OpenMayBeRead DEF SoundRead
  <2> QED BY <1>2, <2>1, <2>2, OpenMayBeRead
<1>10. /\ OnPage!Roles = Roles
       /\ \A op : OnPage!Writes[op] = Writes[op] /\ OnPage!Tells[op] = Tells[op]
       /\ \A op : OnPage!Told(Tells[op], scenario.query) <=> Told(Tells[op], scenario.query)
  BY SameTables, SameRules
<1>11. \A role \in Roles :
         /\ Readable("memberList", role)
         /\ scenario.query \notin DOMAIN page.reads => Readable(scenario.query, role)
         /\ scenario.query \in DOMAIN page.reads /\ Gated(page.reads[scenario.query], role)
              => Readable(scenario.query, role)
  BY <1>4, <1>6, <1>9
<1>12. ToldScenario =>
         \A op \in scenario.ops :
           scenario.query \in OnPage!Writes[op] => OnPage!Told(OnPage!Tells[op], scenario.query)
  BY <1>8, <1>10
<1> HIDE DEF ToldScenario, Readable, Granted, Gated
<1> QED BY SMTT(30), <1>3, <1>7, <1>10, <1>11, <1>12

(* Requests are made by what is enabled. *)
LEMMA RequestsMade ==
  ASSUME NEW p, NEW c, NEW o, NEW f, NEW k \in OnPage!Keys
  PROVE  \/ OnPage!Requests(p, c, o, f)[k] = f[k]
         \/ OnPage!Requests(p, c, o, f)[k] = OnPage!Ask(c) /\ OnPage!Enabled(k, p, c)
BY DEF OnPage!Requests

(* What is told is stale, and asked for again where it is shown. *)
LEMMA QueriesTold ==
  ASSUME NEW names, NEW k \in OnPage!Keys
  PROVE  /\ \/ OnPage!AfterTelling(names).fetch[k] = fetch[k]
            \/ /\ OnPage!AfterTelling(names).fetch[k] = OnPage!Ask(cache)
               /\ OnPage!Enabled(k, place, cache)
         /\ OnPage!AfterTelling(names).stale[k] = (stale[k] \/ OnPage!Told(names, OnPage!Query(k)))
         /\ OnPage!Told(names, OnPage!Query(k)) /\ OnPage!Enabled(k, place, cache) /\ cache[k] # <<>>
              => OnPage!AfterTelling(names).fetch[k] = OnPage!Ask(cache)
BY DEF OnPage!AfterTelling

(* Telling keeps the tables of queries what they are. *)
LEMMA TellingTables ==
  ASSUME NEW names
  PROVE  /\ OnPage!AfterTelling(names).fetch =
              [k \in OnPage!Keys |-> OnPage!AfterTelling(names).fetch[k]]
         /\ OnPage!AfterTelling(names).stale =
              [k \in OnPage!Keys |-> OnPage!AfterTelling(names).stale[k]]
BY DEF OnPage!AfterTelling

(* A query is sent by a screen whose gate its reader passes. *)
LEMMA EnabledIsGated ==
  ASSUME NEW p, NEW c, OnPage!Enabled("data", p, c), scenario.query \in DOMAIN OnPage!Here.reads
  PROVE  Gated(OnPage!Here.reads[scenario.query], OnPage!RoleIn(c))
BY DEF OnPage!Enabled, OnPage!Active, OnPage!Shown, Gated

(* What a step does to the request of a query *)
NewRequest(k) ==
  /\ fetch'[k] = OnPage!Ask(cache')
  /\ k = "data" /\ scenario.query \in DOMAIN OnPage!Here.reads
       => Gated(OnPage!Here.reads[scenario.query], OnPage!RoleIn(cache'))
EndedRequest(k) ==
  \E step \in {"idle", "failed"} : fetch'[k] = [step |-> step, known |-> "unknown", value |-> <<>>]
ServedRequest(k) ==
  /\ fetch[k].step = "asked"
  /\ \/ fetch'[k] = [fetch[k] EXCEPT !.step = "answered", !.value = <<server[k]>>]
     \/ /\ ~OnPage!Permits(server.role, OnPage!ReadNeeds[OnPage!Query(k)])
        /\ fetch'[k] = [fetch[k] EXCEPT !.step = "refused"]
RequestMoves(k) == fetch'[k] = fetch[k] \/ NewRequest(k) \/ EndedRequest(k) \/ ServedRequest(k)

(* What a step does to a cached answer *)
CacheMoves(k) ==
  \/ cache'[k] = cache[k] /\ (stale[k] => stale'[k])
  \/ /\ fetch[k].step = "answered" /\ cache'[k] = fetch[k].value
     /\ NewRequest(k) \/ EndedRequest(k)

(* What a step does to the queries of a screen *)
LEMMA QueryMoves ==
  ASSUME QueryShapes, OnPage!PageNext
  PROVE  /\ fetch' = [k \in OnPage!Keys |-> fetch'[k]]
         /\ cache' = [k \in OnPage!Keys |-> cache'[k]]
         /\ stale' \in [OnPage!Keys -> BOOLEAN]
         /\ \A k \in OnPage!Keys : RequestMoves(k) /\ CacheMoves(k)
<1> USE DEF RequestMoves, CacheMoves
<1>s. /\ fetch = [k \in OnPage!Keys |-> fetch[k]]
      /\ cache = [k \in OnPage!Keys |-> cache[k]]
      /\ stale \in [OnPage!Keys -> BOOLEAN]
  BY DEF QueryShapes
<1>0. CASE UNCHANGED <<cache, stale, fetch>>
  BY <1>0, <1>s
(* An action that leaves the cache asks for what is enabled. *)
<1>r. ASSUME NEW p, NEW f, f = [k \in OnPage!Keys |-> f[k]], UNCHANGED cache,
             fetch' = OnPage!Requests(p, cache, stale', f),
             \A k \in OnPage!Keys : f[k] = fetch[k] \/ f[k] = OnPage!Idle
      PROVE  /\ fetch' = [k \in OnPage!Keys |-> fetch'[k]]
             /\ \A k \in OnPage!Keys : RequestMoves(k)
  <2>1. fetch' = [k \in OnPage!Keys |-> fetch'[k]]
    BY <1>r DEF OnPage!Requests
  <2>2. ASSUME NEW k \in OnPage!Keys PROVE RequestMoves(k)
    <3>1. CASE fetch'[k] = f[k]
      BY <1>r, <3>1 DEF OnPage!Idle, EndedRequest
    <3>2. CASE fetch'[k] = OnPage!Ask(cache) /\ OnPage!Enabled(k, p, cache)
      <4>1. k = "data" /\ scenario.query \in DOMAIN OnPage!Here.reads
              => Gated(OnPage!Here.reads[scenario.query], OnPage!RoleIn(cache))
        BY <3>2, EnabledIsGated
      <4> QED BY <1>r, <3>2, <4>1 DEF NewRequest
    <3> QED BY <1>r, <3>1, <3>2, RequestsMade
  <2> QED BY <2>1, <2>2
<1>1. ASSUME NEW k \in OnPage!Keys, OnPage!ServeQuery(k)
      PROVE  /\ fetch' = [j \in OnPage!Keys |-> fetch'[j]] /\ UNCHANGED <<cache, stale>>
             /\ \A j \in OnPage!Keys : RequestMoves(j)
  <2>1. UNCHANGED <<cache, stale>> /\ fetch[k].step = "asked"
    BY <1>1 DEF OnPage!ServeQuery
  <2>2. PICK r : /\ fetch' = [fetch EXCEPT ![k] = r]
                 /\ \/ r = [fetch[k] EXCEPT !.step = "answered", !.value = <<server[k]>>]
                    \/ /\ ~OnPage!Permits(server.role, OnPage!ReadNeeds[OnPage!Query(k)])
                       /\ r = [fetch[k] EXCEPT !.step = "refused"]
    BY <1>1 DEF OnPage!ServeQuery
  <2>3. /\ fetch' = [j \in OnPage!Keys |-> fetch'[j]]
        /\ fetch'[k] = r /\ \A j \in OnPage!Keys : j # k => fetch'[j] = fetch[j]
    BY <1>s, <2>2
  <2> QED BY <2>1, <2>2, <2>3 DEF ServedRequest
<1>2. ASSUME NEW k \in OnPage!Keys, OnPage!TakeAnswer(k)
      PROVE  /\ fetch' = [j \in OnPage!Keys |-> fetch'[j]]
             /\ cache' = [j \in OnPage!Keys |-> cache'[j]]
             /\ stale' \in [OnPage!Keys -> BOOLEAN]
             /\ \A j \in OnPage!Keys : RequestMoves(j) /\ CacheMoves(j)
  <2>1. /\ fetch[k].step = "answered"
        /\ cache' = [cache EXCEPT ![k] = fetch[k].value]
        /\ stale' = [stale EXCEPT ![k] = FALSE]
    BY <1>2 DEF OnPage!TakeAnswer
  <2>2. PICK f : f = [fetch EXCEPT ![k] = OnPage!Idle] /\ fetch' = OnPage!Requests(place, cache', stale', f)
    BY <1>2 DEF OnPage!TakeAnswer
  <2>3. fetch' = [j \in OnPage!Keys |-> fetch'[j]]
    BY <2>2 DEF OnPage!Requests
  <2>4. ASSUME NEW j \in OnPage!Keys
        PROVE  IF j = k THEN NewRequest(k) \/ EndedRequest(k) ELSE NewRequest(j) \/ fetch'[j] = fetch[j]
    <3>1. f[j] = IF j = k THEN OnPage!Idle ELSE fetch[j]
      BY <1>s, <2>2
    <3>2. CASE fetch'[j] = f[j]
      BY <3>1, <3>2 DEF OnPage!Idle, EndedRequest
    <3>3. CASE fetch'[j] = OnPage!Ask(cache') /\ OnPage!Enabled(j, place, cache')
      <4>1. j = "data" /\ scenario.query \in DOMAIN OnPage!Here.reads
              => Gated(OnPage!Here.reads[scenario.query], OnPage!RoleIn(cache'))
        BY <3>3, EnabledIsGated
      <4> QED BY <3>3, <4>1 DEF NewRequest
    <3>4. \/ OnPage!Requests(place, cache', stale', f)[j] = f[j]
          \/ /\ OnPage!Requests(place, cache', stale', f)[j] = OnPage!Ask(cache')
             /\ OnPage!Enabled(j, place, cache')
      BY RequestsMade
    <3> QED BY <2>2, <3>2, <3>3, <3>4
  <2>5. \A j \in OnPage!Keys : cache'[j] = IF j = k THEN fetch[k].value ELSE cache[j]
    BY <1>s, <2>1
  <2>6. cache' = [j \in OnPage!Keys |-> cache'[j]] /\ stale' \in [OnPage!Keys -> BOOLEAN]
    BY <1>s, <2>1
  <2>7. \A j \in OnPage!Keys : j # k => stale'[j] = stale[j]
    BY <1>s, <2>1
  <2>8. ASSUME NEW j \in OnPage!Keys PROVE RequestMoves(j) /\ CacheMoves(j)
    BY <2>1, <2>4, <2>5, <2>7
  <2> QED BY <2>3, <2>6, <2>8
<1>3. ASSUME NEW k \in OnPage!Keys, OnPage!FailQuery(k)
      PROVE  /\ fetch' = [j \in OnPage!Keys |-> fetch'[j]] /\ UNCHANGED cache
             /\ stale' \in [OnPage!Keys -> BOOLEAN]
             /\ \A j \in OnPage!Keys : RequestMoves(j) /\ (stale[j] => stale'[j])
  <2>1. /\ UNCHANGED cache /\ stale' = [stale EXCEPT ![k] = TRUE]
        /\ fetch' = [fetch EXCEPT ![k] = [OnPage!Idle EXCEPT !.step = "failed"]]
    BY <1>3 DEF OnPage!FailQuery
  <2>2. [OnPage!Idle EXCEPT !.step = "failed"] = [step |-> "failed", known |-> "unknown", value |-> <<>>]
    BY DEF OnPage!Idle
  <2>3. /\ fetch' = [j \in OnPage!Keys |-> fetch'[j]] /\ EndedRequest(k)
        /\ \A j \in OnPage!Keys : j # k => fetch'[j] = fetch[j]
    BY <1>s, <2>1, <2>2 DEF EndedRequest
  <2> QED BY <1>s, <2>1, <2>3
<1>4. ASSUME NEW k \in OnPage!Keys, OnPage!AskAgain(k)
      PROVE  /\ fetch' = [j \in OnPage!Keys |-> fetch'[j]] /\ UNCHANGED <<cache, stale>>
             /\ \A j \in OnPage!Keys : RequestMoves(j)
  <2>1. /\ UNCHANGED <<cache, stale>> /\ fetch' = [fetch EXCEPT ![k] = OnPage!Ask(cache)]
        /\ OnPage!Enabled(k, place, cache)
    BY <1>4 DEF OnPage!AskAgain
  <2>2. NewRequest(k)
    BY <1>s, <2>1, EnabledIsGated DEF NewRequest
  <2> QED BY <1>s, <2>1, <2>2
<1>5. ASSUME OnPage!Come \/ OnPage!Go
      PROVE  /\ fetch' = [j \in OnPage!Keys |-> fetch'[j]] /\ UNCHANGED <<cache, stale>>
             /\ \A j \in OnPage!Keys : RequestMoves(j)
  <2>1. PICK f : f = [k \in OnPage!Keys |-> IF fetch[k].step = "failed" THEN OnPage!Idle ELSE fetch[k]]
    OBVIOUS
  <2>2. PICK p : fetch' = OnPage!Requests(p, cache, stale, f) /\ UNCHANGED <<cache, stale>>
    BY <1>5, <2>1 DEF OnPage!Come, OnPage!Go
  <2> QED BY <1>r, <2>1, <2>2
<1>6. ASSUME NEW i \in DOMAIN calls, OnPage!TakeDone(i)
      PROVE  /\ fetch' = [j \in OnPage!Keys |-> fetch'[j]] /\ UNCHANGED cache
             /\ stale' \in [OnPage!Keys -> BOOLEAN]
             /\ \A j \in OnPage!Keys : RequestMoves(j) /\ (stale[j] => stale'[j])
  <2>1. PICK names : /\ UNCHANGED cache /\ stale' = OnPage!AfterTelling(names).stale
                     /\ \/ fetch' = OnPage!AfterTelling(names).fetch
                        \/ fetch' = OnPage!Requests(place', cache, stale', OnPage!AfterTelling(names).fetch)
    BY <1>6 DEF OnPage!TakeDone
  <2>2. stale' \in [OnPage!Keys -> BOOLEAN] /\ \A j \in OnPage!Keys : stale[j] => stale'[j]
    BY <1>s, <2>1, QueriesTold, TellingTables
  <2>3. PICK f : f = OnPage!AfterTelling(names).fetch
    OBVIOUS
  <2>4. ASSUME NEW j \in OnPage!Keys PROVE fetch'[j] = f[j] \/ NewRequest(j)
    BY <2>1, <2>3, RequestsMade, EnabledIsGated DEF NewRequest
  <2>5. ASSUME NEW j \in OnPage!Keys
        PROVE  f[j] = fetch[j] \/ (f[j] = OnPage!Ask(cache) /\ OnPage!Enabled(j, place, cache))
    BY <2>3, QueriesTold
  <2>6. ASSUME NEW j \in OnPage!Keys PROVE RequestMoves(j)
    BY <2>1, <2>4, <2>5, EnabledIsGated DEF NewRequest
  <2>7. fetch' = [j \in OnPage!Keys |-> fetch'[j]]
    BY <2>1, TellingTables DEF OnPage!Requests
  <2> QED BY <2>1, <2>2, <2>6, <2>7
<1>7. \/ UNCHANGED <<cache, stale, fetch>>
      \/ \E k \in OnPage!Keys : OnPage!ServeQuery(k) \/ OnPage!TakeAnswer(k) \/ OnPage!FailQuery(k) \/ OnPage!AskAgain(k)
      \/ OnPage!Come \/ OnPage!Go
      \/ \E i \in DOMAIN calls : OnPage!TakeDone(i)
  BY DEF OnPage!PageNext, OnPage!Submit, OnPage!Cancel, OnPage!Press, OnPage!ServeCall, OnPage!TakeError,
         OnPage!WriteElsewhere, OnPage!ChangeRole
<1> HIDE DEF RequestMoves, CacheMoves
<1>8. ASSUME UNCHANGED cache, \A j \in OnPage!Keys : stale[j] => stale'[j]
      PROVE  cache' = [k \in OnPage!Keys |-> cache'[k]] /\ \A j \in OnPage!Keys : CacheMoves(j)
  BY <1>s, <1>8 DEF CacheMoves
<1> QED BY <1>0, <1>1, <1>2, <1>3, <1>4, <1>5, <1>6, <1>7, <1>8, <1>s

(* What a step does to the database and to what the user is owed *)
LEMMA ServerMoves ==
  ASSUME ScreenShapes, OnPage!PageNext
  PROVE  /\ scenario' = scenario
         /\ server' \in [data : Nat, role : MemberRoles]
         /\ server'.data \in {server.data, server.data + 1}
<1>s. server \in [data : Nat, role : MemberRoles]
  BY DEF ScreenShapes
<1>1. CASE UNCHANGED <<scenario, server>>
  BY <1>1, <1>s
<1>2. ASSUME NEW i \in DOMAIN calls, OnPage!ServeCall(i)
      PROVE  /\ scenario' = scenario /\ server' \in [data : Nat, role : MemberRoles]
             /\ server'.data \in {server.data, server.data + 1}
  <2>1. CASE server' = server
    BY <2>1, <1>2, <1>s DEF OnPage!ServeCall
  <2>2. CASE server' \in [data : {IF scenario.query \in OnPage!Writes[calls[i].op]
                                  THEN server.data + 1 ELSE server.data},
                          role : CASE calls[i].op = "updateMember" -> {server.role, "member"}
                                   [] calls[i].op = "removeMember" -> {server.role, "none"}
                                   [] OTHER -> {server.role}]
    <3>1. server.data \in Nat /\ server.role \in MemberRoles
      BY <1>s
    <3>2. "member" \in MemberRoles /\ "none" \in MemberRoles
      BY DEF MemberRoles, OnPage!Roles
    <3> QED BY <2>2, <3>1, <3>2, <1>2 DEF OnPage!ServeCall
  <2> QED BY <1>2, <2>1, <2>2 DEF OnPage!ServeCall
<1>3. CASE OnPage!WriteElsewhere
  BY <1>3, <1>s DEF OnPage!WriteElsewhere
<1>4. CASE OnPage!ChangeRole
  BY SMTT(30), <1>4, <1>s DEF OnPage!ChangeRole, MemberRoles
<1>5. UNCHANGED <<scenario, server>> \/ OnPage!WriteElsewhere \/ OnPage!ChangeRole
        \/ \E i \in DOMAIN calls : OnPage!ServeCall(i)
  BY DEF OnPage!PageNext, OnPage!Submit, OnPage!Cancel, OnPage!Press, OnPage!TakeDone, OnPage!TakeError,
         OnPage!ServeQuery, OnPage!TakeAnswer, OnPage!FailQuery, OnPage!AskAgain, OnPage!Come, OnPage!Go
<1> QED BY <1>1, <1>2, <1>3, <1>4, <1>5

(* A request is never ahead of the database. *)
LEMMA RequestFits ==
  ASSUME NEW S, NEW f \in Fetches(S)
  PROVE  /\ f = [step |-> f.step, known |-> f.known, value |-> f.value]
         /\ f.step \in {"idle", "asked", "answered", "refused", "failed"}
         /\ f.known \in OnPage!Known /\ f.value \in Holds(S)
         /\ (f.step = "answered") <=> (f.value # <<>>)
BY DEF Fetches

(* What fits stays fitting while the database grows. *)
LEMMA FitsRequest ==
  ASSUME NEW S, NEW f, NEW step \in {"idle", "asked", "answered", "refused", "failed"},
         NEW role \in OnPage!Known, NEW v \in Holds(S),
         f = [step |-> step, known |-> role, value |-> v], (step = "answered") <=> (v # <<>>)
  PROVE  f \in Fetches(S)
BY DEF Fetches

(* A cached role is known. *)
LEMMA RoleIsKnown ==
  ASSUME NEW c, c["role"] \in Holds(MemberRoles)
  PROVE  OnPage!RoleIn(c) \in OnPage!Known
<1>1. c["role"] = <<>> \/ \E v \in MemberRoles : c["role"] = <<v>>
  BY DEF Holds
<1>2. CASE c["role"] = <<>>
  BY <1>2 DEF OnPage!RoleIn, OnPage!Known
<1>3. ASSUME NEW v \in MemberRoles, c["role"] = <<v>> PROVE OnPage!RoleIn(c) \in OnPage!Known
  <2>1. Head(<<v>>) = v /\ <<v>> # <<>>
    OBVIOUS
  <2> QED BY <1>3, <2>1 DEF OnPage!RoleIn, OnPage!Known, MemberRoles
<1> QED BY <1>1, <1>2, <1>3

(* The queries keep their shapes. *)
LEMMA QueryShapesStep ==
  ASSUME ScreenShapes, QueryShapes, OnPage!PageNext
  PROVE  QueryShapes'
<1>1. /\ fetch' = [k \in OnPage!Keys |-> fetch'[k]]
      /\ cache' = [k \in OnPage!Keys |-> cache'[k]]
      /\ stale' \in [OnPage!Keys -> BOOLEAN]
      /\ \A k \in OnPage!Keys : RequestMoves(k) /\ CacheMoves(k)
  BY QueryMoves
<1>2. /\ server' \in [data : Nat, role : MemberRoles]
      /\ server'.data \in {server.data, server.data + 1}
  BY ServerMoves
<1>3. server \in [data : Nat, role : MemberRoles]
  BY DEF ScreenShapes
<1>4. \A k \in OnPage!Keys : cache[k] \in Holds(Valid(k)) /\ fetch[k] \in Fetches(Valid(k))
  BY DEF QueryShapes
<1>5. \A k \in OnPage!Keys : Valid(k) \subseteq Valid(k)'
  BY <1>2, <1>3 DEF Valid
<1>6. \A k \in OnPage!Keys : Holds(Valid(k)) \subseteq Holds(Valid(k)')
  BY <1>5 DEF Holds
<1>7. ASSUME NEW k \in OnPage!Keys PROVE cache'[k] \in Holds(Valid(k)')
  <2>1. cache'[k] = cache[k] \/ cache'[k] = fetch[k].value
    BY <1>1 DEF CacheMoves
  <2>2. fetch[k].value \in Holds(Valid(k))
    BY <1>4, RequestFits
  <2> QED BY <1>4, <1>6, <2>1, <2>2
<1>8. OnPage!RoleIn(cache') \in OnPage!Known
  BY <1>7, RoleIsKnown DEF OnPage!Keys, Valid
<1>9. ASSUME NEW k \in OnPage!Keys PROVE fetch'[k] \in Fetches(Valid(k)')
  <2>1. PICK f, S, T : f = fetch[k] /\ S = Valid(k) /\ T = Valid(k)'
    OBVIOUS
  <2>2. f \in Fetches(S) /\ Holds(S) \subseteq Holds(T)
    BY <1>4, <1>6, <2>1
  <2>3. <<>> \in Holds(T) /\ "unknown" \in OnPage!Known
    BY DEF Holds, OnPage!Known
  <2>4. CASE fetch'[k] = fetch[k]
    BY <2>1, <2>2, <2>4, RequestFits, FitsRequest
  <2>5. CASE NewRequest(k)
    BY <2>1, <2>3, <2>5, <1>8, FitsRequest DEF NewRequest, OnPage!Ask
  <2>6. CASE EndedRequest(k)
    BY <2>1, <2>3, <2>6, FitsRequest DEF EndedRequest
  <2>7. CASE ServedRequest(k)
    <3>1. /\ f = [step |-> "asked", known |-> f.known, value |-> <<>>]
          /\ f.known \in OnPage!Known
      BY <2>1, <2>2, <2>7, RequestFits DEF ServedRequest
    <3>2. <<server[k]>> \in Holds(T) /\ <<server[k]>> # <<>>
      <4>1. server[k] \in Valid(k)
        BY <1>3 DEF Valid, OnPage!Keys
      <4> QED BY <1>5, <2>1, <4>1 DEF Holds
    <3>3. CASE fetch'[k] = [fetch[k] EXCEPT !.step = "answered", !.value = <<server[k]>>]
      <4>1. PICK v : v = <<server[k]>>
        OBVIOUS
      <4>2. fetch'[k] = [step |-> "answered", known |-> f.known, value |-> v]
        <5>1. fetch'[k] = [f EXCEPT !.step = "answered", !.value = v]
          BY <2>1, <3>3, <4>1
        <5>2. PICK r : r = f.known
          OBVIOUS
        <5>3. [[step |-> "asked", known |-> r, value |-> <<>>] EXCEPT !.step = "answered", !.value = v]
                = [step |-> "answered", known |-> r, value |-> v]
          <6> DEFINE s == [[step |-> "asked", known |-> r, value |-> <<>>] EXCEPT !.step = "answered"]
          <6>1. s = [step |-> "answered", known |-> r, value |-> <<>>]
            OBVIOUS
          <6>2. [[step |-> "asked", known |-> r, value |-> <<>>] EXCEPT !.step = "answered", !.value = v]
                  = [s EXCEPT !.value = v]
            OBVIOUS
          <6> HIDE DEF s
          <6> QED BY <6>1, <6>2
        <5> QED BY <3>1, <5>1, <5>2, <5>3
      <4> QED BY <2>1, <3>1, <3>2, <4>1, <4>2, FitsRequest
    <3>4. CASE fetch'[k] = [fetch[k] EXCEPT !.step = "refused"]
      <4>1. PICK r : r = f.known
        OBVIOUS
      <4>2. [[step |-> "asked", known |-> r, value |-> <<>>] EXCEPT !.step = "refused"]
              = [step |-> "refused", known |-> r, value |-> <<>>]
        OBVIOUS
      <4>3. fetch'[k] = [step |-> "refused", known |-> r, value |-> <<>>]
        BY <2>1, <3>1, <3>4, <4>1, <4>2
      <4> QED BY <2>1, <2>3, <3>1, <4>1, <4>3, FitsRequest
    <3> QED BY <2>7, <3>3, <3>4 DEF ServedRequest
  <2> QED BY <1>1, <2>4, <2>5, <2>6, <2>7 DEF RequestMoves
<1> QED BY <1>1, <1>7, <1>9 DEF QueryShapes

(* What is current keeps having every write of the user. *)
LEMMA PromiseStep ==
  ASSUME ScreenShapes, QueryShapes, CallShapes, PromiseInv, OnPage!PageNext
  PROVE  PromiseInv' /\ promised' \in 0..server'.data
<1>1. /\ scenario' = scenario /\ ToldScenario' = ToldScenario
      /\ server.data \in Nat /\ server'.data \in {server.data, server.data + 1}
      /\ promised \in 0..server.data
  BY ServerMoves DEF ScreenShapes, ToldScenario
<1>2. RequestMoves("data") /\ CacheMoves("data")
  BY QueryMoves DEF OnPage!Keys
<1>3. /\ cache["data"] \in Holds(0..server.data)
      /\ fetch["data"] \in Fetches(0..server.data)
  BY DEF QueryShapes, OnPage!Keys, Valid
<1>4. ASSUME ToldScenario, fetch'["data"].step = "answered"
      PROVE  Head(fetch'["data"].value) >= promised
  <2>1. CASE fetch'["data"] = fetch["data"]
    BY <1>4, <2>1 DEF PromiseInv
  <2>2. CASE NewRequest("data")
    BY <1>4, <2>2 DEF NewRequest, OnPage!Ask
  <2>3. CASE EndedRequest("data")
    BY <1>4, <2>3 DEF EndedRequest
  <2>4. CASE ServedRequest("data")
    <3>1. fetch["data"] = [step |-> fetch["data"].step, known |-> fetch["data"].known, value |-> fetch["data"].value]
      BY <1>3, RequestFits
    <3>2. CASE fetch'["data"] = [fetch["data"] EXCEPT !.step = "answered", !.value = <<server["data"]>>]
      <4>1. PICK f, v : f = fetch["data"] /\ v = <<server["data"]>>
        OBVIOUS
      <4>2. f = [step |-> f.step, known |-> f.known, value |-> f.value]
        BY <3>1, <4>1
      <4>3. PICK g : g = [f EXCEPT !.step = "answered"]
        OBVIOUS
      <4>4. fetch'["data"] = [g EXCEPT !.value = v]
        <5>1. [f EXCEPT !.step = "answered", !.value = v] = [[f EXCEPT !.step = "answered"] EXCEPT !.value = v]
          OBVIOUS
        <5> QED BY <3>2, <4>1, <4>3, <5>1
      <4>5. fetch'["data"].value = v
        BY <4>2, <4>3, <4>4
      <4>6. Head(v) = server.data
        BY <4>1
      <4> QED BY <1>1, <4>5, <4>6
    <3>3. CASE fetch'["data"] = [fetch["data"] EXCEPT !.step = "refused"]
      BY <1>4, <3>1, <3>3
    <3> QED BY <2>4, <3>2, <3>3 DEF ServedRequest
  <2> QED BY <1>2, <2>1, <2>2, <2>3, <2>4 DEF RequestMoves
<1>5. ASSUME ToldScenario, cache'["data"] # <<>>, ~stale'["data"]
      PROVE  Head(cache'["data"]) >= promised
  <2>1. CASE cache'["data"] = cache["data"] /\ (stale["data"] => stale'["data"])
    BY <1>5, <2>1 DEF PromiseInv
  <2>2. CASE fetch["data"].step = "answered" /\ cache'["data"] = fetch["data"].value
    BY <1>5, <2>2 DEF PromiseInv
  <2> QED BY <1>2, <2>1, <2>2 DEF CacheMoves
<1>6. CASE promised' = promised
  <2>1. promised \in 0..server'.data
    BY <1>1
  <2> QED BY <1>1, <1>4, <1>5, <1>6, <2>1 DEF PromiseInv
<1>7. ASSUME promised' # promised PROVE PromiseInv' /\ promised' \in 0..server'.data
  <2>1. PICK i \in DOMAIN calls : OnPage!TakeDone(i)
    BY <1>7 DEF OnPage!PageNext, OnPage!Submit, OnPage!Cancel, OnPage!Press, OnPage!TakeError,
         OnPage!ServeQuery, OnPage!TakeAnswer, OnPage!FailQuery, OnPage!AskAgain, OnPage!Come, OnPage!Go,
         OnPage!ServeCall, OnPage!WriteElsewhere, OnPage!ChangeRole
  <2>2. /\ promised' = calls[i].wrote /\ calls[i].wrote > promised
        /\ cache.data # <<>>
        /\ OnPage!Enabled("data", place, cache) \/ fetch.data.step \notin {"asked", "answered"}
        /\ UNCHANGED <<server, cache>>
    BY <1>7, <2>1 DEF OnPage!TakeDone
  <2>3. PICK f, op, names : /\ op = calls[i].op /\ names = OnPage!Tells[op]
                            /\ f = OnPage!AfterTelling(names).fetch
                            /\ stale' = OnPage!AfterTelling(names).stale
                            /\ fetch' = f \/ fetch' = OnPage!Requests(place', cache, stale', f)
    BY <2>1 DEF OnPage!TakeDone
  <2>4. /\ i \in 1..Len(calls) /\ calls[i] \in PageCall(scenario.ops)
        /\ calls[i].wrote <= server.data
        /\ calls[i].wrote # 0 => scenario.query \in OnPage!Writes[calls[i].op]
    BY ElementOfSeq DEF CallShapes
  <2>5. calls[i].wrote \in Nat /\ calls[i].op \in scenario.ops
    BY <2>4 DEF PageCall
  <2>6. promised' \in 0..server'.data
    BY <1>1, <2>2, <2>4, <2>5
  <2>7. ASSUME ToldScenario PROVE stale'["data"] /\ fetch'["data"].step # "answered"
    <3>1. scenario.query \in OnPage!Writes[op]
      BY <1>1, <2>2, <2>3, <2>4, <2>5
    <3>2. OnPage!Told(names, scenario.query)
      BY <2>3, <2>5, <2>7, <3>1, Tables DEF ScreenShapes
    <3>3. OnPage!Told(names, OnPage!Query("data"))
      BY <3>2 DEF OnPage!Query
    <3>4. stale'["data"]
      BY <2>3, <3>3, QueriesTold DEF OnPage!Keys
    <3>5. /\ f["data"] = fetch["data"] \/ f["data"] = OnPage!Ask(cache)
          /\ OnPage!Enabled("data", place, cache) => f["data"] = OnPage!Ask(cache)
      BY <2>2, <2>3, <3>3, QueriesTold DEF OnPage!Keys
    <3>6. f["data"].step # "answered"
      BY <2>2, <3>5 DEF OnPage!Ask
    <3>7. fetch'["data"] = f["data"] \/ fetch'["data"] = OnPage!Ask(cache)
      BY <2>3, RequestsMade DEF OnPage!Keys
    <3> QED BY <3>4, <3>6, <3>7 DEF OnPage!Ask
  <2> QED BY SMTT(30), <1>1, <2>6, <2>7 DEF PromiseInv
<1> QED BY <1>6, <1>7

(* The screen and the database keep their shapes. *)
LEMMA ScreenShapesStep ==
  ASSUME ScreenShapes, QueryShapes, CallShapes, PromiseInv, OnPage!PageNext
  PROVE  ScreenShapes'
<1>1. /\ scenario' = scenario /\ server' \in [data : Nat, role : MemberRoles]
      /\ promised' \in 0..server'.data
  BY ServerMoves, PromiseStep
<1>2. /\ place \in {"screen", "elsewhere"} /\ visit \in Nat /\ moves \in 0..MaxMoves /\ MaxMoves \in Nat
      /\ visit <= moves + 1 /\ (visit = 0 => place = "elsewhere")
  BY BoundsAssumption DEF ScreenShapes
<1>3. MemberRoles' = MemberRoles
  BY DEF MemberRoles
<1> DEFINE Fine == /\ place' \in {"screen", "elsewhere"} /\ visit' \in Nat /\ moves' \in 0..MaxMoves
                   /\ visit' <= moves' + 1 /\ (visit' = 0 => place' = "elsewhere")
<1>4. Fine
  <2>1. CASE UNCHANGED <<place, visit, moves>>
    BY <1>2, <2>1
  <2>2. CASE UNCHANGED <<place, visit>> /\ OnPage!Move
    BY <1>2, <2>2 DEF OnPage!Move
  <2>3. CASE OnPage!Come
    BY <1>2, <2>3 DEF OnPage!Come, OnPage!Move
  <2>4. CASE place' = "elsewhere" /\ UNCHANGED <<visit, moves>>
    BY SMTT(30), <1>2, <2>4
  <2>5. \/ UNCHANGED <<place, visit, moves>> \/ (UNCHANGED <<place, visit>> /\ OnPage!Move)
        \/ OnPage!Come \/ (place' = "elsewhere" /\ UNCHANGED <<visit, moves>>)
    BY DEF OnPage!PageNext, OnPage!Submit, OnPage!Cancel, OnPage!Press, OnPage!TakeError, OnPage!Send,
         OnPage!ServeQuery, OnPage!TakeAnswer, OnPage!FailQuery, OnPage!AskAgain, OnPage!Go, OnPage!TakeDone,
         OnPage!ServeCall, OnPage!WriteElsewhere, OnPage!ChangeRole
  <2> QED BY <2>1, <2>2, <2>3, <2>4, <2>5
<1> QED BY <1>1, <1>3, <1>4 DEF ScreenShapes

(* A call takes a step, or notes what it wrote. *)
LEMMA CallStepped ==
  ASSUME NEW ops, NEW s \in Seq(PageCall(ops)), NEW i \in 1..Len(s), NEW step \in CallSteps
  PROVE  LET t == [s EXCEPT ![i].step = step]
         IN /\ t \in Seq(PageCall(ops)) /\ Len(t) = Len(s)
            /\ \A j \in 1..Len(s) : /\ t[j].op = s[j].op /\ t[j].known = s[j].known
                                    /\ t[j].visit = s[j].visit /\ t[j].opening = s[j].opening
                                    /\ t[j].wrote = s[j].wrote
                                    /\ t[j].step = IF j = i THEN step ELSE s[j].step
<1>1. s[i] \in PageCall(ops)
  BY ElementOfSeq
<1> DEFINE x == [s[i] EXCEPT !.step = step]
           t == [s EXCEPT ![i].step = step]
<1>2. /\ x \in PageCall(ops) /\ x.op = s[i].op /\ x.known = s[i].known /\ x.visit = s[i].visit
      /\ x.opening = s[i].opening /\ x.wrote = s[i].wrote /\ x.step = step
  BY <1>1 DEF PageCall
<1>3. t = [s EXCEPT ![i] = x]
  OBVIOUS
<1> HIDE DEF x, t
<1>4. t \in Seq(PageCall(ops)) /\ Len(t) = Len(s) /\ t[i] = x /\ \A j \in 1..Len(s) : j # i => t[j] = s[j]
  BY <1>2, <1>3, ExceptSeq
<1> QED BY <1>2, <1>4 DEF t

(* A call that has written stays a call. *)
LEMMA CallWrote ==
  ASSUME NEW ops, NEW s \in Seq(PageCall(ops)), NEW i \in 1..Len(s), NEW n \in Nat
  PROVE  LET t == [s EXCEPT ![i].wrote = n]
         IN /\ t \in Seq(PageCall(ops)) /\ Len(t) = Len(s)
            /\ \A j \in 1..Len(s) : /\ t[j].op = s[j].op /\ t[j].known = s[j].known
                                    /\ t[j].visit = s[j].visit /\ t[j].opening = s[j].opening
                                    /\ t[j].step = s[j].step
                                    /\ t[j].wrote = IF j = i THEN n ELSE s[j].wrote
<1>1. s[i] \in PageCall(ops)
  BY ElementOfSeq
<1> DEFINE x == [s[i] EXCEPT !.wrote = n]
           t == [s EXCEPT ![i].wrote = n]
<1>2. /\ x \in PageCall(ops) /\ x.op = s[i].op /\ x.known = s[i].known /\ x.visit = s[i].visit
      /\ x.opening = s[i].opening /\ x.step = s[i].step /\ x.wrote = n
  BY <1>1 DEF PageCall
<1>3. t = [s EXCEPT ![i] = x]
  OBVIOUS
<1> HIDE DEF x, t
<1>4. t \in Seq(PageCall(ops)) /\ Len(t) = Len(s) /\ t[i] = x /\ \A j \in 1..Len(s) : j # i => t[j] = s[j]
  BY <1>2, <1>3, ExceptSeq
<1> QED BY <1>2, <1>4 DEF t

(* A call is sent, by a control that is shown or by the open dialog *)
SentCall(r) ==
  /\ r \in PageCall(scenario.ops)
  /\ r.step = "sent" /\ r.visit = visit /\ r.wrote = 0
  /\ calls' = Append(calls, r)
  /\ moves' = moves + 1 /\ visit >= 1
  /\ UNCHANGED <<server, place, visit, dialog>>
  /\ \/ /\ r.opening = 0
        /\ \E c \in OnPage!Here.controls : c.op = r.op /\ Gated(c.gate, r.known)
     \/ /\ dialog # <<>>
        /\ r.op = Head(dialog).control.op /\ r.known = Head(dialog).known
        /\ r.opening = Head(dialog).opening
        /\ ~OnPage!Pending(Head(dialog).control.busy)

(* A call is served, or answered *)
SameCalls ==
  /\ calls' \in Seq(PageCall(scenario.ops)) /\ Len(calls') = Len(calls)
  /\ \A j \in 1..Len(calls) : /\ calls'[j].op = calls[j].op /\ calls'[j].known = calls[j].known
                              /\ calls'[j].visit = calls[j].visit /\ calls'[j].opening = calls[j].opening
CallTaken(i) ==
  /\ SameCalls
  /\ calls[i].step \in {"sent", "done", "refused"} /\ calls'[i].step # "sent"
  /\ calls'[i].wrote <= server'.data
  /\ calls'[i].wrote # 0 => scenario.query \in OnPage!Writes[calls[i].op]
  /\ \A j \in 1..Len(calls) :
       j # i => calls'[j].step = calls[j].step /\ calls'[j].wrote = calls[j].wrote
  /\ calls[i].step # "sent" => server' = server
  /\ calls'[i].step = "over" => OnPage!TakeDone(i)
  /\ calls'[i].step = "refused" =>
       \E part \in OnPage!Asks(calls[i].op) : ~OnPage!Permits(server.role, OnPage!Needs[part])
  /\ UNCHANGED <<visit, moves>>
  /\ dialog' # <<>> => dialog' = dialog /\ place' = place

(* A new sequence of calls is one of calls. *)
LEMMA CallsAreCalls ==
  ASSUME CallShapes
  PROVE  /\ calls \in Seq(PageCall(scenario.ops)) /\ Len(calls) \in Nat /\ DOMAIN calls = 1..Len(calls)
         /\ \A i \in 1..Len(calls) :
              /\ calls[i] \in PageCall(scenario.ops)
              /\ calls[i].visit \in 1..visit /\ calls[i].wrote <= server.data
              /\ calls[i].wrote # 0 => scenario.query \in OnPage!Writes[calls[i].op]
              /\ calls[i].wrote \in Nat /\ calls[i].opening \in Nat /\ calls[i].opening <= i
<1>1. calls \in Seq(PageCall(scenario.ops))
  BY DEF CallShapes
<1>2. Len(calls) \in Nat /\ DOMAIN calls = 1..Len(calls)
  BY <1>1
<1>3. \A i \in 1..Len(calls) : calls[i] \in PageCall(scenario.ops)
  BY <1>1, ElementOfSeq
<1>4. \A i \in 1..Len(calls) : calls[i].wrote \in Nat /\ calls[i].opening \in Nat
  BY <1>3 DEF PageCall
<1> QED BY <1>1, <1>2, <1>3, <1>4 DEF CallShapes

(* Others write, or no call and no write is counted. *)
OtherMove ==
  \/ server'.data = server.data /\ moves' \in {moves, moves + 1}
  \/ server'.data = server.data + 1 /\ moves' = moves + 1

(* What a step does to the calls, one by one *)
LEMMA CallMoves ==
  ASSUME ScreenShapes, QueryShapes, CallShapes, DialogInv, OnPage!PageNext
  PROVE  \/ UNCHANGED calls /\ OtherMove
         \/ \E r : SentCall(r)
         \/ \E i \in 1..Len(calls) : CallTaken(i)
<1>s. /\ calls \in Seq(PageCall(scenario.ops)) /\ Len(calls) \in Nat /\ DOMAIN calls = 1..Len(calls)
      /\ \A i \in 1..Len(calls) :
           /\ calls[i].visit \in 1..visit /\ calls[i].wrote <= server.data
           /\ calls[i].wrote # 0 => scenario.query \in OnPage!Writes[calls[i].op]
           /\ calls[i].wrote \in Nat
  BY CallsAreCalls
<1>v. /\ server.data \in Nat /\ server'.data \in {server.data, server.data + 1}
      /\ visit \in Nat /\ (visit = 0 => place = "elsewhere")
  BY ServerMoves DEF ScreenShapes
<1>1. ASSUME NEW c \in OnPage!Here.controls, OnPage!Press(c)
      PROVE  (UNCHANGED calls /\ OtherMove) \/ \E r : SentCall(r)
  <2>1. CASE c.dialog
    BY <1>1, <2>1 DEF OnPage!Press, OtherMove
  <2>2. CASE ~c.dialog
    <3>1. PICK r : r = [op |-> c.op, step |-> "sent", known |-> OnPage!RoleIn(cache), visit |-> visit,
                        opening |-> 0, wrote |-> 0]
      OBVIOUS
    <3>2. /\ calls' = Append(calls, r) /\ moves' = moves + 1
          /\ UNCHANGED <<server, place, visit, dialog>>
          /\ place = "screen" /\ c.op \in scenario.ops /\ OnPage!Shown(c.gate, cache)
      BY <1>1, <2>2, <3>1 DEF OnPage!Press, OnPage!Send, OnPage!Move, OnPage!Usable
    <3>3. OnPage!RoleIn(cache) \in OnPage!Known
      BY RoleIsKnown DEF QueryShapes, OnPage!Keys, Valid
    <3>4. r \in PageCall(scenario.ops)
      BY <1>v, <3>1, <3>2, <3>3 DEF PageCall, CallSteps
    <3>5. Gated(c.gate, r.known) /\ c.op = r.op
      BY <3>1, <3>2 DEF Gated, OnPage!Shown
    <3> QED BY <1>v, <3>1, <3>2, <3>4, <3>5 DEF SentCall
  <2> QED BY <2>1, <2>2
<1>2. ASSUME OnPage!Submit PROVE \E r : SentCall(r)
  <2>1. PICK d : d = Head(dialog)
    OBVIOUS
  <2>2. PICK r : r = [op |-> d.control.op, step |-> "sent", known |-> d.known, visit |-> visit,
                      opening |-> d.opening, wrote |-> 0]
    OBVIOUS
  <2>3. /\ calls' = Append(calls, r) /\ moves' = moves + 1 /\ dialog # <<>>
        /\ UNCHANGED <<server, place, visit, dialog>> /\ ~OnPage!Pending(d.control.busy)
    BY <1>2, <2>1, <2>2 DEF OnPage!Submit, OnPage!Send, OnPage!Move
  <2>4. /\ place = "screen" /\ d.control.op \in scenario.ops /\ d.known \in OnPage!Known
        /\ d.opening \in Nat
    BY <1>s, <2>1, <2>3 DEF DialogInv
  <2>5. r \in PageCall(scenario.ops)
    BY <1>v, <2>2, <2>4 DEF PageCall, CallSteps
  <2> QED BY <1>v, <2>1, <2>2, <2>3, <2>4, <2>5 DEF SentCall
<1>3. ASSUME NEW i \in 1..Len(calls), OnPage!ServeCall(i) PROVE CallTaken(i)
  <2>1. /\ calls[i].step = "sent" /\ UNCHANGED <<scenario, visit, place, moves, dialog>>
    BY <1>3 DEF OnPage!ServeCall
  <2>2. CASE \E part \in OnPage!Asks(calls[i].op) : ~OnPage!Permits(server.role, OnPage!Needs[part])
    <3>1. "refused" \in CallSteps
      BY DEF CallSteps
    <3>2. calls' = [calls EXCEPT ![i].step = "refused"]
      BY <1>3, <2>2 DEF OnPage!ServeCall
    <3>3. SameCalls /\ \A j \in 1..Len(calls) : /\ calls'[j].wrote = calls[j].wrote
                        /\ calls'[j].step = IF j = i THEN "refused" ELSE calls[j].step
      BY <1>s, <3>1, <3>2, CallStepped DEF SameCalls
    <3> QED BY <1>s, <1>v, <2>1, <2>2, <3>3 DEF CallTaken
  <2>3. ASSUME NEW n \in Nat, calls' = [calls EXCEPT ![i].step = "done", ![i].wrote = n],
               n <= server'.data, n # 0 => scenario.query \in OnPage!Writes[calls[i].op]
        PROVE  CallTaken(i)
    <3>1. "done" \in CallSteps
      BY DEF CallSteps
    <3>2. PICK t : t = [calls EXCEPT ![i].step = "done"]
      OBVIOUS
    <3>3. calls' = [t EXCEPT ![i].wrote = n]
      <4>1. [calls EXCEPT ![i].step = "done", ![i].wrote = n]
              = [[calls EXCEPT ![i].step = "done"] EXCEPT ![i].wrote = n]
        OBVIOUS
      <4> QED BY <2>3, <3>2, <4>1
    <3>4. /\ t \in Seq(PageCall(scenario.ops)) /\ Len(t) = Len(calls)
          /\ \A j \in 1..Len(calls) : /\ t[j].op = calls[j].op /\ t[j].known = calls[j].known
                                      /\ t[j].visit = calls[j].visit /\ t[j].opening = calls[j].opening
                                      /\ t[j].wrote = calls[j].wrote
                                      /\ t[j].step = IF j = i THEN "done" ELSE calls[j].step
      BY <1>s, <3>1, <3>2, CallStepped
    <3>5. /\ calls' \in Seq(PageCall(scenario.ops)) /\ Len(calls') = Len(t)
          /\ \A j \in 1..Len(t) : /\ calls'[j].op = t[j].op /\ calls'[j].known = t[j].known
                                  /\ calls'[j].visit = t[j].visit /\ calls'[j].opening = t[j].opening
                                  /\ calls'[j].step = t[j].step
                                  /\ calls'[j].wrote = IF j = i THEN n ELSE t[j].wrote
      BY <3>3, <3>4, CallWrote
    <3>6. SameCalls /\ \A j \in 1..Len(calls) :
                          /\ calls'[j].step = IF j = i THEN "done" ELSE calls[j].step
                          /\ calls'[j].wrote = IF j = i THEN n ELSE calls[j].wrote
      BY <3>4, <3>5 DEF SameCalls
    <3> QED BY <2>1, <2>3, <3>6 DEF CallTaken
  <2>4. PICK n : n = IF scenario.query \in OnPage!Writes[calls[i].op] THEN server.data + 1 ELSE 0
    OBVIOUS
  <2>5. CASE \A part \in OnPage!Asks(calls[i].op) : OnPage!Permits(server.role, OnPage!Needs[part])
    <3>1. /\ calls' = [calls EXCEPT ![i].step = "done", ![i].wrote = n]
          /\ scenario.query \in OnPage!Writes[calls[i].op] => server'.data = server.data + 1
      BY <1>3, <2>4, <2>5 DEF OnPage!ServeCall
    <3>2. n \in Nat /\ n <= server'.data /\ (n # 0 => scenario.query \in OnPage!Writes[calls[i].op])
      BY <1>v, <2>4, <3>1
    <3> QED BY <2>3, <3>1, <3>2
  <2> QED BY <2>2, <2>5
<1>4. ASSUME NEW i \in 1..Len(calls), OnPage!TakeDone(i) PROVE CallTaken(i)
  <2>1. /\ calls[i].step = "done" /\ UNCHANGED <<server, visit, moves>>
        /\ calls' = [calls EXCEPT ![i].step = "over"]
        /\ dialog' # <<>> => dialog' = dialog /\ place' = place
    BY <1>4 DEF OnPage!TakeDone
  <2>2. "over" \in CallSteps
    BY DEF CallSteps
  <2>3. SameCalls /\ \A j \in 1..Len(calls) : /\ calls'[j].wrote = calls[j].wrote
                      /\ calls'[j].step = IF j = i THEN "over" ELSE calls[j].step
    BY <1>s, <2>1, <2>2, CallStepped DEF SameCalls
  <2> QED BY <1>4, <1>s, <2>1, <2>3 DEF CallTaken
<1>5. ASSUME NEW i \in 1..Len(calls), OnPage!TakeError(i) PROVE CallTaken(i)
  <2>1. /\ calls[i].step \in {"sent", "done", "refused"} /\ UNCHANGED <<server, visit, moves, dialog, place>>
    BY <1>5 DEF OnPage!TakeError
  <2>2. PICK step : step = IF calls[i].step = "refused" THEN "denied" ELSE "lost"
    OBVIOUS
  <2>3. calls' = [calls EXCEPT ![i].step = step]
    <3>1. calls' = [calls EXCEPT ![i].step = IF @ = "refused" THEN "denied" ELSE "lost"]
      BY <1>5 DEF OnPage!TakeError
    <3> QED BY <2>2, <3>1
  <2>4. step \in CallSteps /\ step \notin {"sent", "over", "refused"}
    BY <2>2 DEF CallSteps
  <2>5. SameCalls /\ \A j \in 1..Len(calls) : /\ calls'[j].wrote = calls[j].wrote
                      /\ calls'[j].step = IF j = i THEN step ELSE calls[j].step
    BY SMTT(30), <1>s, <2>3, <2>4, CallStepped DEF SameCalls
  <2> QED BY <1>s, <2>1, <2>4, <2>5 DEF CallTaken
<1>6. \/ UNCHANGED <<calls, server>> /\ moves' \in {moves, moves + 1}
      \/ OnPage!Submit \/ OnPage!WriteElsewhere \/ OnPage!ChangeRole
      \/ \E c \in OnPage!Here.controls : OnPage!Press(c)
      \/ \E i \in 1..Len(calls) : OnPage!ServeCall(i) \/ OnPage!TakeDone(i) \/ OnPage!TakeError(i)
  BY <1>s DEF OnPage!PageNext, OnPage!Cancel, OnPage!ServeQuery, OnPage!TakeAnswer, OnPage!FailQuery,
              OnPage!AskAgain, OnPage!Come, OnPage!Go, OnPage!Move
<1>7. CASE UNCHANGED <<calls, server>> /\ moves' \in {moves, moves + 1}
  BY <1>7 DEF OtherMove
<1>8. CASE OnPage!WriteElsewhere \/ OnPage!ChangeRole
  <2>1. server \in [data : Nat, role : MemberRoles]
    BY DEF ScreenShapes
  <2> QED BY <1>8, <2>1 DEF OnPage!WriteElsewhere, OnPage!ChangeRole, OnPage!Move, OtherMove
<1> QED BY <1>1, <1>2, <1>3, <1>4, <1>5, <1>6, <1>7, <1>8

(* The calls keep their shapes. *)
LEMMA CallShapesStep ==
  ASSUME ScreenShapes, ScreenShapes', QueryShapes, CallShapes, DialogInv, OnPage!PageNext
  PROVE  CallShapes'
<1>s. /\ calls \in Seq(PageCall(scenario.ops)) /\ Len(calls) \in Nat
      /\ \A i \in 1..Len(calls) :
           /\ calls[i].visit \in 1..visit /\ calls[i].wrote <= server.data
           /\ calls[i].wrote # 0 => scenario.query \in OnPage!Writes[calls[i].op]
           /\ calls[i].wrote \in Nat /\ calls[i].opening \in Nat /\ calls[i].opening <= i
  BY CallsAreCalls
<1>v. /\ server.data \in Nat /\ server'.data \in {server.data, server.data + 1} /\ scenario' = scenario
      /\ visit \in Nat /\ visit' \in Nat
  BY SMTT(30), ServerMoves DEF ScreenShapes
<1>c. visit' = visit \/ OnPage!Come
  BY DEF OnPage!PageNext, OnPage!Submit, OnPage!Cancel, OnPage!Press, OnPage!TakeError,
         OnPage!ServeQuery, OnPage!TakeAnswer, OnPage!FailQuery, OnPage!AskAgain, OnPage!Go, OnPage!TakeDone,
         OnPage!ServeCall, OnPage!WriteElsewhere, OnPage!ChangeRole
<1>w. visit' >= visit
  BY <1>c, <1>v DEF OnPage!Come
<1>1. CASE UNCHANGED calls
  BY <1>1, <1>s, <1>v, <1>w DEF CallShapes
<1>2. ASSUME NEW r, SentCall(r) PROVE CallShapes'
  <2>1. /\ calls' = Append(calls, r) /\ r \in PageCall(scenario.ops) /\ visit >= 1
        /\ r.visit = visit /\ r.wrote = 0 /\ server' = server
    BY <1>2 DEF SentCall
  <2>2. r.opening <= Len(calls) + 1
    BY <1>2, <1>s DEF SentCall, DialogInv
  <2>3. /\ calls' \in Seq(PageCall(scenario.ops)) /\ Len(calls') = Len(calls) + 1
        /\ calls'[Len(calls) + 1] = r
        /\ \A i \in 1..Len(calls) : calls'[i] = calls[i]
    BY <2>1, <1>s, AppendProperties
  <2>4. ASSUME NEW i \in 1..Len(calls')
        PROVE  /\ calls'[i].visit \in 1..visit' /\ calls'[i].wrote <= server'.data
               /\ calls'[i].wrote # 0 => scenario.query \in OnPage!Writes[calls'[i].op]
               /\ calls'[i].opening <= i
    <3>1. i \in 1..Len(calls) \/ i = Len(calls) + 1
      BY <1>s, <2>3
    <3> QED BY <1>s, <1>v, <1>w, <2>1, <2>2, <2>3, <3>1
  <2> QED BY <1>v, <2>3, <2>4 DEF CallShapes
<1>3. ASSUME NEW i \in 1..Len(calls), CallTaken(i) PROVE CallShapes'
  <2>1. /\ calls' \in Seq(PageCall(scenario.ops)) /\ Len(calls') = Len(calls)
        /\ \A j \in 1..Len(calls) : /\ calls'[j].op = calls[j].op /\ calls'[j].visit = calls[j].visit
                                    /\ calls'[j].opening = calls[j].opening
                                    /\ j # i => calls'[j].wrote = calls[j].wrote
        /\ calls'[i].wrote <= server'.data
        /\ calls'[i].wrote # 0 => scenario.query \in OnPage!Writes[calls[i].op]
    BY <1>3 DEF CallTaken, SameCalls
  <2>2. ASSUME NEW j \in 1..Len(calls')
        PROVE  /\ calls'[j].visit \in 1..visit' /\ calls'[j].wrote <= server'.data
               /\ calls'[j].wrote # 0 => scenario.query \in OnPage!Writes[calls'[j].op]
               /\ calls'[j].opening <= j
    BY SMTT(30), <1>s, <1>v, <1>w, <2>1
  <2> QED BY <1>v, <2>1, <2>2 DEF CallShapes
<1> QED BY <1>1, <1>2, <1>3, CallMoves

(* The database has grown by no more than the moves that calls have ended  *)
(* or others have made.                                                    *)
LEMMA BudgetStep ==
  ASSUME ScreenShapes, ScreenShapes', QueryShapes, CallShapes, CallShapes', DialogInv, Budget, OnPage!PageNext
  PROVE  Budget'
<1>s. /\ Len(calls) \in Nat /\ calls \in Seq(PageCall(scenario.ops))
      /\ server.data \in Nat /\ moves \in Nat /\ server'.data \in {server.data, server.data + 1}
      /\ moves' \in Nat
  BY CallsAreCalls, ServerMoves, BoundsAssumption DEF ScreenShapes
<1>f. IsFiniteSet(OnItsWay) /\ Cardinality(OnItsWay) \in Nat /\ server.data + Cardinality(OnItsWay) <= moves
  <2>1. IsFiniteSet(1..Len(calls)) /\ OnItsWay \in SUBSET (1..Len(calls))
    BY <1>s, FS_Interval DEF OnItsWay
  <2> QED BY <2>1, FS_Subset, FS_CardinalityType DEF Budget
<1>1. CASE UNCHANGED calls /\ OtherMove
  <2>1. OnItsWay' = OnItsWay
    BY <1>1 DEF OnItsWay
  <2> QED BY <1>s, <1>f, <1>1, <2>1 DEF Budget, OtherMove
<1>2. ASSUME NEW r, SentCall(r) PROVE Budget'
  <2>1. /\ calls' = Append(calls, r) /\ r \in PageCall(scenario.ops) /\ r.step = "sent"
        /\ moves' = moves + 1 /\ server' = server
    BY <1>2 DEF SentCall
  <2>2. /\ Len(calls') = Len(calls) + 1 /\ calls'[Len(calls) + 1] = r
        /\ \A i \in 1..Len(calls) : calls'[i] = calls[i]
    BY <2>1, <1>s, AppendProperties
  <2>3. OnItsWay' = OnItsWay \cup {Len(calls) + 1}
    BY <1>s, <2>1, <2>2 DEF OnItsWay
  <2>4. Cardinality(OnItsWay') = Cardinality(OnItsWay) + 1
    <3>1. Len(calls) + 1 \notin OnItsWay
      BY <1>s DEF OnItsWay
    <3> QED BY <1>f, <2>3, <3>1, FS_AddElement
  <2> QED BY <1>s, <1>f, <2>1, <2>4 DEF Budget
<1>3. ASSUME NEW i \in 1..Len(calls), CallTaken(i) PROVE Budget'
  <2>1. /\ Len(calls') = Len(calls) /\ calls'[i].step # "sent" /\ moves' = moves
        /\ \A j \in 1..Len(calls) : j # i => calls'[j].step = calls[j].step
        /\ calls[i].step # "sent" => server' = server
    BY <1>3 DEF CallTaken, SameCalls
  <2>2. OnItsWay' = OnItsWay \ {i}
    BY <2>1 DEF OnItsWay
  <2>3. Cardinality(OnItsWay') = IF i \in OnItsWay THEN Cardinality(OnItsWay) - 1 ELSE Cardinality(OnItsWay)
    BY <1>f, <2>2, FS_RemoveElement
  <2>4. i \in OnItsWay <=> calls[i].step = "sent"
    BY DEF OnItsWay
  <2> QED BY <1>s, <1>f, <2>1, <2>3, <2>4 DEF Budget
<1> QED BY <1>1, <1>2, <1>3, CallMoves

(* What a step does to the dialog *)
LEMMA DialogMoves ==
  ASSUME ScreenShapes, DialogInv, OnPage!PageNext
  PROVE  \/ dialog' = <<>>
         \/ dialog # <<>> /\ UNCHANGED <<dialog, place, visit>>
         \/ \E c \in OnPage!Here.controls :
              /\ c.dialog /\ c.op \in scenario.ops /\ Gated(c.gate, OnPage!RoleIn(cache))
              /\ dialog' = <<[control |-> c, known |-> OnPage!RoleIn(cache), opening |-> Len(calls) + 1]>>
              /\ place = "screen" /\ UNCHANGED <<place, visit, calls>>
<1>1. CASE UNCHANGED <<dialog, place, visit>>
  BY <1>1
<1>2. ASSUME NEW c \in OnPage!Here.controls, OnPage!Press(c), ~UNCHANGED <<dialog, place, visit>>
      PROVE  /\ c.dialog /\ c.op \in scenario.ops /\ Gated(c.gate, OnPage!RoleIn(cache))
             /\ dialog' = <<[control |-> c, known |-> OnPage!RoleIn(cache), opening |-> Len(calls) + 1]>>
             /\ place = "screen" /\ UNCHANGED <<place, visit, calls>>
  BY <1>2 DEF OnPage!Press, OnPage!Usable, OnPage!Shown, Gated
<1>3. ASSUME NEW i \in DOMAIN calls, OnPage!TakeDone(i)
      PROVE  dialog' = <<>> \/ UNCHANGED <<dialog, place, visit>>
  BY <1>3 DEF OnPage!TakeDone
<1>4. CASE OnPage!Come
  BY <1>4 DEF OnPage!Come, DialogInv
<1>5. CASE OnPage!Go \/ OnPage!Cancel
  BY SMTT(30), <1>5 DEF OnPage!Go, OnPage!Cancel
<1>6. \/ UNCHANGED <<dialog, place, visit>> \/ OnPage!Come \/ OnPage!Go \/ OnPage!Cancel
      \/ \E c \in OnPage!Here.controls : OnPage!Press(c)
      \/ \E i \in DOMAIN calls : OnPage!TakeDone(i)
  BY DEF OnPage!PageNext, OnPage!Submit, OnPage!TakeError, OnPage!ServeQuery, OnPage!TakeAnswer,
         OnPage!FailQuery, OnPage!AskAgain, OnPage!ServeCall, OnPage!WriteElsewhere, OnPage!ChangeRole
<1> QED BY <1>1, <1>2, <1>3, <1>4, <1>5, <1>6

(* The open dialog stays one of its screen. *)
LEMMA DialogStep ==
  ASSUME ScreenShapes, QueryShapes, CallShapes, DialogInv, OnPage!PageNext
  PROVE  DialogInv'
<1>s. /\ calls \in Seq(PageCall(scenario.ops)) /\ Len(calls) \in Nat
      /\ \A i \in 1..Len(calls) : calls[i].opening \in Nat /\ calls[i].opening <= i
  BY CallsAreCalls
<1>h. scenario' = scenario /\ OnPage!Here' = OnPage!Here
  BY ServerMoves DEF OnPage!Here
<1>1. CASE dialog' = <<>>
  BY <1>1 DEF DialogInv
<1>2. ASSUME NEW c \in OnPage!Here.controls,
             c.dialog, c.op \in scenario.ops, Gated(c.gate, OnPage!RoleIn(cache)),
             dialog' = <<[control |-> c, known |-> OnPage!RoleIn(cache), opening |-> Len(calls) + 1]>>,
             place = "screen", UNCHANGED <<place, visit, calls>>
      PROVE  DialogInv'
  <2>1. PICK d, role : role = OnPage!RoleIn(cache) /\ d = [control |-> c, known |-> role, opening |-> Len(calls) + 1]
    OBVIOUS
  <2>2. dialog' = <<d>> /\ d.control = c /\ d.known = role /\ d.opening = Len(calls) + 1
    BY <1>2, <2>1
  <2>3. Head(dialog') = d
    BY <2>2
  <2>4. role \in OnPage!Known
    BY <2>1, RoleIsKnown DEF QueryShapes, OnPage!Keys, Valid
  <2>5. c.dialog = TRUE
    BY <1>2, Tables DEF ScreenShapes
  <2>6. \A i \in 1..Len(calls') : calls'[i].opening # d.opening
    BY <1>s, <1>2, <2>2
  <2>7. d.opening \in 1..(Len(calls') + 1)
    BY <1>s, <1>2, <2>2
  <2> QED BY <1>h, <1>2, <2>1, <2>2, <2>3, <2>4, <2>5, <2>6, <2>7 DEF DialogInv
<1>3. ASSUME dialog' # <<>>, dialog # <<>>, UNCHANGED <<dialog, place, visit>> PROVE DialogInv'
  <2>1. PICK d : d = Head(dialog)
    OBVIOUS
  <2>2. /\ dialog = <<d>> /\ place = "screen" /\ d.control \in OnPage!Here.controls
        /\ d.control.dialog = TRUE /\ d.control.op \in scenario.ops /\ d.known \in OnPage!Known
        /\ Gated(d.control.gate, d.known) /\ d.opening \in 1..(Len(calls) + 1)
        /\ \A i \in 1..Len(calls) :
             calls[i].opening = d.opening =>
               calls[i].op = d.control.op /\ calls[i].visit = visit /\ calls[i].step # "over"
    BY <1>3, <2>1 DEF DialogInv
  <2>3. ASSUME d.opening \in 1..(Len(calls') + 1),
               \A i \in 1..Len(calls') :
                  calls'[i].opening = d.opening =>
                    calls'[i].op = d.control.op /\ calls'[i].visit = visit /\ calls'[i].step # "over"
        PROVE  DialogInv'
    BY <1>h, <1>3, <2>1, <2>2, <2>3 DEF DialogInv
  <2>4. CASE UNCHANGED calls
    BY <2>2, <2>3, <2>4
  <2>5. ASSUME NEW r, SentCall(r) PROVE DialogInv'
    <3>1. /\ calls' = Append(calls, r) /\ r \in PageCall(scenario.ops) /\ r.step = "sent" /\ r.visit = visit
          /\ r.opening = 0 \/ (r.opening = d.opening /\ r.op = d.control.op)
      BY <2>1, <2>5 DEF SentCall
    <3>2. /\ Len(calls') = Len(calls) + 1 /\ calls'[Len(calls) + 1] = r
          /\ \A i \in 1..Len(calls) : calls'[i] = calls[i]
      BY <3>1, <1>s, AppendProperties
    <3>3. ASSUME NEW i \in 1..Len(calls'), calls'[i].opening = d.opening
          PROVE  calls'[i].op = d.control.op /\ calls'[i].visit = visit /\ calls'[i].step # "over"
      <4>1. i \in 1..Len(calls) \/ i = Len(calls) + 1
        BY <1>s, <3>2
      <4>2. d.opening # 0
        BY <1>s, <2>2
      <4> QED BY <2>2, <3>1, <3>2, <3>3, <4>1, <4>2
    <3> QED BY <1>s, <2>2, <2>3, <3>2, <3>3
  <2>6. ASSUME NEW i \in 1..Len(calls), CallTaken(i) PROVE DialogInv'
    <3>1. /\ Len(calls') = Len(calls)
          /\ \A j \in 1..Len(calls) : /\ calls'[j].op = calls[j].op /\ calls'[j].visit = calls[j].visit
                                      /\ calls'[j].opening = calls[j].opening
                                      /\ j # i => calls'[j].step = calls[j].step
          /\ calls'[i].step = "over" => OnPage!TakeDone(i)
      BY <2>6 DEF CallTaken, SameCalls
    <3>2. ASSUME calls'[i].opening = d.opening, OnPage!TakeDone(i) PROVE FALSE
      <4>1. calls[i].op = d.control.op /\ calls[i].visit = visit
        BY <2>2, <3>1, <3>2
      <4>2. OnPage!Here.ends[calls[i].op] # "stays"
        BY <2>2, <4>1, Tables DEF ScreenShapes
      <4> QED BY <1>3, <2>2, <3>2, <4>1, <4>2 DEF OnPage!TakeDone
    <3>3. ASSUME NEW j \in 1..Len(calls'), calls'[j].opening = d.opening
          PROVE  calls'[j].op = d.control.op /\ calls'[j].visit = visit /\ calls'[j].step # "over"
      BY <2>2, <3>1, <3>2, <3>3
    <3> QED BY <2>2, <2>3, <3>1, <3>3
  <2> QED BY <2>4, <2>5, <2>6, CallMoves
<1> QED BY <1>1, <1>2, <1>3, DialogMoves

(* No step makes an opened dialog do its operation twice. *)
LEMMA SentOnceStep ==
  ASSUME ScreenShapes, QueryShapes, CallShapes, DialogInv, OnPage!SentOnce, OnPage!PageNext
  PROVE  OnPage!SentOnce'
<1>s. /\ calls \in Seq(PageCall(scenario.ops)) /\ Len(calls) \in Nat /\ DOMAIN calls = 1..Len(calls)
      /\ \A i \in 1..Len(calls) : calls[i] \in PageCall(scenario.ops)
  BY CallsAreCalls
<1>o. \A i, j \in 1..Len(calls) :
         i < j /\ calls[i].opening = calls[j].opening /\ calls[i].opening # 0
           => calls[i].step \in {"denied", "lost"}
  BY <1>s DEF OnPage!SentOnce
<1>1. CASE UNCHANGED calls
  BY <1>1 DEF OnPage!SentOnce
<1>2. ASSUME NEW r, SentCall(r) PROVE OnPage!SentOnce'
  <2>1. calls' = Append(calls, r) /\ r \in PageCall(scenario.ops)
    BY <1>2 DEF SentCall
  <2>2. /\ Len(calls') = Len(calls) + 1 /\ calls'[Len(calls) + 1] = r
        /\ \A i \in 1..Len(calls) : calls'[i] = calls[i]
        /\ calls' \in Seq(PageCall(scenario.ops))
    BY <2>1, <1>s, AppendProperties
  <2>3. ASSUME NEW i \in 1..Len(calls), calls[i].opening = r.opening, r.opening # 0
        PROVE  calls[i].step \in {"denied", "lost"}
    <3>1. PICK c : c = Head(dialog).control
      OBVIOUS
    <3>2. dialog # <<>> /\ r.opening = Head(dialog).opening /\ ~OnPage!Pending(c.busy)
      BY <1>2, <2>3, <3>1 DEF SentCall
    <3>3. /\ c \in OnPage!Here.controls /\ c.dialog
          /\ calls[i].op = c.op /\ calls[i].visit = visit /\ calls[i].step # "over"
      BY <2>3, <3>1, <3>2 DEF DialogInv
    <3>4. calls[i].op \in c.busy
      BY <3>3, Tables DEF ScreenShapes
    <3>5. calls[i].step \notin {"sent", "done", "refused"}
      BY <1>s, <3>2, <3>3, <3>4 DEF OnPage!Pending
    <3>6. calls[i].step \in CallSteps
      BY <1>s DEF PageCall
    <3> QED BY <3>3, <3>5, <3>6 DEF CallSteps
  <2>4. ASSUME NEW i \in 1..Len(calls'), NEW j \in 1..Len(calls'),
               i < j, calls'[i].opening = calls'[j].opening, calls'[i].opening # 0
        PROVE  calls'[i].step \in {"denied", "lost"}
    <3>1. i \in 1..Len(calls) /\ (j \in 1..Len(calls) \/ j = Len(calls) + 1)
      BY <1>s, <2>2, <2>4
    <3>2. CASE j \in 1..Len(calls)
      BY <1>o, <2>2, <2>4, <3>1, <3>2
    <3>3. CASE j = Len(calls) + 1
      BY <2>2, <2>3, <2>4, <3>1, <3>3
    <3> QED BY <3>1, <3>2, <3>3
  <2>5. DOMAIN calls' = 1..Len(calls')
    BY <2>2
  <2> QED BY <2>4, <2>5 DEF OnPage!SentOnce
<1>3. ASSUME NEW k \in 1..Len(calls), CallTaken(k) PROVE OnPage!SentOnce'
  <2>1. /\ Len(calls') = Len(calls) /\ calls' \in Seq(PageCall(scenario.ops))
        /\ calls[k].step \in {"sent", "done", "refused"}
        /\ \A j \in 1..Len(calls) : /\ calls'[j].opening = calls[j].opening
                                    /\ j # k => calls'[j].step = calls[j].step
    BY <1>3 DEF CallTaken, SameCalls
  <2>2. DOMAIN calls' = 1..Len(calls)
    BY <2>1
  <2> QED BY <1>o, <2>1, <2>2 DEF OnPage!SentOnce
<1> QED BY <1>1, <1>2, <1>3, CallMoves

(* What is asked for stays something that was offered. *)
LEMMA OfferStep ==
  ASSUME ScreenShapes, QueryShapes, CallShapes, DialogInv, OfferInv, OnPage!PageNext
  PROVE  OfferInv'
<1>s. calls \in Seq(PageCall(scenario.ops)) /\ Len(calls) \in Nat
  BY CallsAreCalls
<1>h. scenario' = scenario /\ OnPage!Here' = OnPage!Here
  BY ServerMoves DEF OnPage!Here
<1> DEFINE Offered(r) == \E c \in OnPage!Here.controls : c.op = r.op /\ Gated(c.gate, r.known)
<1>o. \A i \in 1..Len(calls) : calls[i].step = "sent" => Offered(calls[i])
  BY DEF OfferInv
<1>c. \A i \in 1..Len(calls') : calls'[i].step = "sent" => Offered(calls'[i])
  <2>1. CASE UNCHANGED calls
    BY <1>o, <2>1
  <2>2. ASSUME NEW r, SentCall(r)
        PROVE  \A i \in 1..Len(calls') : calls'[i].step = "sent" => Offered(calls'[i])
    <3>1. calls' = Append(calls, r) /\ r \in PageCall(scenario.ops)
      BY <2>2 DEF SentCall
    <3>2. /\ Len(calls') = Len(calls) + 1 /\ calls'[Len(calls) + 1] = r
          /\ \A i \in 1..Len(calls) : calls'[i] = calls[i]
      BY <3>1, <1>s, AppendProperties
    <3>3. Offered(r)
      BY <2>2 DEF SentCall, DialogInv
    <3>4. ASSUME NEW i \in 1..Len(calls') PROVE i \in 1..Len(calls) \/ i = Len(calls) + 1
      BY <1>s, <3>2
    <3> HIDE DEF Offered
    <3> QED BY <1>o, <3>2, <3>3, <3>4
  <2>3. ASSUME NEW k \in 1..Len(calls), CallTaken(k)
        PROVE  \A i \in 1..Len(calls') : calls'[i].step = "sent" => Offered(calls'[i])
    <3>1. /\ Len(calls') = Len(calls) /\ calls'[k].step # "sent"
          /\ \A j \in 1..Len(calls) : /\ calls'[j].op = calls[j].op /\ calls'[j].known = calls[j].known
                                      /\ j # k => calls'[j].step = calls[j].step
      BY <2>3 DEF CallTaken, SameCalls
    <3> QED BY <1>o, <3>1
  <2> QED BY <2>1, <2>2, <2>3, CallMoves
<1>f. fetch'["data"].step = "asked" /\ scenario.query \in DOMAIN OnPage!Here.reads
        => Gated(OnPage!Here.reads[scenario.query], fetch'["data"].known)
  <2>1. RequestMoves("data")
    BY QueryMoves DEF OnPage!Keys
  <2>2. CASE fetch'["data"] = fetch["data"]
    BY <2>2 DEF OfferInv
  <2>3. CASE NewRequest("data")
    BY <2>3 DEF NewRequest, OnPage!Ask
  <2>4. CASE EndedRequest("data")
    BY <2>4 DEF EndedRequest
  <2>5. CASE ServedRequest("data")
    <3>1. fetch["data"] = [step |-> fetch["data"].step, known |-> fetch["data"].known, value |-> fetch["data"].value]
      BY RequestFits DEF QueryShapes, OnPage!Keys
    <3>2. PICK f, v : f = fetch["data"] /\ v = <<server["data"]>>
      OBVIOUS
    <3>3. f = [step |-> f.step, known |-> f.known, value |-> f.value]
      BY <3>1, <3>2
    <3>4. [f EXCEPT !.step = "refused"].step # "asked"
      BY <3>3
    <3>5. [f EXCEPT !.step = "answered", !.value = v].step # "asked"
      <4>1. PICK g : g = [f EXCEPT !.step = "answered"]
        OBVIOUS
      <4>2. [f EXCEPT !.step = "answered", !.value = v] = [[f EXCEPT !.step = "answered"] EXCEPT !.value = v]
        OBVIOUS
      <4>3. g.step = "answered" /\ g = [step |-> g.step, known |-> g.known, value |-> g.value]
        BY <3>3, <4>1
      <4>4. [g EXCEPT !.value = v].step = "answered"
        BY <4>3
      <4> QED BY <4>1, <4>2, <4>4
    <3> QED BY <2>5, <3>2, <3>4, <3>5 DEF ServedRequest
  <2> QED BY <2>1, <2>2, <2>3, <2>4, <2>5 DEF RequestMoves
<1> QED BY <1>h, <1>c, <1>f DEF OfferInv

LEMMA PageIInit == OnPage!PageInit => PageIInv
<1> SUFFICES ASSUME OnPage!PageInit PROVE PageIInv
  OBVIOUS
<1> USE DEF OnPage!PageInit
<1>1. server.data = 0 /\ server \in [data : Nat, role : MemberRoles]
  BY DEF MemberRoles
<1>2. ScreenShapes
  BY <1>1, BoundsAssumption DEF ScreenShapes
<1>3. QueryShapes
  <2>1. OnPage!Idle \in Fetches(Valid("data")) /\ OnPage!Idle \in Fetches(Valid("role"))
    BY FitsRequest DEF OnPage!Idle, Holds, OnPage!Known
  <2> QED BY <2>1 DEF QueryShapes, OnPage!Keys, Holds
<1>4. CallShapes /\ Len(calls) = 0
  BY EmptySeq DEF CallShapes
<1>5. Budget
  <2>1. OnItsWay = {}
    BY <1>4 DEF OnItsWay
  <2> QED BY <1>1, <2>1, FS_EmptySet DEF Budget
<1>6. DialogInv
  BY DEF DialogInv
<1>7. OnPage!SentOnce
  BY DEF OnPage!SentOnce
<1>8. OfferInv
  BY <1>4 DEF OfferInv, OnPage!Idle, OnPage!Keys
<1>9. PromiseInv
  BY DEF PromiseInv, OnPage!Idle, OnPage!Keys
<1> QED BY <1>2, <1>3, <1>4, <1>5, <1>6, <1>7, <1>8, <1>9 DEF PageIInv

(* What the user, the server and other members do keeps the invariant. *)
LEMMA PageIStep == PageIInv /\ [OnPage!PageNext]_pageVars => PageIInv'
<1> SUFFICES ASSUME PageIInv, [OnPage!PageNext]_pageVars PROVE PageIInv'
  OBVIOUS
<1>s. /\ ScreenShapes /\ QueryShapes /\ CallShapes /\ Budget
      /\ DialogInv /\ OnPage!SentOnce /\ OfferInv /\ PromiseInv
  BY DEF PageIInv
<1>1. CASE UNCHANGED pageVars
  <2> USE <1>1 DEF pageVars
  <2>1. UNCHANGED <<MemberRoles, OnItsWay, Valid("data"), Valid("role"), OnPage!Here, ToldScenario>>
    BY DEF MemberRoles, OnItsWay, Valid, OnPage!Here, ToldScenario
  <2>2. ScreenShapes' /\ CallShapes' /\ Budget'
    BY <1>s, <2>1 DEF ScreenShapes, CallShapes, Budget
  <2>3. QueryShapes'
    BY <1>s, <2>1 DEF QueryShapes, OnPage!Keys
  <2>4. DialogInv' /\ OnPage!SentOnce'
    BY <1>s, <2>1 DEF DialogInv, OnPage!SentOnce
  <2>5. OfferInv' /\ PromiseInv'
    BY <1>s, <2>1 DEF OfferInv, PromiseInv
  <2> QED BY <2>2, <2>3, <2>4, <2>5 DEF PageIInv
<1>2. CASE OnPage!PageNext
  <2>1. ScreenShapes' /\ QueryShapes' /\ PromiseInv'
    BY <1>s, <1>2, ScreenShapesStep, QueryShapesStep, PromiseStep
  <2>2. CallShapes'
    BY <1>s, <1>2, <2>1, CallShapesStep
  <2>3. Budget'
    BY <1>s, <1>2, <2>1, <2>2, BudgetStep
  <2>4. DialogInv' /\ OnPage!SentOnce' /\ OfferInv'
    BY <1>s, <1>2, DialogStep, SentOnceStep, OfferStep
  <2> QED BY <2>1, <2>2, <2>3, <2>4 DEF PageIInv
<1> QED BY <1>1, <1>2

(* The invariant says what the runs check of screens. *)
LEMMA PageFacts == PageIInv => OnPage!PagesTypeOK /\ OnPage!OwnWritesShown /\ OnPage!SentOnce
<1> SUFFICES ASSUME PageIInv PROVE OnPage!PagesTypeOK /\ OnPage!OwnWritesShown
  BY DEF PageIInv
<1>s. ScreenShapes /\ QueryShapes /\ CallShapes /\ Budget /\ DialogInv /\ PromiseInv
  BY DEF PageIInv
<1>1. OnPage!OwnWritesShown
  BY <1>s DEF PromiseInv, ToldScenario, OnPage!OwnWritesShown
<1>2. server.data \in 0..MaxMoves
  <2>0. Len(calls) \in Nat
    BY <1>s, CallsAreCalls
  <2>1. IsFiniteSet(1..Len(calls)) /\ OnItsWay \in SUBSET (1..Len(calls))
    BY <2>0, FS_Interval DEF OnItsWay
  <2>2. Cardinality(OnItsWay) \in Nat
    BY <2>1, FS_Subset, FS_CardinalityType
  <2> QED BY <1>s, <2>2, BoundsAssumption DEF Budget, ScreenShapes
<1>3. ASSUME NEW k \in OnPage!Keys
      PROVE  /\ server[k] \in OnPage!Values(k)
             /\ cache[k] = <<>> \/ Head(cache[k]) \in OnPage!Values(k)
             /\ stale[k] \in BOOLEAN
             /\ fetch[k].step \in {"idle", "asked", "answered", "refused", "failed"}
             /\ fetch[k].known \in OnPage!Known
             /\ (fetch[k].step = "answered") <=> (fetch[k].value # <<>>)
  <2>1. Valid(k) \subseteq OnPage!Values(k)
    BY <1>2, BoundsAssumption DEF Valid, OnPage!Values, MemberRoles
  <2>2. server[k] \in Valid(k)
    BY <1>s DEF ScreenShapes, Valid, OnPage!Keys
  <2>3. cache[k] \in Holds(Valid(k)) /\ fetch[k] \in Fetches(Valid(k)) /\ stale[k] \in BOOLEAN
    BY <1>s DEF QueryShapes
  <2>4. cache[k] = <<>> \/ \E v \in Valid(k) : cache[k] = <<v>>
    BY <2>3 DEF Holds
  <2>5. cache[k] = <<>> \/ Head(cache[k]) \in Valid(k)
    BY <2>4
  <2> QED BY <2>1, <2>2, <2>3, <2>5, RequestFits
<1>4. cache.data # <<>> => Head(cache.data) <= server.data
  <2>1. cache["data"] \in Holds(0..server.data) /\ server.data \in Nat
    BY <1>s DEF QueryShapes, Valid, OnPage!Keys, ScreenShapes
  <2>2. cache["data"] = <<>> \/ \E v \in 0..server.data : cache["data"] = <<v>>
    BY <2>1 DEF Holds
  <2> QED BY <2>1, <2>2
<1>5. Len(dialog) <= 1 /\ (dialog # <<>> => place = "screen")
  <2>1. CASE dialog = <<>>
    BY <2>1
  <2>2. CASE dialog # <<>>
    <3>1. PICK d : d = Head(dialog)
      OBVIOUS
    <3>2. dialog = <<d>> /\ place = "screen"
      BY <1>s, <2>2, <3>1 DEF DialogInv
    <3> QED BY <3>2
  <2> QED BY <2>1, <2>2
<1>6. ASSUME NEW i \in DOMAIN calls
      PROVE  /\ calls[i].op \in scenario.ops /\ calls[i].known \in OnPage!Known
             /\ calls[i].step \in {"sent", "done", "refused", "over", "denied", "lost"}
             /\ calls[i].visit \in 1..visit /\ calls[i].wrote <= server.data
  <2>1. i \in 1..Len(calls)
    BY <1>s, CallsAreCalls
  <2>2. calls[i] \in PageCall(scenario.ops) /\ calls[i].visit \in 1..visit /\ calls[i].wrote <= server.data
    BY <1>s, <2>1, CallsAreCalls
  <2> QED BY <2>2 DEF PageCall, CallSteps
<1>7. /\ scenario \in Scenarios
      /\ place \in {"screen", "elsewhere"} /\ visit \in 0..MaxMoves + 1 /\ moves \in 0..MaxMoves
      /\ promised <= server.data
  BY <1>s, BoundsAssumption DEF ScreenShapes
<1> QED BY <1>1, <1>3, <1>4, <1>5, <1>6, <1>7 DEF OnPage!PagesTypeOK

(* What was offered and is permitted by the tables is refused only if the  *)
(* role is another one by now.                                             *)
LEMMA OfferedIsNews ==
  ASSUME ScreenShapes, NEW gate, NEW known1 \in OnPage!Known, Gated(gate, known1), NEW name,
         ~OnPage!News(name, known1)
  PROVE  /\ server.role \in OnPage!Roles /\ ~OnPage!Unforeseen(name, server.role)
         /\ Gated(gate, server.role)
<1>1. /\ server.role # "none" /\ ~OnPage!Unforeseen(name, server.role)
      /\ known1 = server.role \/ known1 = "unknown"
  BY DEF OnPage!News
<1>2. server.role \in OnPage!Roles
  BY <1>1 DEF ScreenShapes, MemberRoles
<1>3. ~OnPage!can("unknown", gate)
  BY DEF OnPage!can
<1> QED BY <1>1, <1>2, <1>3 DEF Gated

(* So a refusal tells of a change of the role. *)
LEMMA RefusalFacts == PageIInv /\ OnPage!PageNext => OnPage!RefusalIsNews
<1> SUFFICES ASSUME PageIInv, OnPage!PageNext PROVE OnPage!RefusalIsNews
  OBVIOUS
<1>s. ScreenShapes /\ QueryShapes /\ CallShapes /\ DialogInv /\ OfferInv
  BY DEF PageIInv
<1>c. /\ Len(calls) \in Nat /\ DOMAIN calls = 1..Len(calls) /\ calls \in Seq(PageCall(scenario.ops))
      /\ \A i \in 1..Len(calls) : calls[i] \in PageCall(scenario.ops)
  BY <1>s, CallsAreCalls
<1>1. ASSUME NEW i \in DOMAIN calls, calls[i].step = "sent", calls'[i].step = "refused",
             ~OnPage!News(calls[i].op, calls[i].known)
      PROVE  FALSE
  <2>1. i \in 1..Len(calls) /\ calls' # calls
    BY <1>1, <1>c
  <2>2. ~\E r : SentCall(r)
    <3> SUFFICES ASSUME NEW r, SentCall(r) PROVE FALSE
      OBVIOUS
    <3>1. calls' = Append(calls, r) /\ r \in PageCall(scenario.ops)
      BY DEF SentCall
    <3>2. calls \in Seq(PageCall(scenario.ops))
      BY <1>c
    <3>3. \A k \in 1..Len(calls) : calls'[k] = calls[k]
      BY <3>1, <3>2, AppendProperties
    <3> QED BY <1>1, <2>1, <3>3
  <2>3. PICK j \in 1..Len(calls) : CallTaken(j)
    BY <1>s, <2>1, <2>2, CallMoves
  <2>4. CallTaken(i)
    BY <1>1, <2>1, <2>3 DEF CallTaken
  <2>5. PICK part \in OnPage!Asks(calls[i].op) : ~OnPage!Permits(server.role, OnPage!Needs[part])
    BY <1>1, <2>4 DEF CallTaken
  <2>6. PICK c \in OnPage!Here.controls : c.op = calls[i].op /\ Gated(c.gate, calls[i].known)
    BY <1>s, <1>1, <2>1 DEF OfferInv
  <2>7. calls[i].known \in OnPage!Known
    BY <1>c, <2>1 DEF PageCall
  <2>8. /\ server.role \in OnPage!Roles /\ ~OnPage!Unforeseen(calls[i].op, server.role)
        /\ Gated(c.gate, server.role)
    BY <1>s, <1>1, <2>6, <2>7, OfferedIsNews
  <2>9. Granted(c.op, server.role)
    BY <1>s, <2>8, Tables DEF ScreenShapes
  <2> QED BY <2>5, <2>6, <2>8, <2>9 DEF Granted
<1>2. ASSUME NEW k \in OnPage!Keys, fetch[k].step = "asked", fetch'[k].step = "refused",
             ~OnPage!News(OnPage!Query(k), fetch[k].known)
      PROVE  FALSE
  <2>1. ~OnPage!Permits(server.role, OnPage!ReadNeeds[OnPage!Query(k)])
    <3>1. RequestMoves(k)
      BY <1>s, QueryMoves
    <3>2. fetch'[k] # fetch[k]
      BY <1>2
    <3>3. ~NewRequest(k)
      BY <1>2 DEF NewRequest, OnPage!Ask
    <3>4. ~EndedRequest(k)
      BY <1>2 DEF EndedRequest
    <3>5. fetch'[k] # [fetch[k] EXCEPT !.step = "answered", !.value = <<server[k]>>]
      <4>1. PICK f, v : f = fetch[k] /\ v = <<server[k]>>
        OBVIOUS
      <4>2. f = [step |-> f.step, known |-> f.known, value |-> f.value]
        BY <1>s, <4>1, RequestFits DEF QueryShapes
      <4>3. PICK g : g = [f EXCEPT !.step = "answered"]
        OBVIOUS
      <4>4. [f EXCEPT !.step = "answered", !.value = v] = [[f EXCEPT !.step = "answered"] EXCEPT !.value = v]
        OBVIOUS
      <4>5. g.step = "answered" /\ g = [step |-> g.step, known |-> g.known, value |-> g.value]
        BY <4>2, <4>3
      <4>6. [g EXCEPT !.value = v].step = "answered"
        BY <4>5
      <4> QED BY <1>2, <4>1, <4>3, <4>4, <4>6
    <3> QED BY <3>1, <3>2, <3>3, <3>4, <3>5 DEF RequestMoves, ServedRequest
  <2>2. fetch[k].known \in OnPage!Known
    BY <1>s, RequestFits DEF QueryShapes
  <2>3. server.role \in OnPage!Roles /\ ~OnPage!Unforeseen(OnPage!Query(k), server.role)
    BY <1>2, <1>s DEF OnPage!News, ScreenShapes, MemberRoles
  <2>4. CASE k = "role"
    <3>1. OnPage!Query(k) = "memberList"
      BY <2>4 DEF OnPage!Query
    <3> QED BY <1>s, <2>1, <2>3, <3>1, Tables DEF ScreenShapes, Readable
  <2>5. CASE k = "data"
    <3>1. OnPage!Query(k) = scenario.query
      BY <2>5 DEF OnPage!Query
    <3>2. CASE scenario.query \notin DOMAIN OnPage!Here.reads
      BY <1>s, <2>1, <2>3, <3>1, <3>2, Tables DEF ScreenShapes, Readable
    <3>3. CASE scenario.query \in DOMAIN OnPage!Here.reads
      <4>1. PICK gate : gate = OnPage!Here.reads[scenario.query]
        OBVIOUS
      <4>2. Gated(gate, fetch[k].known)
        BY <1>s, <1>2, <2>5, <3>3, <4>1 DEF OfferInv
      <4>3. Gated(gate, server.role)
        BY <1>s, <1>2, <2>2, <4>2, OfferedIsNews
      <4> QED BY <1>s, <2>1, <2>3, <3>1, <3>3, <4>1, <4>3, Tables DEF ScreenShapes, Readable
    <3> QED BY <3>2, <3>3
  <2> QED BY <2>4, <2>5 DEF OnPage!Keys
<1> QED BY <1>1, <1>2 DEF OnPage!RefusalIsNews

-----------------------------------------------------------------------------
(* Mailed links.  Their invariants are proved where they are by themselves.*)
Mail == INSTANCE EmailTokensProofs

MailInv == Mail!MailIInv /\ Mail!PagesInv /\ Mail!Counted

LEMMA SameMailInit == ByMail!MailInit => Mail!MailInit
BY ZenonT(30) DEF ByMail!MailInit, Mail!MailInit, ByMail!Resting, Mail!Resting, ByMail!NoLink, Mail!NoLink,
       ByMail!NobodyWaits, Mail!NobodyWaits

LEMMA SameMailNext == ByMail!MailNext => Mail!MailNext
BY ZenonT(30) DEF ByMail!MailNext, Mail!MailNext, ByMail!ReadUnused, Mail!ReadUnused, ByMail!Draft, Mail!Draft,
  ByMail!CommitIssue, Mail!CommitIssue, ByMail!RollbackIssue, Mail!RollbackIssue, ByMail!Expire, Mail!Expire,
  ByMail!OpenLink, Mail!OpenLink, ByMail!TakeAddress, Mail!TakeAddress, ByMail!TryLink, Mail!TryLink,
  ByMail!Answered, Mail!Answered, ByMail!Unanswered, Mail!Unanswered, ByMail!Check, Mail!Check,
  ByMail!CommitUse, Mail!CommitUse, ByMail!RollbackUse, Mail!RollbackUse, ByMail!Dropped, Mail!Dropped,
  ByMail!Send, Mail!Send, ByMail!Locked, Mail!Locked, ByMail!Unused, Mail!Unused,
  ByMail!Resting, Mail!Resting, ByMail!NoLink, Mail!NoLink, ByMail!NobodyWaits, Mail!NobodyWaits

LEMMA MailInvInit == ByMail!MailInit => MailInv
<1>1. MaxTries \in Nat
  BY BoundsAssumption
<1> QED
  BY <1>1, SameMailInit, Mail!MailIInit, Mail!PagesInvInit, Mail!CountedInit DEF MailInv

LEMMA MailInvStep == MailInv /\ [ByMail!MailNext]_mailVars => MailInv'
<1> SUFFICES ASSUME MailInv, [ByMail!MailNext]_mailVars PROVE MailInv'
  OBVIOUS
<1>1. MaxTries \in Nat
  BY BoundsAssumption
<1>2. Mail!MailNext \/ UNCHANGED Mail!mailVars
  <2>1. CASE ByMail!MailNext
    BY <2>1, SameMailNext
  <2>2. CASE UNCHANGED mailVars
    BY <2>2 DEF mailVars, Mail!mailVars
  <2> QED BY <2>1, <2>2
<1>3. Mail!MailIInv'
  BY <1>2, Mail!MailIStep DEF MailInv
<1>4. Mail!PagesInv' /\ Mail!Counted'
  BY <1>1, <1>2, <1>3, Mail!PagesInvStep, Mail!CountedStep DEF MailInv
<1> QED BY <1>3, <1>4 DEF MailInv

LEMMA MailInvFacts ==
  MailInv => ByMail!MailTypeOK /\ ByMail!LinksWorkOnce /\ ByMail!PagesTellTheTruth
<1> SUFFICES ASSUME MailInv
             PROVE  ByMail!MailTypeOK /\ ByMail!LinksWorkOnce /\ ByMail!PagesTellTheTruth
  OBVIOUS
<1>1. MaxTries \in Nat
  BY BoundsAssumption
<1>2. Mail!LinksWorkOnce /\ Mail!PagesTellTheTruth /\ Mail!MailTypeOK
  BY <1>1, Mail!MailFacts DEF MailInv
<1>3. ByMail!LinksWorkOnce
  BY <1>2 DEF Mail!LinksWorkOnce, ByMail!LinksWorkOnce, Mail!Unused, ByMail!Unused
<1>4. ByMail!PagesTellTheTruth
  BY <1>2 DEF Mail!PagesTellTheTruth, ByMail!PagesTellTheTruth
<1>5. ByMail!MailTypeOK
  BY <1>2 DEF Mail!MailTypeOK, ByMail!MailTypeOK, Mail!NobodyWaits, ByMail!NobodyWaits
<1> QED BY <1>3, <1>4, <1>5

-----------------------------------------------------------------------------
(* The stream of an answer.  Its invariant is proved where it is by itself.*)
Sse == INSTANCE SseProofs

LEMMA SameSymbols ==
  /\ InStream!LF = Sse!LF /\ InStream!CR = Sse!CR /\ InStream!Whole = Sse!Whole
  /\ InStream!NoFields = Sse!NoFields
BY DEF InStream!LF, Sse!LF, InStream!CR, Sse!CR, InStream!Whole, Sse!Whole,
       InStream!NoFields, Sse!NoFields

LEMMA SameTexts == \A names : InStream!TextOf(names) = Sse!TextOf(names)
<1>1. \A name : InStream!Frame(name) = Sse!Frame(name)
  BY SameSymbols DEF InStream!Frame, Sse!Frame
<1> QED BY <1>1, Zenon DEF InStream!TextOf, Sse!TextOf

LEMMA SameCut == \A text : InStream!Cut(text) = Sse!Cut(text)
BY Zenon DEF InStream!Cut, Sse!Cut, InStream!LF, Sse!LF

LEMMA SameLines ==
  /\ \A line : InStream!WithoutCR(line) = Sse!WithoutCR(line)
  /\ \A f : InStream!EmitCurrent(f) = Sse!EmitCurrent(f)
  /\ \A f, line : InStream!ProcessLine(f, line) = Sse!ProcessLine(f, line)
<1>1. \A line : InStream!WithoutCR(line) = Sse!WithoutCR(line)
  BY Zenon DEF InStream!WithoutCR, Sse!WithoutCR, InStream!CR, Sse!CR
<1>2. \A f : InStream!EmitCurrent(f) = Sse!EmitCurrent(f)
  BY Zenon DEF InStream!EmitCurrent, Sse!EmitCurrent, InStream!NoFields, Sse!NoFields
<1>3. \A f, line : InStream!ProcessLine(f, line) = Sse!ProcessLine(f, line)
  BY Zenon DEF InStream!ProcessLine, Sse!ProcessLine, InStream!EmitCurrent, Sse!EmitCurrent,
               InStream!NoFields, Sse!NoFields
<1> QED BY <1>1, <1>2, <1>3

LEMMA SameThrough == \A f, lines : InStream!Through(f, lines) = Sse!Through(f, lines)
BY Zenon DEF InStream!Through, Sse!Through, InStream!WithoutCR, Sse!WithoutCR, InStream!CR, Sse!CR,
   InStream!ProcessLine, Sse!ProcessLine, InStream!EmitCurrent, Sse!EmitCurrent,
   InStream!NoFields, Sse!NoFields

LEMMA SameParser ==
  /\ \A left, f, chunk : InStream!Pushed(left, f, chunk) = Sse!Pushed(left, f, chunk)
  /\ \A left, f : InStream!Flushed(left, f) = Sse!Flushed(left, f)
<1>1. \A left, f, chunk : InStream!Pushed(left, f, chunk) = Sse!Pushed(left, f, chunk)
  BY SameCut, SameThrough, Zenon DEF InStream!Pushed, Sse!Pushed, InStream!Consume, Sse!Consume
<1>2. \A left, f : InStream!Flushed(left, f) = Sse!Flushed(left, f)
  BY SameSymbols, SameCut, SameThrough, SameLines, Zenon DEF InStream!Flushed, Sse!Flushed
<1> QED BY <1>1, <1>2

LEMMA SameHear == \A h, events, stops : InStream!Hear(h, events, stops) = Sse!Hear(h, events, stops)
BY Zenon DEF InStream!Hear, Sse!Hear, InStream!ChatEvent, Sse!ChatEvent, InStream!Whole, Sse!Whole

LEMMA SameSseInit == InStream!SseInit => Sse!SseInit
BY SameSymbols, SameTexts, Zenon DEF InStream!SseInit, Sse!SseInit

LEMMA SameSseNext == InStream!SseNext => Sse!SseNext
<1>1. \A n : InStream!PushChunk(n) => Sse!PushChunk(n)
  BY SameParser, SameHear, Zenon DEF InStream!PushChunk, Sse!PushChunk
<1>2. InStream!CloseBody => Sse!CloseBody
  BY SameParser, SameHear, Zenon DEF InStream!CloseBody, Sse!CloseBody
<1> QED BY <1>1, <1>2 DEF InStream!SseNext, Sse!SseNext

LEMMA SameEvents == \A text : InStream!EventsOf(text) = Sse!EventsOf(text)
<1>1. \A s, some : InStream!Chosen(s, some) = Sse!Chosen(s, some)
  BY Zenon DEF InStream!Chosen, Sse!Chosen
<1>2. \A block, field : InStream!Values(block, field) = Sse!Values(block, field)
  BY <1>1, Zenon DEF InStream!Values, Sse!Values
<1>3. \A block : InStream!Said(block) = Sse!Said(block)
  BY <1>2, Zenon DEF InStream!Said, Sse!Said
<1>4. \A lines : InStream!Blanks(lines) = Sse!Blanks(lines)
  BY <1>1, Zenon DEF InStream!Blanks, Sse!Blanks
<1>5. \A lines, n : InStream!Block(lines, n) = Sse!Block(lines, n)
  BY <1>4, Zenon DEF InStream!Block, Sse!Block
<1>6. \A said : InStream!EventOf(said) = Sse!EventOf(said)
  BY Zenon DEF InStream!EventOf, Sse!EventOf
<1>7. \A lines : InStream!EventsIn(lines) = Sse!EventsIn(lines)
  <2> TAKE lines
  <2> DEFINE s == [n \in DOMAIN Sse!Blanks(lines) |-> Sse!Said(Sse!Block(lines, n))]
             t == [n \in DOMAIN InStream!Blanks(lines) |-> InStream!Said(InStream!Block(lines, n))]
  <2>1. t = s
    BY <1>3, <1>4, <1>5, Zenon
  <2>2. Sse!EventsIn(lines) =
          Sse!Chosen([n \in DOMAIN s |-> Sse!EventOf(s[n])], {n \in DOMAIN s : s[n] # Sse!NoFields})
    BY Zenon DEF Sse!EventsIn
  <2>3. InStream!EventsIn(lines) =
          InStream!Chosen([n \in DOMAIN t |-> InStream!EventOf(t[n])],
                          {n \in DOMAIN t : t[n] # InStream!NoFields})
    BY Zenon DEF InStream!EventsIn
  <2> HIDE DEF s, t
  <2>4. [n \in DOMAIN t |-> InStream!EventOf(t[n])] = [n \in DOMAIN s |-> Sse!EventOf(s[n])]
    BY <1>6, <2>1, Zenon
  <2>5. {n \in DOMAIN t : t[n] # InStream!NoFields} = {n \in DOMAIN s : s[n] # Sse!NoFields}
    BY SameSymbols, <2>1, Zenon
  <2> QED BY <1>1, <2>2, <2>3, <2>4, <2>5, Zenon
<1> QED
  <2> TAKE text
  <2>1. InStream!Cut(text).lines = Sse!Cut(text).lines
    BY SameCut
  <2>2. [i \in DOMAIN InStream!Cut(text).lines |-> InStream!WithoutCR(InStream!Cut(text).lines[i])] =
        [i \in DOMAIN Sse!Cut(text).lines |-> Sse!WithoutCR(Sse!Cut(text).lines[i])]
    BY SameLines, <2>1, Zenon
  <2> QED BY <1>7, <2>2, Zenon DEF InStream!EventsOf, Sse!EventsOf

(* The symbols of the bodies *)
StreamSymbols == Sse!Symbols \cup {":", "id:", "7", "\r"}
SseInv == Sse!SseIInv(StreamSymbols)

LEMMA StreamTexts == Sse!TextsOK(StreamSymbols)
<1>1. Sse!Symbols \subseteq StreamSymbols
  BY DEF StreamSymbols
<1>2. Texts \subseteq Seq(StreamSymbols)
  BY DEF Texts, StreamSymbols, Sse!Symbols, Sse!EventNames, Sse!LF
<1>3. \A names \in Answers : Sse!AnswerOK(names)
  <2>1. Sse!AnswerOK(<<"conversation", "token", "token", "completed">>)
    <3> DEFINE names == <<"conversation", "token", "token", "completed">>
    <3>1. names \in Seq(Sse!EventNames) /\ Len(names) = 4
      BY DEF Sse!EventNames
    <3>2. names[1] = "conversation" /\ names[2] = "token" /\ names[3] = "token"
      OBVIOUS
    <3> HIDE DEF names
    <3>3. Sse!AnswerOK(names)
      BY <3>1, <3>2 DEF Sse!AnswerOK
    <3> QED BY <3>3 DEF names
  <2>2. \A last \in {"error", "heartbeat"} : Sse!AnswerOK(<<"token", last>>)
    <3> TAKE last \in {"error", "heartbeat"}
    <3> DEFINE names == <<"token", last>>
    <3>1. names \in Seq(Sse!EventNames) /\ Len(names) = 2 /\ names[1] = "token"
      BY DEF Sse!EventNames
    <3> HIDE DEF names
    <3>2. Sse!AnswerOK(names)
      BY <3>1 DEF Sse!AnswerOK
    <3> QED BY <3>2 DEF names
  <2> QED BY <2>1, <2>2 DEF Answers
<1> QED BY <1>1, <1>2, <1>3 DEF Sse!TextsOK

LEMMA SseInvInit == InStream!SseInit => SseInv
BY SameSseInit, StreamTexts, Sse!SseStart DEF SseInv

LEMMA SseInvStep == SseInv /\ [InStream!SseNext]_sseVars => SseInv'
<1>1. CASE SseInv /\ InStream!SseNext
  BY <1>1, SameSseNext, StreamTexts, Sse!SseStep DEF SseInv
<1>2. CASE SseInv /\ UNCHANGED sseVars
  BY <1>2, Sse!SseStay DEF SseInv, sseVars, Sse!sseVars
<1> QED BY <1>1, <1>2

LEMMA SseInvFacts == SseInv => InStream!ParsedAsWhole /\ InStream!ReadAsSent
<1> SUFFICES ASSUME SseInv PROVE InStream!ParsedAsWhole /\ InStream!ReadAsSent
  OBVIOUS
<1>1. Sse!ParsedAsWhole /\ Sse!ReadAsSent
  BY StreamTexts, Sse!AsWhole, Sse!AsSentRead DEF SseInv
<1>2. InStream!ParsedAsWhole
  BY <1>1, SameEvents, SameSymbols, Zenon DEF Sse!ParsedAsWhole, InStream!ParsedAsWhole
<1>3. InStream!ReadAsSent
  BY <1>1, Zenon DEF Sse!ReadAsSent, InStream!ReadAsSent, Sse!Cardinality, InStream!Cardinality
<1> QED BY <1>2, <1>3

-----------------------------------------------------------------------------
(* All machines *)

(* The machine that a behaviour is about has its invariant. *)
WebIInv ==
  /\ machine = "page" => PageIInv
  /\ machine = "form" => FormIInv
  /\ machine = "address" => AddressIInv
  /\ machine = "list" => ListIInv
  /\ machine = "tool" => ToolIInv
  /\ machine = "log" => LogIInv
  /\ machine = "stream" => SseInv
  /\ machine = "mail" => MailInv

LEMMA WebIInit == MCInit => WebIInv
BY PageIInit, FormIInit, AddressIInit, ListIInit, ToolIInit, LogIInit, SseInvInit, MailInvInit
   DEF MCInit, WebIInv

(* A step is one of the machine the behaviour is about, or of no machine. *)
LEMMA OwnStep ==
  ASSUME [MCNext]_vars
  PROVE  /\ machine' = machine
         /\ machine = "page" => [OnPage!PageNext]_pageVars
         /\ machine = "form" => [InForm!FormNext]_formVars
         /\ machine = "address" => [AtAddress!ListNext]_urlVars
         /\ machine = "list" => [InList!PagingNext]_listVars
         /\ machine = "tool" => [InTool!ToolNext]_toolVars
         /\ machine = "log" => [InLog!LogNext]_logVars
         /\ machine = "stream" => [InStream!SseNext]_sseVars
         /\ machine = "mail" => [ByMail!MailNext]_mailVars
<1>1. CASE UNCHANGED vars
  BY <1>1 DEF vars
<1>2. CASE MCNext
  BY <1>2 DEF MCNext, Still
<1> QED BY <1>1, <1>2

LEMMA WebIStep == WebIInv /\ [MCNext]_vars => WebIInv'
BY OwnStep, PageIStep, FormIStep, AddressIStep, ListIStep, ToolIStep, LogIStep, SseInvStep, MailInvStep
   DEF WebIInv

LEMMA WebInvariance == Spec => []WebIInv
BY WebIInit, WebIStep, PTL DEF Spec

(* What the tables of keys say holds at run time: once a mutation of the   *)
(* user was acknowledged, no screen takes for current an answer from       *)
(* before it (the onSuccess of the hooks, invalidateQueries), but for the  *)
(* queries that Untold lists.                                              *)
THEOREM OwnWritesAreShown == Spec => []OwnWritesShown
<1>1. WebIInv => OwnWritesShown
  BY PageFacts DEF WebIInv, OwnWritesShown
<1> QED BY WebInvariance, <1>1, PTL

(* A dialog that was opened once does its operation once, however often    *)
(* its button is pressed and its call fails: isPending disables it, and    *)
(* what its handler does after the call closes it.                         *)
THEOREM DialogsSendOnce == Spec => []SentOnce
<1>1. WebIInv => SentOnce
  BY PageFacts DEF WebIInv, SentOnce
<1> QED BY WebInvariance, <1>1, PTL

(* The backend refuses what the interface offered only to a user whose     *)
(* role has changed since it read the role (rbac.ts against rbac.py), but  *)
(* for the operations and queries that Unforeseen lists.                   *)
THEOREM OffersAreGranted == Spec => RefusalsAreNews
<1>1. WebIInv /\ [MCNext]_vars => [machine = "page" => OnPage!RefusalIsNews]_vars
  <2> SUFFICES ASSUME WebIInv, MCNext, machine = "page" PROVE OnPage!RefusalIsNews
    BY DEF vars
  <2>1. OnPage!PageNext
    BY DEF MCNext, Still
  <2> QED BY <2>1, RefusalFacts DEF WebIInv
<1> QED BY WebInvariance, <1>1, PTL DEF RefusalsAreNews, Spec

(* What the machines keep has its type: no query is ahead of the database, *)
(* a form that stays open is open, a list is at one of its pages, and the  *)
(* task that is polled for is that of a log sent in the background.        *)
THEOREM WebTypeCorrect == Spec => []WebTypeOK
<1>1. WebIInv => WebTypeOK
  BY PageFacts, FormFacts, ListFacts, AddressFacts, ToolFacts, LogFacts, MailInvFacts
     DEF WebIInv, WebTypeOK
<1> QED BY WebInvariance, <1>1, PTL

(* What the user had accepted in a form, and nobody has changed since, is  *)
(* what the page shows once what it reads has arrived: the mutation's      *)
(* onSuccess and the invalidation that follows it (organization-settings,  *)
(* rule-dialog, usage-page, profile-settings).                             *)
THEOREM AcceptedFormsShown == Spec => []AcceptedIsShown
<1>1. WebIInv => AcceptedIsShown
  BY FormFacts DEF WebIInv, AcceptedIsShown
<1> QED BY WebInvariance, <1>1, PTL

(* A submission never takes back, in a field its user left alone, what the *)
(* same user had accepted before, unless the form had been told that the   *)
(* record is older.                                                        *)
THEOREM OwnEditsKept == Spec => OwnEditKept
<1>1. WebIInv /\ [MCNext]_vars => [machine = "form" => InForm!KeepsOwnEdit]_vars
  <2> SUFFICES ASSUME WebIInv, MCNext, machine = "form" PROVE InForm!KeepsOwnEdit
    BY DEF vars
  <2>1. InForm!FormNext
    BY DEF MCNext, Still
  <2> QED BY <2>1, FormFacts DEF WebIInv
<1> QED BY WebInvariance, <1>1, PTL DEF OwnEditKept, Spec

(* The list of artifacts, once nothing is on its way, is the one that its  *)
(* address names, through typing, paging, and going back and forth         *)
(* (artifacts-list.tsx, its two effects and the debounce), unless a change *)
(* was overtaken.                                                          *)
THEOREM ListsFollowAddress == Spec => []ListIsAddress
<1>1. WebIInv => ListIsAddress
  BY AddressFacts DEF WebIInv, ListIsAddress
<1> QED BY WebInvariance, <1>1, PTL

(* A list shows "none" only for a list that is empty, or one that got      *)
(* shorter or another filter while a later page was shown (pagination and  *)
(* the empty states of the list pages).                                    *)
THEOREM EmptyListsAreEmpty == Spec => []EmptyMeansNone
<1>1. WebIInv => EmptyMeansNone
  BY ListFacts DEF WebIInv, EmptyMeansNone
<1> QED BY WebInvariance, <1>1, PTL

(* What a generator shows was saved to, and judged by the packs of, the    *)
(* workspace its form had when it was asked, whatever the form became      *)
(* while the request was on its way.                                       *)
THEOREM MadeAsTheFormAsked == Spec => []GeneratedAsAsked
<1>1. WebIInv => GeneratedAsAsked
  BY ToolFacts DEF WebIInv, GeneratedAsAsked
<1> QED BY WebInvariance, <1>1, PTL

(* The analysis that is shown or polled for is that of the last log sent,  *)
(* or of an upload, and never of a workspace left since (log-analyzer.tsx, *)
(* handleSubmit and the reset on a change of the workspace).               *)
THEOREM ShownAnalysisIsCurrent == Spec => []AnalysisIsCurrent
<1>1. WebIInv => AnalysisIsCurrent
  BY LogFacts DEF WebIInv, AnalysisIsCurrent
<1> QED BY WebInvariance, <1>1, PTL

(* An answer is read the same however it is cut into chunks (parse-sse.ts, *)
(* "Incremental SSE parser for fragmented text/event-stream chunks"), and  *)
(* of one that is cut short the page has what arrived: its whole tokens,   *)
(* and its end only if that arrived (readChatSseBody).                     *)
THEOREM AnswersAreRead == Spec => []AnswerRead
<1>1. WebIInv => AnswerRead
  BY SseInvFacts DEF WebIInv, AnswerRead
<1> QED BY WebInvariance, <1>1, PTL

(* A mailed link is applied once at most, and two links work at the same   *)
(* time only if the requests for them overlapped.                          *)
THEOREM LinksOfMailWorkOnce == Spec => []LinksWorkOnce
<1>1. WebIInv => LinksWorkOnce
  BY MailInvFacts DEF WebIInv, LinksWorkOnce
<1> QED BY WebInvariance, <1>1, PTL

(* The page of a mailed link is right about it, unless an answer was lost  *)
(* or the link was opened again.                                           *)
THEOREM LinkPagesAreTrue == Spec => []PagesTellTheTruth
<1>1. WebIInv => PagesTellTheTruth
  BY MailInvFacts DEF WebIInv, PagesTellTheTruth
<1> QED BY WebInvariance, <1>1, PTL
=============================================================================
