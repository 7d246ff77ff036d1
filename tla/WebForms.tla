------------------------------ MODULE WebForms ------------------------------
(***************************************************************************)
(* A form over a record of the backend: filled from the cached answer,     *)
(* typed in, submitted as a patch, and filled again, while others write    *)
(* the same record and answers come late (the edit dialogs and the forms   *)
(* of organizations, policies, artifacts, providers, usage and settings).  *)
(*                                                                         *)
(* A record has a field that must have a text and one that may be blank.   *)
(***************************************************************************)
EXTENDS Naturals, FiniteSets, TLC

CONSTANTS
  Forms,        \* the forms that are followed: names in DOMAIN FormTable
  FormTexts,    \* texts of the field that must have one
  MoreTexts,    \* texts of the field that may be blank
  MaxEdits      \* submissions, and writes of others

VARIABLES
  form,       \* the form of this behaviour
  record,     \* the backend's record: field -> text
  owner,      \* field -> who set it last: "others", "user", or "unsure"
  cached,     \* the answer the form is filled from
  old,        \* it has been invalidated
  asked,      \* the request for it: "no", "sent" or "answered"
  answer,     \* the answer on its way
  opened,     \* the dialog is open, or the page shows the form
  base,       \* what the form was last filled with
  behind,     \* it was filled from an answer known to be out of date
  draft,      \* what it shows
  touched,    \* the fields that were typed in since
  patch,      \* <<>> or the submission on its way; alone: nobody wrote meanwhile
  accepted,   \* <<>> or what the form showed when it was last accepted
  edits       \* how many of MaxEdits have been made

formVars ==
  <<form, record, owner, cached, old, asked, answer, opened, base, behind, draft, touched, patch, accepted, edits>>

Fields == {"must", "may"}
Blank == "blank"
Records == [must : FormTexts, may : MoreTexts \cup {Blank}]

-----------------------------------------------------------------------------
(* The forms.  refills: a changed answer fills the form again while it is  *)
(* open, else only opening it does.  after: an accepted dialog "closes";   *)
(* "stays": a form of a page; "waits": it is pending until the record has  *)
(* been read again.  blank: what is sent for a field left blank, and unset *)
(* what the backend makes of it.                                           *)

(* OrganizationFormDialog: a blank slug is not sent. *)
OrganizationForm == [refills |-> TRUE, after |-> "closes", blank |-> "nothing", unset |-> "kept"]

(* description || null, and the repositories skip a null. *)
PackForm == [refills |-> TRUE, after |-> "closes", blank |-> "null", unset |-> "kept"]
ArtifactForm == [refills |-> TRUE, after |-> "closes", blank |-> "null", unset |-> "kept"]

(* The row is kept as it was when its dialog was opened. *)
RuleForm == [refills |-> FALSE, after |-> "closes", blank |-> "null", unset |-> "kept"]
ProviderForm == [refills |-> FALSE, after |-> "closes", blank |-> "null", unset |-> "kept"]

(* A limit left blank is null, which changes nothing; clearing is a switch.*)
UsageForm == [refills |-> TRUE, after |-> "stays", blank |-> "null", unset |-> "kept"]

(* model_dump(exclude_unset=True): a null that was sent is written. *)
Profile == [refills |-> TRUE, after |-> "waits", blank |-> "null", unset |-> "cleared"]

FormTable == [organization |-> OrganizationForm, pack |-> PackForm, rule |-> RuleForm,
              artifact |-> ArtifactForm, provider |-> ProviderForm, usage |-> UsageForm,
              profile |-> Profile]

F == FormTable[form]

FormInit ==
  /\ form \in Forms
  /\ record \in Records
  /\ owner = [f \in Fields |-> "others"]
  /\ cached = record /\ old = FALSE /\ asked = "no" /\ answer = record
  /\ opened = (F.after # "closes")
  /\ base = record /\ behind = FALSE /\ draft = record /\ touched = {}
  /\ patch = <<>>
  /\ accepted = <<>>
  /\ edits = 0

-----------------------------------------------------------------------------
(* form.reset with the cached answer *)
Fill(values, late) == base' = values /\ draft' = values /\ touched' = {} /\ behind' = late

(* A slip a change of this code could make, for the run to reject: a       *)
(* dialog is opened with what was left in it.                              *)
OpenAsLeft ==
  /\ ~opened /\ opened' = TRUE
  /\ base' = cached /\ touched' = {} /\ behind' = old
  /\ UNCHANGED <<form, record, owner, cached, old, asked, answer, draft, patch, accepted, edits>>

Open ==
  /\ ~opened /\ opened' = TRUE
  /\ Fill(cached, old)
  /\ UNCHANGED <<form, record, owner, cached, old, asked, answer, patch, accepted, edits>>

Type(f, text) ==
  /\ opened /\ draft[f] # text /\ patch = <<>>
  /\ draft' = [draft EXCEPT ![f] = text]
  /\ draft' \in Records
  /\ touched' = touched \cup {f}
  /\ UNCHANGED <<form, record, owner, cached, old, asked, answer, opened, base, behind, patch, accepted, edits>>

(* Slips a change of this code could make, for the run to reject: a page   *)
(* hides its form, and (below) blank fields are left out of a patch.       *)
Hide ==
  /\ opened
  /\ opened' = FALSE
  /\ UNCHANGED <<form, record, owner, cached, old, asked, answer, base, behind, draft, touched, patch, accepted, edits>>

Close ==
  /\ opened /\ F.after = "closes"
  /\ opened' = FALSE
  /\ UNCHANGED <<form, record, owner, cached, old, asked, answer, base, behind, draft, touched, patch, accepted, edits>>

(* The handler of the form; isPending and isDirty disable its button. *)
SubmitForm ==
  /\ opened /\ patch = <<>> /\ edits < MaxEdits
  /\ F.after = "waits" => draft # base
  /\ patch' = <<[step |-> "sent", shown |-> draft, touched |-> touched, behind |-> behind \/ old, alone |-> TRUE]>>
  /\ edits' = edits + 1
  /\ UNCHANGED <<form, record, owner, cached, old, asked, answer, opened, base, behind, draft, touched, accepted>>

FilledOnly(shown) == [f \in {g \in Fields : shown[g] # Blank} |-> shown[f]]

(* The body of a patch: every field of the form, a blank one as the form   *)
(* sends it *)
Body(shown) ==
  [f \in {g \in Fields : shown[g] # Blank \/ F.blank = "null"} |->
     IF shown[f] = Blank THEN "null" ELSE shown[f]]

(* What the services make of it *)
Patched(r, body) ==
  [f \in Fields |-> IF f \notin DOMAIN body THEN r[f]
                    ELSE IF body[f] # "null" THEN body[f]
                    ELSE IF F.unset = "cleared" THEN Blank ELSE r[f]]

Sent == patch[1]

ServeForm ==
  /\ patch # <<>> /\ Sent.step = "sent"
  /\ record' = Patched(record, Body(Sent.shown))
  /\ owner' = [f \in Fields |-> IF record'[f] = record[f] THEN owner[f]
                              ELSE IF f \in Sent.touched THEN "unsure" ELSE "others"]
  /\ patch' = [patch EXCEPT ![1].step = "done"]
  /\ UNCHANGED <<form, cached, old, asked, answer, opened, base, behind, draft, touched, accepted, edits>>

(* Who set a field is settled when the answer comes, or does not. *)
Settled(by) == [f \in Fields |-> IF owner[f] = "unsure" THEN by ELSE owner[f]]

(* The success is told to the query, which asks again; the dialog closes,  *)
(* or the form goes on being pending.                                      *)
Accept ==
  /\ patch # <<>> /\ Sent.step = "done"
  /\ accepted' = IF Sent.alone THEN <<Sent.shown>> ELSE <<>>
  /\ owner' = Settled("user")
  /\ old' = TRUE /\ asked' = "sent"
  /\ patch' = IF F.after = "waits" THEN [patch EXCEPT ![1].step = "waiting"] ELSE <<>>
  /\ opened' = (opened /\ F.after # "closes")
  /\ UNCHANGED <<form, record, cached, answer, base, behind, draft, touched, edits>>

(* An error, or no answer: the dialog stays as it is. *)
Decline ==
  /\ patch # <<>> /\ Sent.step \in {"sent", "done"}
  /\ patch' = <<>>
  /\ owner' = Settled("others")
  /\ accepted' = IF Sent.step = "done" THEN <<>> ELSE accepted
  /\ UNCHANGED <<form, record, cached, old, asked, answer, opened, base, behind, draft, touched, edits>>

-----------------------------------------------------------------------------
(* The query *)

AskRecord ==
  /\ asked = "no"
  /\ asked' = "sent"
  /\ UNCHANGED <<form, record, owner, cached, old, answer, opened, base, behind, draft, touched, patch, accepted, edits>>

ServeRecord ==
  /\ asked = "sent"
  /\ asked' = "answered" /\ answer' = record
  /\ UNCHANGED <<form, record, owner, cached, old, opened, base, behind, draft, touched, patch, accepted, edits>>

Settle == patch' = IF patch # <<>> /\ Sent.step = "waiting" THEN <<>> ELSE patch

(* An answer that has changed fills an open form that follows it; a form   *)
(* that waits for it is pending no longer.                                 *)
TakeRecord ==
  /\ asked = "answered"
  /\ cached' = answer /\ old' = FALSE /\ asked' = "no"
  /\ IF opened /\ F.refills /\ answer # cached THEN Fill(answer, FALSE) ELSE UNCHANGED <<base, behind, draft, touched>>
  /\ Settle
  /\ UNCHANGED <<form, record, owner, answer, opened, accepted, edits>>

LoseRecord ==
  /\ asked # "no"
  /\ asked' = "no" /\ old' = TRUE
  /\ Settle
  /\ UNCHANGED <<form, record, owner, cached, answer, opened, base, behind, draft, touched, accepted, edits>>

Others ==
  /\ edits < MaxEdits
  /\ \E r \in Records : r # record /\ record' = r
  /\ owner' = [f \in Fields |-> IF record'[f] # record[f] THEN "others" ELSE owner[f]]
  /\ accepted' = <<>>
  /\ patch' = [i \in DOMAIN patch |-> [patch[i] EXCEPT !.alone = FALSE]]
  /\ edits' = edits + 1
  /\ UNCHANGED <<form, cached, old, asked, answer, opened, base, behind, draft, touched>>

FormNext ==
  \/ Open \/ Close \/ SubmitForm \/ ServeForm \/ Accept \/ Decline
  \/ \E f \in Fields, text \in FormTexts \cup MoreTexts \cup {Blank} : Type(f, text)
  \/ AskRecord \/ ServeRecord \/ TakeRecord \/ LoseRecord
  \/ Others

-----------------------------------------------------------------------------
(* Properties                                                              *)

(* The type invariant.  The form of a page is always shown, and only the   *)
(* profile is pending while its record is read.                            *)
FormsTypeOK ==
  /\ form \in Forms
  /\ {record, cached, answer, base, draft} \subseteq Records
  /\ owner \in [Fields -> {"others", "unsure", "user"}]
  /\ asked \in {"no", "sent", "answered"}
  /\ old \in BOOLEAN /\ behind \in BOOLEAN /\ touched \subseteq Fields
  /\ F.after # "closes" => opened
  /\ patch # <<>> =>
       /\ Sent.step \in {"sent", "done", "waiting"} /\ Sent.shown \in Records /\ Sent.touched \subseteq Fields
       /\ Sent.step = "waiting" => F.after = "waits" /\ asked # "no"
  /\ accepted # <<>> => accepted[1] \in Records
  /\ edits \in 0..MaxEdits

(* What a form showed when it was accepted is what the page shows once its *)
(* answer is current again, if nobody else has written: the form, the body *)
(* of its patch, the service and the query agree on every field.  A field  *)
(* that a service does not clear keeps its text when it is left blank.     *)
AcceptedIsShown ==
  accepted # <<>> /\ patch = <<>> /\ ~old /\ asked = "no" =>
    \A f \in Fields :
      \/ cached[f] = accepted[1][f]
      \/ accepted[1][f] = Blank /\ F.unset = "kept"

(* A submission does not undo what the same user had accepted before, in a *)
(* field that was not touched since, unless the form was opened or sent    *)
(* while the answer to show was known to be out of date; the profile,      *)
(* whose handler waits for it, is out of date only if reading it failed.   *)
KeepsOwnEdit ==
  patch # <<>> /\ patch' # <<>> /\ Sent.step = "sent" /\ Sent'.step = "done" =>
    \A f \in Fields :
      owner[f] = "user" /\ f \notin Sent.touched /\ record'[f] # record[f] => Sent.behind
OwnEditKept == [][KeepsOwnEdit]_formVars
=============================================================================
