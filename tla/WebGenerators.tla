---------------------------- MODULE WebGenerators ----------------------------
(***************************************************************************)
(* The generators and the review of a configuration: a form with options   *)
(* to save what is made and to judge it by policy packs, the workspace     *)
(* that is selected meanwhile, and what the backend does with the request  *)
(* (components/generators, components/reviews, features/generators,        *)
(* generator_artifact_helper.py, policy_service.py).                       *)
(***************************************************************************)
EXTENDS Naturals, FiniteSets

CONSTANTS
  Tools,      \* the forms that are followed: names in DOMAIN ToolTable
  ToolOrgs,   \* organizations
  Packs,      \* their policy packs: <<organization, name>>
  MaxSteps    \* acts of the user and of others

VARIABLES
  tool,      \* the form of this behaviour
  makes,     \* what it is set to make, or to review
  writers,   \* organizations where the user has artifact.write
  active,    \* the packs that are active
  known,     \* those of them that the form has read
  workspace,     \* the selected workspace, an organization or "none"
  ticks,     \* the options: [org, save, named, validate, ids]
  request,   \* <<>> or the call on its way
  outcome,   \* <<>> or what is shown: [asked, evaluated, as, saved]
  steps      \* how many of MaxSteps have been made

toolVars == <<tool, makes, writers, active, known, workspace, ticks, request, outcome, steps>>

-----------------------------------------------------------------------------
(* The forms: what each makes, whether it can be saved, and the kind of    *)
(* resource whose rules are applied to it (artifact_type of its service    *)
(* and _config_type_for_artifact).                                         *)

DockerfileForm == [makes |-> {"dockerfile"}, saves |-> TRUE, judged |-> [dockerfile |-> "dockerfile"]]
KubernetesForm == [makes |-> {"kubernetes"}, saves |-> TRUE, judged |-> [kubernetes |-> "kubernetes"]]
PipelineForm ==
  LET platforms == {"github-actions", "gitlab-ci", "jenkins"}
  IN [makes |-> platforms, saves |-> TRUE, judged |-> [p \in platforms |-> "github-actions"]]
CommandForm == [makes |-> {"shell-command"}, saves |-> TRUE, judged |-> [c \in {"shell-command"} |-> "shell-command"]]
ReviewWorkspace ==
  LET types == {"dockerfile", "gitlab-ci"}
  IN [makes |-> types, saves |-> FALSE, judged |-> [t \in types |-> t]]

ToolTable == [dockerfile |-> DockerfileForm, kubernetes |-> KubernetesForm,
              pipeline |-> PipelineForm, command |-> CommandForm, review |-> ReviewWorkspace]

T == ToolTable[tool]

Of(packs, org) == {p \in packs : p[1] = org}

ToolInit ==
  /\ tool \in Tools
  /\ makes \in T.makes
  /\ writers \in SUBSET ToolOrgs
  /\ active = Packs
  /\ known = {}
  /\ workspace \in ToolOrgs \cup {"none"}
  /\ ticks = [org |-> workspace, save |-> FALSE, named |-> FALSE, validate |-> FALSE, ids |-> {}]
  /\ request = <<>> /\ outcome = <<>>
  /\ steps = 0

Step == steps < MaxSteps /\ steps' = steps + 1

-----------------------------------------------------------------------------
(* The options                                                             *)

(* A slip a change of this code could make, for the run to reject: the     *)
(* form is not told of the workspace.                                      *)
SwitchOnly(s) ==
  /\ s # workspace /\ Step
  /\ workspace' = s
  /\ known' = {p \in known : p[1] # workspace}
  /\ UNCHANGED <<tool, makes, writers, active, ticks, request, outcome>>

(* The switcher, and the effect that sets organization_id; what was ticked *)
(* stays.                                                                  *)
SwitchSpace(s) ==
  /\ s # workspace /\ Step
  /\ workspace' = s
  /\ known' = {p \in known : p[1] # workspace}
  /\ ticks' = [ticks EXCEPT !.org = s]
  /\ UNCHANGED <<tool, makes, writers, active, request, outcome>>

(* The permission and the workspace allow the box; the name is a field     *)
(* that it shows.                                                          *)
TickSave(named) ==
  /\ T.saves /\ workspace \in writers /\ Step
  /\ ticks' = IF ticks.save /\ named # ticks.named THEN [ticks EXCEPT !.named = named]
              ELSE [ticks EXCEPT !.save = ~@, !.named = named, !.org = workspace]
  /\ UNCHANGED <<tool, makes, writers, active, known, workspace, request, outcome>>

TickPolicies ==
  /\ workspace # "none" /\ Step
  /\ ticks' = [ticks EXCEPT !.validate = ~@, !.org = workspace]
  /\ UNCHANGED <<tool, makes, writers, active, known, workspace, request, outcome>>

TickPack(p) ==
  /\ ticks.validate /\ p \in Of(known, workspace) /\ Step
  /\ ticks' = [ticks EXCEPT !.ids = IF p \in @ THEN @ \ {p} ELSE @ \cup {p}]
  /\ UNCHANGED <<tool, makes, writers, active, known, workspace, request, outcome>>

(* The active ones of the packs of the workspace are read: at once for a   *)
(* generator, for a review when its box is ticked.                         *)
ReadPacks ==
  /\ workspace # "none" /\ (T.saves \/ ticks.validate)
  /\ Of(known, workspace) # Of(active, workspace)
  /\ known' = {p \in known : p[1] # workspace} \cup Of(active, workspace)
  /\ UNCHANGED <<tool, makes, writers, active, workspace, ticks, request, outcome, steps>>

-----------------------------------------------------------------------------
(* The call                                                                *)

(* refineSaveOptions *)
Valid ==
  /\ ticks.save => ticks.named /\ ticks.org # "none"
  /\ T.saves /\ ticks.validate => ticks.org # "none"

(* toSavePayload; a review sends the selected workspace and the packs only *)
(* with its box ticked.                                                    *)
Payload ==
  IF T.saves THEN [org |-> ticks.org, save |-> ticks.save, validate |-> ticks.validate, ids |-> ticks.ids]
  ELSE [org |-> IF ticks.validate THEN workspace ELSE "none", save |-> FALSE, validate |-> ticks.validate,
        ids |-> IF ticks.validate THEN ticks.ids ELSE {}]

(* onSubmit of the form, and Regenerate of its output *)
SubmitTool ==
  /\ request = <<>> /\ Valid /\ Step
  /\ request' = <<[body |-> Payload, asked |-> [ticks EXCEPT !.org = workspace],
                  step |-> "sent", made |-> <<>>]>>
  /\ UNCHANGED <<tool, makes, writers, active, known, workspace, ticks, outcome>>

(* evaluate_packs judges by the packs of the request, which must all be    *)
(* active and of the organization.                                         *)
Evaluates(body) == body.validate /\ body.org # "none" /\ body.ids # {}
EvaluatePacks(body) == body.ids \subseteq Of(active, body.org)

(* apply_generator_policies_and_save, and review: what is found may be     *)
(* critical, and then nothing is saved.                                    *)
ServeTool ==
  /\ request # <<>> /\ request[1].step = "sent"
  /\ LET body == request[1].body
         fine == /\ Evaluates(body) => EvaluatePacks(body)
                 /\ body.save => body.org \in writers
         made == [asked |-> request[1].asked,
                  evaluated |-> IF Evaluates(body) THEN body.ids ELSE {},
                  as |-> T.judged[makes],
                  saved |-> IF body.save THEN body.org ELSE "none"]
     IN \/ fine /\ request' = [request EXCEPT ![1].step = "done", ![1].made = <<made>>]
        \/ /\ ~fine \/ (Evaluates(body) /\ body.save)
           /\ request' = [request EXCEPT ![1].step = "done"]
  /\ UNCHANGED <<tool, makes, writers, active, known, workspace, ticks, outcome, steps>>

(* The answer arrives: what was made is shown, a refusal is a message.     *)
TakeOutcome ==
  /\ request # <<>> /\ request[1].step = "done"
  /\ outcome' = IF request[1].made = <<>> THEN outcome ELSE request[1].made
  /\ request' = <<>>
  /\ UNCHANGED <<tool, makes, writers, active, known, workspace, ticks, steps>>

LoseOutcome ==
  /\ request # <<>>
  /\ request' = <<>>
  /\ UNCHANGED <<tool, makes, writers, active, known, workspace, ticks, outcome, steps>>

Clear ==
  /\ T.saves /\ outcome # <<>>
  /\ outcome' = <<>>
  /\ UNCHANGED <<tool, makes, writers, active, known, workspace, ticks, request, steps>>

(* Others deactivate a pack, or change the user's role. *)
Deactivate(p) ==
  /\ p \in active /\ Step
  /\ active' = active \ {p}
  /\ UNCHANGED <<tool, makes, writers, known, workspace, ticks, request, outcome>>

ChangeWriter(org) ==
  /\ Step
  /\ writers' = IF org \in writers THEN writers \ {org} ELSE writers \cup {org}
  /\ UNCHANGED <<tool, makes, active, known, workspace, ticks, request, outcome>>

ToolNext ==
  \/ \E s \in ToolOrgs \cup {"none"} : SwitchSpace(s)
  \/ \E named \in BOOLEAN : TickSave(named)
  \/ TickPolicies \/ ReadPacks
  \/ \E p \in Packs : TickPack(p) \/ Deactivate(p)
  \/ SubmitTool \/ ServeTool \/ TakeOutcome \/ LoseOutcome \/ Clear
  \/ \E org \in ToolOrgs : ChangeWriter(org)

-----------------------------------------------------------------------------
(* Properties                                                              *)

(* The type invariant. *)
ToolsTypeOK ==
  /\ tool \in Tools /\ makes \in T.makes
  /\ writers \subseteq ToolOrgs /\ active \subseteq Packs /\ known \subseteq Packs
  /\ workspace \in ToolOrgs \cup {"none"}
  /\ ticks.ids \subseteq Packs /\ ticks.save \in BOOLEAN /\ ticks.validate \in BOOLEAN
  /\ ticks.save => T.saves
  /\ steps \in 0..MaxSteps

(* save-options-fields.tsx "persist the result as an artifact and validate *)
(* against org policy packs": what is shown was saved where it was asked   *)
(* to be, in the workspace selected when it was sent, and judged by the    *)
(* packs that were ticked then, all of that workspace, and by the rules    *)
(* for what it is.  Two things the code lets happen: without a pack        *)
(* nothing is judged, and a pipeline of any platform is judged as GitHub   *)
(* Actions.                                                                *)
GeneratedAsAsked ==
  outcome # <<>> =>
    LET made == outcome[1]
        asked == made.asked
    IN /\ made.saved = IF asked.save THEN asked.org ELSE "none"
       /\ made.evaluated = IF asked.validate /\ asked.org # "none" THEN asked.ids ELSE {}
       /\ made.evaluated \subseteq Of(Packs, asked.org)
       /\ made.as = makes \/ tool = "pipeline"

(* save-options-fields.tsx "Leave empty to use all active packs for the    *)
(* organization": a result that was to be judged, with no pack ticked, has *)
(* been judged by some, if the organization has any.                       *)
EmptyMeansAll ==
  outcome # <<>> =>
    LET asked == outcome[1].asked
    IN asked.validate /\ asked.ids = {} /\ Of(active, asked.org) # {} => outcome[1].evaluated # {}
=============================================================================
