----------------------------- MODULE WebScreens -----------------------------
(***************************************************************************)
(* The screens of the web interface: what each of them reads, which        *)
(* operations its controls start, who is shown a control, while which      *)
(* calls it cannot be used, and what its screen does when the call is      *)
(* acknowledged (components of organizations, artifacts, policies,         *)
(* providers, usage, tasks, audit, settings, app-shell).                   *)
(***************************************************************************)
EXTENDS WebApi

(* A control that starts an operation at once, or opens a dialog whose     *)
(* button does.  busy: pending operations that disable the control or, for *)
(* a dialog, its button; gate: the permission without which it is hidden.  *)
Control(op, gate, busy) == [op |-> op, gate |-> gate, busy |-> busy, dialog |-> FALSE]
Dialog(op, gate, busy) == [op |-> op, gate |-> gate, busy |-> busy, dialog |-> TRUE]

(* reads: the queries of a screen, with the permission without which it    *)
(* does not send them; ends: what a handler does after its call.           *)
Always(queries) == [q \in queries |-> "none"]
All(ops, end) == [op \in ops |-> end]

-----------------------------------------------------------------------------
(* organizations                                                           *)

OrganizationsPage == [reads |-> Always({"organizationList"}),
                      ends |-> All({"createOrganization"}, "closes")]
OrganizationsView == {Dialog("createOrganization", "none", {"createOrganization"})}

OrganizationDetail ==
  [reads |-> Always({"organization", "memberList"}),
   ends |-> [updateOrganization |-> "closes", deleteOrganization |-> "leaves"]]

(* The form of an organization sends its slug with its name, changed or    *)
(* not.                                                                    *)
Asks(op) == IF op = "updateOrganization" THEN {op, "updateSlug"} ELSE {op}

OrganizationActions ==
  {Dialog("updateOrganization", "organization.update", {"updateOrganization"}),
   Dialog("deleteOrganization", "organization.delete", {"deleteOrganization"})}

(* An owner's demotion and every removal are confirmed first. *)
MembersPage ==
  [reads |-> Always({"memberList", "invitationList"}),
   ends |-> All({"updateMember", "removeMember", "createInvitation", "revokeInvitation"}, "closes")
              ++ All({"resendInvitation"}, "stays")]
MemberRows ==
  {Control("updateMember", "member.manage", {"updateMember"}),
   Dialog("updateMember", "member.manage", {"updateMember"}),
   Dialog("removeMember", "member.manage", {"removeMember"})}
InvitationRows ==
  LET either == {"resendInvitation", "revokeInvitation"}
  IN {Control("resendInvitation", "member.manage", either),
      Dialog("revokeInvitation", "member.manage", either)}
InviteDialog == {Dialog("createInvitation", "member.manage", {"createInvitation"})}

AcceptInvitation ==
  [reads |-> <<>>, ends |-> All({"acceptInvitation", "declineInvitation"}, "stays")]
InvitationAnswers ==
  LET loading == {"acceptInvitation", "declineInvitation"}
  IN {Control(op, "none", loading) : op \in loading}

-----------------------------------------------------------------------------
(* artifacts                                                               *)

ArtifactsPage == [reads |-> Always({"artifactList"}),
                  ends |-> [createArtifact |-> "closes", favoriteArtifact |-> "stays"]]
ArtifactRows == {Control("favoriteArtifact", "none", {"favoriteArtifact"})}
NewArtifact == {Dialog("createArtifact", "artifact.write", {"createArtifact"})}

ArtifactDetail ==
  [reads |-> Always({"artifact", "versionList", "artifactTags"}),
   ends |-> All({"updateArtifact", "createVersion", "restoreVersion"}, "closes")
              ++ All({"favoriteArtifact", "archiveArtifact"}, "stays")
              ++ [deleteArtifact |-> "leaves"]]
ArtifactActions ==
  {Control("favoriteArtifact", "none", {"favoriteArtifact"}),
   Control("archiveArtifact", "none", {"archiveArtifact"})}
  \cup {Dialog(op, "artifact.write", {op}) : op \in {"updateArtifact", "createVersion", "deleteArtifact"}}
VersionRows == {Dialog("restoreVersion", "artifact.write", {"restoreVersion"})}

TagEnds == All({"addArtifactTag", "removeArtifactTag"}, "stays")
ArtifactTagEditor == {Control(op, "none", {op}) : op \in DOMAIN TagEnds}

-----------------------------------------------------------------------------
(* policies                                                                *)

PolicyPacksPage == [reads |-> Always({"packList", "memberList"}),
                    ends |-> All({"createPolicyPack"}, "closes")]
PolicyPacksView == {Dialog("createPolicyPack", "policy.manage", {"createPolicyPack"})}

PolicyPackDetail ==
  [reads |-> Always({"pack", "memberList"}),
   ends |-> All({"updatePolicyPack", "createPolicyRule", "updatePolicyRule", "deletePolicyRule"}, "closes")
              ++ [deletePolicyPack |-> "leaves"]]
PackActions ==
  {Dialog(op, "policy.manage", {op}) : op \in {"updatePolicyPack", "deletePolicyPack"}}
RuleRows == {Dialog("deletePolicyRule", "policy.manage", {"deletePolicyRule"})}
RuleBuilderForm ==
  LET loading == {"createPolicyRule", "updatePolicyRule"}
  IN {Dialog(op, "policy.manage", loading) : op \in loading}

-----------------------------------------------------------------------------
(* providers, usage, tasks, audit                                          *)

(* The page of an organization is shown to those who may update it.        *)
ProvidersPage ==
  [reads |-> [q \in {"orgConfigs", "orgRouting"} |-> "organization.update"],
   ends |-> All({"patchOrgConfig", "patchOrgRouting"}, "closes")]
PlatformProvidersPage ==
  [reads |-> Always({"adminConfigs", "adminRouting", "adminHealth"}),
   ends |-> All({"patchAdminConfig", "patchAdminRouting"}, "closes")]
ConfigDialog ==
  {Dialog("patchOrgConfig", "organization.update", {"patchOrgConfig"}),
   Dialog("patchAdminConfig", "none", {"patchAdminConfig"})}
RoutingDialog ==
  {Dialog("patchOrgRouting", "organization.update", {"patchOrgRouting"}),
   Dialog("patchAdminRouting", "none", {"patchAdminRouting"})}

UsagePage == [reads |-> Always({"myUsage", "orgUsage", "memberList"}),
              ends |-> All({"patchQuotas"}, "stays")]
QuotaForm == {Control("patchQuotas", "organization.update", {"patchQuotas"})}

TasksPage == [reads |-> Always({"taskList", "task", "memberList"}),
              ends |-> All({"cancelTask"}, "closes")]
(* A slip a change of this code could make, for a run to reject: rows are  *)
(* shown without a gate.                                                   *)
UngatedTaskRows == {Dialog("cancelTask", "none", {"cancelTask"})}
TaskRows == {Dialog("cancelTask", "task.cancel", {"cancelTask"})}

AuditPage == [reads |-> [auditList |-> "audit.read", memberList |-> "none"], ends |-> <<>>]

-----------------------------------------------------------------------------
(* settings                                                                *)

SecuritySettings ==
  [reads |-> Always({"sessions"}),
   ends |-> [revokeSession |-> "closes", changePassword |-> "stays"]]
PasswordForm == {Control("changePassword", "none", {"changePassword"})}
SessionRows == {Dialog("revokeSession", "none", {"revokeSession"})}

ProfileSettings == [reads |-> Always({"currentUser"}), ends |-> All({"updateProfile"}, "stays")]
ProfileForm == {Control("updateProfile", "none", {"updateProfile"})}

-----------------------------------------------------------------------------
Screen(page, controls) == [reads |-> page.reads, ends |-> page.ends, controls |-> controls]

Screens == [
  organizations |-> Screen(OrganizationsPage, OrganizationsView),
  organization |-> Screen(OrganizationDetail, OrganizationActions),
  members |-> Screen(MembersPage, MemberRows \cup InvitationRows \cup InviteDialog),
  invitation |-> Screen(AcceptInvitation, InvitationAnswers),
  artifacts |-> Screen(ArtifactsPage, ArtifactRows \cup NewArtifact),
  artifact |-> [Screen(ArtifactDetail, ArtifactActions \cup VersionRows \cup ArtifactTagEditor)
                  EXCEPT !.ends = @ ++ TagEnds],
  packs |-> Screen(PolicyPacksPage, PolicyPacksView),
  pack |-> Screen(PolicyPackDetail, PackActions \cup RuleRows \cup RuleBuilderForm),
  providers |-> [reads |-> ProvidersPage.reads, ends |-> ProvidersPage.ends,
                 controls |-> {c \in ConfigDialog \cup RoutingDialog : c.op \in DOMAIN ProvidersPage.ends}],
  platform |-> [reads |-> PlatformProvidersPage.reads, ends |-> PlatformProvidersPage.ends,
                controls |-> {c \in ConfigDialog \cup RoutingDialog :
                                c.op \in DOMAIN PlatformProvidersPage.ends}],
  usage |-> Screen(UsagePage, QuotaForm),
  tasks |-> Screen(TasksPage, TaskRows),
  audit |-> Screen(AuditPage, {}),
  security |-> Screen(SecuritySettings, PasswordForm \cup SessionRows),
  profile |-> Screen(ProfileSettings, ProfileForm)]
=============================================================================
