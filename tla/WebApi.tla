------------------------------- MODULE WebApi -------------------------------
(***************************************************************************)
(* What the web interface knows of the API: the keys under which it caches *)
(* the backend's answers, which of them a mutation tells that they are out *)
(* of date, and which role may do what (lib/api/query-keys.ts,             *)
(* lib/permissions/rbac.ts, the hooks.ts and api.ts of features).          *)
(*                                                                         *)
(* A key is a sequence, and telling a key tells every key that it begins.  *)
(* The ids and filters at its end are left out: there is one organization, *)
(* one artifact, one pack.                                                 *)
(***************************************************************************)
EXTENDS Sequences, SequencesExt

(* One table above another: @@ of TLC, which the provers know nothing of. *)
f ++ g == [x \in DOMAIN f \cup DOMAIN g |-> IF x \in DOMAIN f THEN f[x] ELSE g[x]]

queryKeys == [
  currentUser |-> <<"auth", "currentUser">>,
  sessions |-> <<"auth", "sessions">>,
  organizations |-> <<"organizations">>,
  organizationList |-> <<"organizations", "list">>,
  organization |-> <<"organizations", "detail">>,
  members |-> <<"members">>,
  memberList |-> <<"members", "list">>,
  invitations |-> <<"invitations">>,
  invitationList |-> <<"invitations", "list">>,
  artifacts |-> <<"artifacts">>,
  artifactList |-> <<"artifacts", "list">>,
  artifact |-> <<"artifacts", "detail">>,
  artifactTags |-> <<"artifacts", "tags">>,
  versions |-> <<"versions">>,
  versionList |-> <<"versions", "list">>,
  policyPacks |-> <<"policyPacks">>,
  packList |-> <<"policyPacks", "list">>,
  pack |-> <<"policyPacks", "detail">>,
  tasks |-> <<"tasks">>,
  taskList |-> <<"tasks", "list">>,
  task |-> <<"tasks", "detail">>,
  auditList |-> <<"auditEvents", "list">>,
  onboarding |-> <<"onboarding", "me">>,
  myUsage |-> <<"usage", "me">>,
  orgUsage |-> <<"usage", "org">>,
  orgQuotas |-> <<"usage", "quotas">>,
  adminConfigs |-> <<"providers", "admin", "configs">>,
  adminRouting |-> <<"providers", "admin", "routing">>,
  adminHealth |-> <<"providers", "admin", "health">>,
  orgConfigs |-> <<"providers", "org", "configs">>,
  orgRouting |-> <<"providers", "org", "routing">>]

(* invalidateQueries compares the beginnings of keys. *)
Told(names, query) == \E n \in names : IsPrefix(queryKeys[n], queryKeys[query])

-----------------------------------------------------------------------------
(* Roles                                                                   *)

Roles == {"owner", "admin", "member", "viewer"}

ViewerPermissions == {"organization.read", "artifact.read", "policy.read"}
MemberPermissions == ViewerPermissions \cup {"artifact.write", "resource.create", "task.cancel"}
AdminPermissions ==
  MemberPermissions \cup {"organization.update", "member.manage", "policy.manage", "audit.read"}

(* ROLE_PERMISSIONS of the interface, and PermissionGate: without a role   *)
(* nothing that needs a permission is shown.                               *)
can(role, permission) ==
  permission \in CASE role = "owner" -> AdminPermissions \cup {"organization.delete"}
                   [] role = "admin" -> AdminPermissions
                   [] role = "member" -> MemberPermissions
                   [] role = "viewer" -> ViewerPermissions
                   [] OTHER -> {}

(* ROLE_PERMISSIONS of the backend *)
RoleHasPermission(role, permission) ==
  LET Holders ==
        CASE permission \in {"organization.read", "artifact.read", "policy.read"} -> Roles
          [] permission \in {"artifact.write", "resource.create", "task.cancel"} -> Roles \ {"viewer"}
          [] permission \in {"organization.update", "member.manage", "policy.manage", "audit.read"} ->
               {"owner", "admin"}
          [] OTHER -> {"owner"}
  IN role \in Holders

-----------------------------------------------------------------------------
(* features/organizations                                                  *)

OrganizationTells == [
  createOrganization |-> {"organizations"},
  updateOrganization |-> {"organizations", "organization"},
  deleteOrganization |-> {"organizations"},
  updateMember |-> {"members"},
  removeMember |-> {"members"}]

InvitationTells == [
  createInvitation |-> {"invitations"},
  resendInvitation |-> {"invitations"},
  revokeInvitation |-> {"invitations"}]

(* acceptInvitationRequest and declineInvitationRequest are called without *)
(* a hook: nothing is told.                                                *)
AnswerTells == [acceptInvitation |-> {}, declineInvitation |-> {}]

(* The queries that answer differently after a call has succeeded *)
OrganizationWrites == [
  createOrganization |-> {"organizationList"},
  updateOrganization |-> {"organizationList", "organization"},
  deleteOrganization |-> {"organizationList", "organization"},
  updateMember |-> {"memberList"},
  removeMember |-> {"memberList"},
  createInvitation |-> {"invitationList"},
  resendInvitation |-> {"invitationList"},
  revokeInvitation |-> {"invitationList"}]

AnswerWrites == [
  acceptInvitation |-> {"organizationList", "memberList", "invitationList"},
  declineInvitation |-> {"invitationList"}]

(* What the backend asks of the caller: a permission in the organization,  *)
(* to be one of its owners, or only an account *)
OrganizationNeeds == [
  createOrganization |-> "account",
  updateOrganization |-> "organization.update",
  updateSlug |-> "owner",
  deleteOrganization |-> "organization.delete",
  updateMember |-> "member.manage",
  removeMember |-> "member.manage"]

InvitationNeeds == [
  createInvitation |-> "member.manage",
  resendInvitation |-> "member.manage",
  revokeInvitation |-> "member.manage"]

(* Declining takes the mailed token only, which an account has no part in. *)
AnswerNeeds == [acceptInvitation |-> "account", declineInvitation |-> "account"]

-----------------------------------------------------------------------------
(* features/artifacts                                                      *)

Retold == {"artifacts", "artifact"}
Reversioned == {"artifact", "versions"}

ArtifactTells == [
  createArtifact |-> {"artifacts"},
  updateArtifact |-> Retold,
  deleteArtifact |-> {"artifacts"},
  createVersion |-> Reversioned,
  restoreVersion |-> Reversioned,
  addArtifactTag |-> Retold,
  removeArtifactTag |-> Retold,
  favoriteArtifact |-> Retold,
  archiveArtifact |-> Retold]

(* A new version changes the number of the current one, which the list shows. *)
ArtifactWrites == [
  createArtifact |-> {"artifactList"},
  updateArtifact |-> {"artifactList", "artifact"},
  deleteArtifact |-> {"artifactList", "artifact"},
  createVersion |-> {"artifactList", "artifact", "versionList"},
  restoreVersion |-> {"artifactList", "artifact", "versionList"}]

TagWrites == [
  addArtifactTag |-> {"artifactList", "artifact", "artifactTags"},
  removeArtifactTag |-> {"artifactList", "artifact"},
  favoriteArtifact |-> {"artifactList", "artifact"},
  archiveArtifact |-> {"artifactList", "artifact"}]

ArtifactNeeds ==
  [op \in DOMAIN ArtifactTells \ {"favoriteArtifact"} |-> "artifact.write"]
    ++ [favoriteArtifact |-> "artifact.read"]

-----------------------------------------------------------------------------
(* features/policies: every change of a rule is a new version of its pack. *)

PolicyTells == [
  createPolicyPack |-> {"policyPacks"},
  updatePolicyPack |-> {"policyPacks", "pack"},
  deletePolicyPack |-> {"policyPacks"},
  createPolicyRule |-> {"pack"},
  updatePolicyRule |-> {"pack"},
  deletePolicyRule |-> {"pack"}]

PolicyWrites ==
  [op \in DOMAIN PolicyTells \ {"createPolicyPack"} |-> {"packList", "pack"}]
    ++ [createPolicyPack |-> {"packList"}]

PolicyNeeds == [op \in DOMAIN PolicyTells |-> "policy.manage"]

-----------------------------------------------------------------------------
(* features/providers, usage, tasks, auth, settings                        *)

ProviderTells == [
  patchAdminConfig |-> {"adminConfigs", "adminHealth"},
  patchAdminRouting |-> {"adminRouting"},
  patchOrgConfig |-> {"orgConfigs"},
  patchOrgRouting |-> {"orgRouting"}]

ProviderWrites == [
  patchAdminConfig |-> {"adminConfigs", "adminHealth"},
  patchAdminRouting |-> {"adminRouting"},
  patchOrgConfig |-> {"orgConfigs"},
  patchOrgRouting |-> {"orgRouting"}]

ProviderNeeds == [
  patchAdminConfig |-> "platform",
  patchAdminRouting |-> "platform",
  patchOrgConfig |-> "owner",
  patchOrgRouting |-> "owner"]

UsageTells == [patchQuotas |-> {"orgUsage", "orgQuotas"}]
UsageWrites == [patchQuotas |-> {"orgUsage", "orgQuotas"}]
UsageNeeds == [patchQuotas |-> "owner or admin"]

TaskTells == [cancelTask |-> {"tasks"}]
TaskWrites == [cancelTask |-> {"taskList", "task"}]
TaskNeeds == [cancelTask |-> "task.cancel"]

(* The sessions are read again after a change of the password, which ends  *)
(* all of them but the current one.                                        *)
AccountTells == [
  revokeSession |-> {"sessions"},
  changePassword |-> {"sessions"},
  updateProfile |-> {"currentUser"}]

AccountWrites == [
  revokeSession |-> {"sessions"},
  changePassword |-> {"sessions"},
  updateProfile |-> {"currentUser"}]

AccountNeeds == [op \in DOMAIN AccountTells |-> "account"]

-----------------------------------------------------------------------------
Tells ==
  OrganizationTells ++ InvitationTells ++ AnswerTells ++ ArtifactTells ++ PolicyTells
    ++ ProviderTells ++ UsageTells ++ TaskTells ++ AccountTells

Writes ==
  OrganizationWrites ++ AnswerWrites ++ ArtifactWrites ++ TagWrites ++ PolicyWrites
    ++ ProviderWrites ++ UsageWrites ++ TaskWrites ++ AccountWrites

Needs ==
  OrganizationNeeds ++ InvitationNeeds ++ AnswerNeeds ++ ArtifactNeeds ++ PolicyNeeds
    ++ ProviderNeeds ++ UsageNeeds ++ TaskNeeds ++ AccountNeeds

(* What the backend asks of the reader of a query *)
ReadNeeds ==
  [q \in {"organization", "memberList", "orgUsage", "orgQuotas", "taskList", "task"} |->
     "organization.read"]
  ++ [q \in {"artifactList", "artifact", "artifactTags", "versionList"} |-> "artifact.read"]
  ++ [q \in {"packList", "pack"} |-> "policy.read"]
  ++ [invitationList |-> "member.manage", auditList |-> "audit.read"]
  ++ [q \in {"adminConfigs", "adminRouting", "adminHealth"} |-> "platform"]
  ++ [q \in {"orgConfigs", "orgRouting"} |-> "owner"]
  ++ [q \in {"currentUser", "sessions", "organizationList", "myUsage"} |-> "account"]

(* The backend's answer to a caller with this role in the organization.    *)
(* Platform administrators are taken to be the callers of their pages.     *)
Permits(role, need) ==
  CASE need \in {"account", "platform"} -> TRUE
    [] need = "owner" -> role = "owner"
    [] need = "owner or admin" -> role \in {"owner", "admin"}
    [] OTHER -> RoleHasPermission(role, need)
=============================================================================
