---------------------------- MODULE VendorOnboarding ----------------------------
(***************************************************************************)
(* How a user becomes a vendor: they create a vendor, file an application  *)
(* for it, save its business profile and submit it; staff approve or       *)
(* reject, and approval gives the owner the role of a vendor.  The steps of *)
(* the owner are taken by requests admitted with the roles of Principals;  *)
(* staff are admitted by roles nothing here changes.                       *)
(*                                                                         *)
(* A handler that runs in one transaction on rows it updates under a       *)
(* guard is one action.  The access check of a route, the look at an       *)
(* application before its profile is saved, and the look before a          *)
(* rejection lock nothing and are steps of their own: what they found is   *)
(* kept in acting, editing and rejecting, and need never be acted on.      *)
(*                                                                         *)
(* A definition that is used nowhere is a faulty variant of the one that   *)
(* follows it: the slip that a property has to notice.                     *)
(***************************************************************************)
EXTENDS Principals

CONSTANTS Vendors, Applications,
          OwnerOf,         \* vendors.owner_user_id
          VendorOf,        \* vendor_applications.vendor_id
          NoVendor

OnboardingRoles == {"client", "vendor_pending", "vendor"}
VendorCreateRoles == {"client", "vendor", "vendor_pending"}
VendorOnboardingWrite == {"vendor", "vendor_pending"}

ASSUME OnboardingRolesAssumption == Roles = OnboardingRoles /\ "vendor" \notin InitialRoles
ASSUME OwnerAssumption == OwnerOf \in [Vendors -> Users]
ASSUME VendorAssumption == VendorOf \in [Applications -> Vendors] /\ NoVendor \notin Vendors

VARIABLES vendor,          \* vendors.status, "none" without a row
          application,     \* vendor_applications.status, "none" without a row
          business,        \* applications with a row of vendor_application_business
          acting,          \* the vendor each request has been let act for
          editing,         \* applications a profile update has found editable
          rejecting        \* applications a rejection has found open

onboarding == <<vendor, application, business, acting, editing, rejecting>>
vars == <<principalVars, onboarding>>

VendorStatuses == {"none", "draft", "pending_review", "active", "suspended", "rejected"}
ApplicationStatuses == {"none", "applied", "under_review", "approved", "rejected"}
Open == {"applied", "under_review"}
ApplicationsOf(v) == {a \in Applications : VendorOf[a] = v}

-----------------------------------------------------------------------------
(* The owner                                                               *)

\* VendorsService.createVendor; a taken slug is a request that ends.
CreateVendor(r, v) ==
    LET u == OwnerOf[v] IN
    /\ Admits(r, VendorCreateRoles) /\ request[r].user = u
    /\ acting[r] = NoVendor
    /\ vendor[v] = "none"
    /\ vendor' = [vendor EXCEPT ![v] = "draft"]
    /\ GrantRoles(u, roles[u] \cup {"vendor_pending"}, [request EXCEPT ![r] = Ended(@)])
    /\ UNCHANGED <<application, business, acting, editing, rejecting>>

\* VendorAccessService.assertVendorOwnerOrStaff.  vendor_users, whose members it
\* admits too, is written by no code.
AssertVendorOwner(r, v) ==
    /\ Admits(r, VendorOnboardingWrite) /\ request[r].user = OwnerOf[v]
    /\ acting[r] = NoVendor
    /\ vendor[v] \notin {"none", "suspended", "rejected"}
    /\ acting' = [acting EXCEPT ![r] = v]
    /\ UNCHANGED <<principalVars, vendor, application, business, editing, rejecting>>

\* The step of a handler that has been let act, and its answer.
Acts(r, v) ==
    /\ acting[r] = v
    /\ acting' = [acting EXCEPT ![r] = NoVendor]
    /\ request' = [request EXCEPT ![r] = Ended(@)]
    /\ UNCHANGED <<principals, cache>>

\* A second open application breaks vendor_applications_one_open_per_vendor,
\* and a repeated key answers with the row it made: neither changes anything.
CreateApplication(r, a) ==
    /\ Acts(r, VendorOf[a])
    /\ application[a] = "none"
    /\ \A other \in ApplicationsOf(VendorOf[a]) : application[other] \notin Open
    /\ application' = [application EXCEPT ![a] = "applied"]
    /\ UNCHANGED <<vendor, business, editing, rejecting>>

\* upsertBusiness asks for an editable application, then writes the profile.
FindEditable(r, a) ==
    /\ Acts(r, VendorOf[a])
    /\ application[a] \in Open
    /\ editing' = editing \cup {a}
    /\ UNCHANGED <<vendor, application, business, rejecting>>

SaveBusiness(a) ==
    /\ a \in editing
    /\ business' = business \cup {a}
    /\ UNCHANGED <<principalVars, vendor, application, acting, editing, rejecting>>

Submittable(a) == a \in business /\ application[a] = "applied"

\* Whatever the vendor's status has become meanwhile, it is pending_review now.
Submit(r, a) ==
    /\ Acts(r, VendorOf[a])
    /\ Submittable(a)
    /\ application' = [application EXCEPT ![a] = "under_review"]
    /\ vendor' = [vendor EXCEPT ![VendorOf[a]] = "pending_review"]
    /\ UNCHANGED <<business, editing, rejecting>>

-----------------------------------------------------------------------------
(* Staff                                                                   *)

PromotedToOwner(rs) == (rs \ {"vendor_pending"}) \cup {"vendor_owner"}

\* promoteVendorOwnerRoles, in the transaction of approve.
Promoted(rs) == (rs \ {"vendor_pending"}) \cup {"vendor"}

Approve(a) ==
    LET u == OwnerOf[VendorOf[a]] IN
    /\ application[a] = "under_review"
    /\ application' = [application EXCEPT ![a] = "approved"]
    /\ vendor' = [vendor EXCEPT ![VendorOf[a]] = "active"]
    /\ GrantRoles(u, Promoted(roles[u]), request)
    /\ UNCHANGED <<business, acting, editing, rejecting>>

FindRejectable(a) ==
    /\ application[a] \in Open
    /\ rejecting' = rejecting \cup {a}
    /\ UNCHANGED <<principalVars, vendor, application, business, acting, editing>>

TriggerLetsAllReject(a) == TRUE

\* The UPDATE of reject names no status: the transition trigger is what keeps
\* an approved application; it lets a rejected one be rejected again.
TriggerLetsReject(a) == application[a] # "approved"

RejectedVendorKept(a) == vendor

RejectedVendor(a) == [vendor EXCEPT ![VendorOf[a]] = "rejected"]

\* The roles the owner has by then are kept.
Reject(a) ==
    /\ a \in rejecting
    /\ TriggerLetsReject(a)
    /\ application' = [application EXCEPT ![a] = "rejected"]
    /\ vendor' = RejectedVendor(a)
    /\ UNCHANGED <<principalVars, business, acting, editing, rejecting>>

\* AdminVendorsService.setStatus: from any status, whatever the applications say.
SetStatus(v, s) ==
    /\ vendor[v] # "none"
    /\ vendor' = [vendor EXCEPT ![v] = s]
    /\ UNCHANGED <<principalVars, application, business, acting, editing, rejecting>>

-----------------------------------------------------------------------------
Init ==
    /\ PrincipalsInit
    /\ vendor = [v \in Vendors |-> "none"]
    /\ application = [a \in Applications |-> "none"]
    /\ business = {} /\ editing = {} /\ rejecting = {}
    /\ acting = [r \in Requests |-> NoVendor]

\* A request that has been let act belongs to its handler.
Authenticate ==
    /\ PrincipalsNext
    /\ acting' = [r \in Requests |-> IF request'[r].at = "idle" THEN NoVendor ELSE acting[r]]
    /\ UNCHANGED <<vendor, application, business, editing, rejecting>>

OwnerActs ==
    \/ \E r \in Requests, v \in Vendors : CreateVendor(r, v) \/ AssertVendorOwner(r, v)
    \/ \E r \in Requests, a \in Applications :
          CreateApplication(r, a) \/ FindEditable(r, a) \/ Submit(r, a)
    \/ \E a \in Applications : SaveBusiness(a)

StaffActs ==
    \/ \E a \in Applications : Approve(a) \/ FindRejectable(a) \/ Reject(a)
    \/ \E v \in Vendors, s \in {"active", "suspended"} : SetStatus(v, s)

Next == Authenticate \/ OwnerActs \/ StaffActs

Spec == Init /\ [][Next]_vars

-----------------------------------------------------------------------------
(* Properties                                                              *)

\* Every variable has its type; roles are those that the guards know.
TypeOK ==
    /\ PrincipalsTypeOK
    /\ vendor \in [Vendors -> VendorStatuses]
    /\ application \in [Applications -> ApplicationStatuses]
    /\ business \subseteq Applications
    /\ acting \in [Requests -> Vendors \cup {NoVendor}]
    /\ editing \subseteq Applications /\ rejecting \subseteq Applications

\* Whoever is let in as a vendor, through whichever stale cache of whichever
\* instance, owns a vendor whose application was approved and still is: late
\* rejections and new applications do not undo that (approve, reject, the
\* transition trigger, loadPrincipal).
VendorsWereApproved ==
    \A r \in Requests :
        (request[r].at = "loaded" /\ "vendor" \in request[r].roles)
            => \E a \in Applications :
                  application[a] = "approved" /\ OwnerOf[VendorOf[a]] = request[r].user

\* A vendor that waits for a review has an application that staff can review,
\* with a business profile to read: no order of submissions, late saves and
\* rejections, and status changes leaves it pending with nothing in the queue
\* (submit, upsertBusiness, approve, reject, setStatus).
PendingIsUnderReview ==
    \A v \in Vendors : vendor[v] = "pending_review"
        => \E a \in ApplicationsOf(v) : application[a] = "under_review" /\ a \in business
=============================================================================
