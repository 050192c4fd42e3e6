------------------------- MODULE PlatformAdminScreen -------------------------
(***************************************************************************)
(* The platform-admin screen of the console                                *)
(* (console/src/components/PlatformAdminConsole.tsx,                       *)
(* platform-admin-api.ts) over the versions of one provider tuple: the     *)
(* manifest and activation lists, the detail of the manifest under view    *)
(* with its three forms, the propose form and the emergency stop.          *)
(*                                                                         *)
(* The detail panel is one component instance for as long as some manifest *)
(* is under view: switching from one manifest to another keeps its state   *)
(* and sends a new load, hiding it discards the state.  Loads carry no     *)
(* number and a form reloads the manifest it was submitted for.  What the  *)
(* server does with a request is ProviderPromotion's subject; here it      *)
(* accepts or refuses, and activates only over the version the form names. *)
(***************************************************************************)
EXTENDS Naturals, Sequences

CONSTANTS MaxVersions,    \* manifests ever proposed for the tuple
          MaxLoads,       \* bound on detail loads, and on list loads, in flight
          MaxRequests,    \* bound on requests in flight
          MaxClicks       \* bound on what the admins do

VARIABLES proposed,       \* server: number of manifests of the tuple
          active,         \* server: version of the activation row, 0 when there is none
          stopped,        \* server: the row is deactivated
          viewed,         \* the manifest under view, 0 when none is
          detail,         \* the manifest and the activation the panel shows
          detailError,
          detailLate,     \* the load applied last had been overtaken
          crossed,        \* the view was changed while this panel had work in flight
          loads,          \* detail loads in flight, oldest first
          listed,         \* the lists shown
          listError,
          listLate,       \* the refresh applied last had been overtaken
          listLoads,      \* list refreshes in flight, oldest first
          requests,       \* submitted forms in flight
          clicks,         \* what the admins have done so far
          alone           \* nobody else changed the tuple and no answer was lost

serverVars == <<proposed, active, stopped>>

panelVars == <<viewed, detail, detailError, detailLate, crossed, loads>>

listVars == <<listed, listError, listLate, listLoads>>

screenVars == <<serverVars, panelVars, listVars, requests, clicks, alone>>

Versions == 1 .. MaxVersions

NoDetail == [manifest |-> 0, current |-> 0]

NothingListed == [manifests |-> 0, version |-> 0, stopped |-> FALSE]

FormKinds == {"certify", "approve", "activate"}

(* The lists as the server holds them.                                     *)
ServerLists == [manifests |-> proposed, version |-> active, stopped |-> stopped]

Click == clicks < MaxClicks /\ clicks' = clicks + 1

Without(s, i) == [j \in 1 .. Len(s) - 1 |-> IF j < i THEN s[j] ELSE s[j + 1]]

(* The i-th of s is done: those sent before it are overtaken.              *)
Overtaking(s, i) ==
    [j \in 1 .. Len(s) - 1 |-> IF j < i THEN [s[j] EXCEPT !.late = TRUE] ELSE s[j + 1]]

----------------------------------------------------------------------------
(* Lists.                                                                  *)

Unread == <<"sent">>

RefreshSent == [answer |-> Unread, late |-> FALSE]

WithRefreshSent == Append(listLoads, RefreshSent)

(* listManifests and listActivations both answer, or one fails and with it *)
(* the refresh (Promise.all).                                              *)
ListsAnswered(i) ==
    /\ listLoads[i].answer = Unread
    /\ \E a \in {<<"lists", ServerLists>>, <<"failed">>} :
          listLoads' = [listLoads EXCEPT ![i].answer = a]
    /\ UNCHANGED <<clicks, serverVars, panelVars, listed, listError, listLate, requests, alone>>

(* A refresh that failed leaves the old lists under its error.             *)
ListsApplied(i) ==
    LET a == listLoads[i].answer
    IN  /\ a # Unread
        /\ listed' = IF a[1] = "lists" THEN a[2] ELSE listed
        /\ listError' = (a[1] = "failed")
        /\ listLate' = listLoads[i].late
        /\ listLoads' = Overtaking(listLoads, i)
        /\ UNCHANGED <<clicks, serverVars, panelVars, requests, alone>>

----------------------------------------------------------------------------
(* The detail panel.                                                       *)

(* A load of manifest m; then says that a refresh of the lists follows it, *)
(* live that its panel instance still exists.                              *)
LoadSent(m, then, live) ==
    [manifest |-> m, answer |-> Unread, then |-> then, live |-> live, late |-> FALSE]

LiveWork ==
    \/ \E i \in DOMAIN loads : loads[i].live
    \/ \E i \in DOMAIN requests : requests[i].kind \in FormKinds

(* The effect loads whenever the manifest changes (LoadedOnMount: without  *)
(* its dependency on it).                                                  *)
LoadedOnMount(m) == IF viewed = 0 THEN Append(loads, LoadSent(m, FALSE, TRUE)) ELSE loads

LoadedOnChange(m) == Append(loads, LoadSent(m, FALSE, TRUE))

(* View: the panel mounts, or switches to another manifest as it is.       *)
View(m) ==
    /\ m \in 1 .. listed.manifests
    /\ viewed # m
    /\ Len(loads) < MaxLoads
    /\ Click
    /\ viewed' = m
    /\ loads' = LoadedOnChange(m)
    /\ crossed' = (crossed \/ LiveWork)
    /\ UNCHANGED <<serverVars, detail, detailError, detailLate, listVars, requests, alone>>

(* Hide: the panel and what it was waiting for are discarded.              *)
Hide ==
    /\ viewed # 0
    /\ Click
    /\ viewed' = 0
    /\ detail' = NoDetail
    /\ detailError' = FALSE
    /\ detailLate' = FALSE
    /\ crossed' = \E i \in DOMAIN requests : requests[i].kind \in FormKinds
    /\ loads' = [i \in DOMAIN loads |-> [loads[i] EXCEPT !.live = FALSE]]
    /\ requests' = [i \in DOMAIN requests |->
                      [requests[i] EXCEPT !.live = @ /\ requests[i].kind \notin FormKinds]]
    /\ UNCHANGED <<serverVars, listVars, alone>>

DetailAnswered(i) ==
    /\ loads[i].answer = Unread
    /\ \E a \in {<<"detail", [manifest |-> loads[i].manifest, current |-> active]>>, <<"failed">>} :
          loads' = [loads EXCEPT ![i].answer = a]
    /\ UNCHANGED <<clicks, serverVars, viewed, detail, detailError, detailLate, crossed, listVars, requests, alone>>

(* refreshBoth: a form's reload is followed by a refresh of the lists,     *)
(* loaded or not (NoRefreshAfter: only the panel reloads).                 *)
NoRefreshAfter(load) == listLoads

RefreshAfter(load) == IF load.then THEN WithRefreshSent ELSE listLoads

DetailApplied(i) ==
    LET load == loads[i]
    IN  /\ load.answer # Unread
        /\ load.then => Len(listLoads) < MaxLoads
        /\ IF load.live
           THEN /\ detail' = IF load.answer[1] = "detail" THEN load.answer[2] ELSE detail
                /\ detailError' = (load.answer[1] = "failed")
                /\ detailLate' = load.late
           ELSE UNCHANGED <<detail, detailError, detailLate>>
        /\ loads' = Overtaking(loads, i)
        /\ listLoads' = RefreshAfter(load)
        /\ UNCHANGED <<clicks, serverVars, viewed, crossed, listed, listError, listLate, requests, alone>>

----------------------------------------------------------------------------
(* Forms.                                                                  *)

submitting(kind) == \E i \in DOMAIN requests : requests[i].live /\ requests[i].kind = kind

Sent(kind, m, expected) ==
    /\ ~submitting(kind)
    /\ Len(requests) < MaxRequests
    /\ Click
    /\ requests' = Append(requests, [kind |-> kind, manifest |-> m, expected |-> expected,
                                     live |-> TRUE, stage |-> "sent"])
    /\ UNCHANGED <<serverVars, panelVars, listVars, alone>>

(* The forms are drawn once a detail has come, and not over an error; they *)
(* act on the manifest under view.                                         *)
FormsDrawn == viewed # 0 /\ detail # NoDetail /\ ~detailError

CertifyForm == FormsDrawn /\ Sent("certify", viewed, 0)

ApproveForm == FormsDrawn /\ Sent("approve", viewed, 0)

(* The version to replace is the one the panel shows.                      *)
ActivateForm == FormsDrawn /\ Sent("activate", viewed, detail.current)

ProposeForm == proposed < MaxVersions /\ Sent("propose", 0, 0)

DeactivateButton == listed.version # 0 /\ ~listed.stopped /\ Sent("stop", 0, 0)

(* The server may refuse any request: a gate unmet, a self-approval, a     *)
(* stale version, no activation to stop.                                   *)
ServerRefuses(i) ==
    /\ requests[i].stage = "sent"
    /\ requests' = [requests EXCEPT ![i].stage = "refused"]
    /\ UNCHANGED <<clicks, serverVars, panelVars, listVars, alone>>

ServerAccepts(i) ==
    LET r == requests[i]
    IN  /\ r.stage = "sent"
        /\ r.kind = "activate" => r.expected = active
        /\ r.kind = "stop" => active # 0
        /\ requests' = [requests EXCEPT ![i].stage = "done"]
        /\ active' = IF r.kind = "activate" THEN r.manifest ELSE active
        /\ stopped' = (r.kind = "stop" \/ (stopped /\ r.kind # "activate"))
        /\ proposed' = IF r.kind = "propose" THEN proposed + 1 ELSE proposed
        /\ UNCHANGED <<clicks, panelVars, listVars, alone>>

(* An accepted form of the panel reloads its manifest, then the lists; a   *)
(* proposal and a stop refresh the lists.                                  *)
FormAccepted(i) ==
    LET r == requests[i]
    IN  /\ r.stage = "done"
        /\ requests' = Without(requests, i)
        /\ IF r.kind \in FormKinds
           THEN /\ Len(loads) < MaxLoads
                /\ loads' = Append(loads, LoadSent(r.manifest, TRUE, r.live))
                /\ UNCHANGED listLoads
           ELSE /\ Len(listLoads) < MaxLoads
                /\ listLoads' = WithRefreshSent
                /\ UNCHANGED loads
        /\ UNCHANGED <<clicks, serverVars, viewed, detail, detailError, detailLate, crossed,
                       listed, listError, listLate, alone>>

FormRefused(i) ==
    /\ requests[i].stage = "refused"
    /\ requests' = Without(requests, i)
    /\ UNCHANGED <<clicks, serverVars, panelVars, listVars, alone>>

(* The answer is lost: the form shows an error and nothing is reloaded.    *)
AnswerLost(i) ==
    /\ requests' = Without(requests, i)
    /\ alone' = FALSE
    /\ UNCHANGED <<clicks, serverVars, panelVars, listVars>>

OtherAdminActs ==
    /\ Click
    /\ \E v \in 1 .. proposed : active' = v
    /\ stopped' \in BOOLEAN
    /\ alone' = FALSE
    /\ UNCHANGED <<proposed, panelVars, listVars, requests>>

ScreenInit ==
    /\ proposed \in Versions /\ active = 0 /\ stopped = FALSE
    /\ viewed = 0 /\ detail = NoDetail /\ detailError = FALSE /\ detailLate = FALSE
    /\ crossed = FALSE /\ loads = <<>>
    /\ listed = NothingListed /\ listError = FALSE /\ listLate = FALSE
    /\ listLoads = <<RefreshSent>>
    /\ requests = <<>>
    /\ clicks = 0 /\ alone = TRUE

ScreenNext ==
    \/ \E i \in DOMAIN listLoads : ListsAnswered(i) \/ ListsApplied(i)
    \/ \E m \in Versions : View(m)
    \/ Hide
    \/ \E i \in DOMAIN loads : DetailAnswered(i) \/ DetailApplied(i)
    \/ CertifyForm \/ ApproveForm \/ ActivateForm \/ ProposeForm \/ DeactivateButton
    \/ \E i \in DOMAIN requests : \/ ServerRefuses(i) \/ ServerAccepts(i)
                                  \/ FormAccepted(i) \/ FormRefused(i) \/ AnswerLost(i)
    \/ OtherAdminActs

ScreenSpec == ScreenInit /\ [][ScreenNext]_screenVars

----------------------------------------------------------------------------
(* Every variable has its type.                                             *)
ScreenTypeOK ==
    /\ proposed \in Versions /\ active \in 0 .. proposed /\ stopped \in BOOLEAN
    /\ viewed \in 0 .. proposed /\ detail.manifest \in 0 .. proposed
    /\ listed.manifests \in 0 .. proposed
    /\ Len(loads) <= MaxLoads /\ Len(listLoads) <= MaxLoads /\ Len(requests) <= MaxRequests

Settled == loads = <<>> /\ listLoads = <<>> /\ requests = <<>>

(* A settled detail panel shows the manifest under view, the one its forms *)
(* act on, and the version its Activate button would replace, unless the   *)
(* view was switched while the panel had a load or a form in flight, its   *)
(* last load had been overtaken, or somebody else changed the tuple        *)
(* (ManifestDetail's load and refreshBoth).                                *)
PanelShowsItsManifest ==
    Settled /\ viewed # 0 /\ alone /\ ~crossed /\ ~detailLate /\ ~detailError =>
        detail = [manifest |-> viewed, current |-> active]

(* Settled lists without an error are the server's, whichever of the five  *)
(* forms changed them and even when its panel was hidden meanwhile, unless *)
(* the last refresh had been overtaken or somebody else changed the tuple  *)
(* (PlatformAdminMain.refresh, onChanged, onProposed, onDeactivated).      *)
ListsFollowEveryForm ==
    Settled /\ alone /\ ~listLate /\ ~listError => listed = ServerLists
=============================================================================
