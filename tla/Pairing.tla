------------------------------- MODULE Pairing -------------------------------
(***************************************************************************)
(* How a device comes to exist: the pairing dialog (pair/connect.html), the *)
(* driver's handlers behind it (lib/NarwalHomeyDriver.js, lib/Discovery.js, *)
(* lib/cloud/cloudPairing.js) and the one-shot NarwalClient.probe they use. *)
(* DeviceLifecycle is what follows: the dialog decides whether the device   *)
(* knows its robot's id and address, and it starts when the dialog is       *)
(* closed and its last probe, with which it shares nothing, has ended.      *)
(*                                                                         *)
(* The robot may have been paired before. While the dialog is open the mode, *)
(* the account and mDNS stay what they were when it opened. What a probe    *)
(* sends, its mock mode, the firmware and battery it shows and the page's   *)
(* own timeouts, which end after the probe's, are left out.                 *)
(***************************************************************************)
EXTENDS DeviceLifecycle, FiniteSets

CONSTANTS
  Probes,       \* identities of probes; recycled once answered
  Self,         \* the robot's device id
  DefaultModel  \* how the dialog sorts the product key a probe starts with

Groups == {"match", "other", "unknown"}

ASSUME PairingConstants ==
  /\ Self \notin Addresses /\ Addresses # {}
  /\ DefaultModel \in Groups

VARIABLES
  view,      \* the dialog: the local "search", the "cloud" list, or "closed"
  list,      \* the robot's line in it
  busy,      \* narwalBusy: something is being added
  probe,     \* each probe: for whom, where, how far
  devices,   \* data.id of the devices Homey has for this robot
  nameless   \* history: one of them was added from answers without a name

dialog == <<view, list, busy>>
added == <<devices, nameless, hasId, settings>>
pairing == <<dialog, probe, devices, nameless>>

Unused == [for |-> "nobody", ip |-> NoAddress, at |-> "idle", live |-> FALSE, named |-> FALSE]

-----------------------------------------------------------------------------
(* NarwalClient.probe.                                                     *)

Running(p) == probe[p].at \in {"connecting", "open"}

\* A probe's start: its socket exists and its timeout runs.
Asking(who, ip) == [for |-> who, ip |-> ip, at |-> "connecting", live |-> TRUE, named |-> FALSE]

\* The bug of terminating only a socket that is open.
FinishOpen(p, answer) ==
  [probe[p] EXCEPT !.at = answer, !.live = probe[p].at = "connecting"]

\* finish: the listeners are removed, the timeout is cleared and the socket
\* terminated with the first outcome.
Finish(p, answer) == [probe[p] EXCEPT !.at = answer, !.live = FALSE]

\* ws 'open': the discovery frames leave.
Opened(p) ==
  /\ probe[p].at = "connecting"
  /\ probe' = [probe EXCEPT ![p].at = "open"]

\* The timeout, a constructor or a send that throws, ws 'error' and 'close'.
ProbeFails(p) ==
  /\ Running(p)
  /\ probe' = [probe EXCEPT ![p] = Finish(p, "failed")]

\* A frame of the robot. Only one with four topic parts names the robot, and a
\* status always has them.
Frames == {f \in [is : {"status", "response", "another"}, long : BOOLEAN] :
             f.is = "status" => f.long}

\* updateIdentityFromTopic with topicIdentity: a name that is known stays.
Names(p, f) == probe[p].named \/ f.long

\* ws 'message': parse takes the identity from every frame, a status or a
\* response with a status in it is the answer.
Message(p, f) ==
  /\ probe[p].at = "open"
  /\ LET heard == [probe EXCEPT ![p].named = Names(p, f)] IN
     probe' = IF f.is = "another" THEN heard
              ELSE [heard EXCEPT ![p] = [Finish(p, "ok") EXCEPT !.named = Names(p, f)]]

ProbeStep ==
  /\ \E p \in Probes : Opened(p) \/ ProbeFails(p) \/ \E f \in Frames : Message(p, f)
  /\ UNCHANGED <<dialog, devices, nameless, vars>>

-----------------------------------------------------------------------------
(* The found robots and the account's robots.                              *)

\* _existingIds with markAdded or cloudPairEntries: the robot is recognised by
\* its device id only.
AlreadyAdded == Self \in devices

\* discover: uniqueResults keeps results with an IPv4 address. A robot that is
\* not added is identified at once; an identify of an earlier search goes on.
Discover ==
  /\ view = "search"
  /\ LET earlier == [p \in Probes |-> IF probe[p].for = "list"
                                        THEN [probe[p] EXCEPT !.for = "nobody"] ELSE probe[p]] IN
     IF PickIPv4(found) = NoAddress
       THEN list' = "hidden" /\ probe' = earlier
       ELSE IF AlreadyAdded
         THEN list' = "added" /\ probe' = earlier
         ELSE \E p \in Probes :
                /\ probe[p].at = "idle"
                /\ list' = "checking"
                /\ probe' = [earlier EXCEPT ![p] = Asking("list", PickIPv4(found))]
  /\ UNCHANGED <<view, busy, devices, nameless, vars>>

\* The Retry of a robot that did not answer.
Retry ==
  /\ view = "search" /\ list = "silent" /\ ~busy
  /\ \E p \in Probes :
       /\ probe[p].at = "idle"
       /\ probe' = [probe EXCEPT ![p] = Asking("list", PickIPv4(found))]
  /\ list' = "checking"
  /\ UNCHANGED <<view, busy, devices, nameless, vars>>

\* buildPairEntry: an answer without a name has the product key that the probe
\* started with; the robot's own key may be any driver's or none's.
Entry(p) ==
  IF probe[p].at = "failed" THEN {"silent"}
  ELSE IF probe[p].named THEN Groups ELSE {DefaultModel}

\* _identifyRobot's answer, shown when its list still is.
Identified(p) ==
  /\ probe[p].at \in {"ok", "failed"} /\ probe[p].for # "validate"
  /\ IF probe[p].for = "list" /\ view # "closed"
       THEN list' \in Entry(p) ELSE UNCHANGED list
  /\ probe' = [probe EXCEPT ![p] = Unused]
  /\ UNCHANGED <<view, busy, devices, nameless, vars>>

\* listCloudRobots: with an account that is signed in, and the robot on it.
ListCloudRobots ==
  /\ view = "cloud"
  /\ \/ list' = "hidden"
     \/ /\ account # NoAccount
        /\ IF AlreadyAdded THEN list' = "added" ELSE list' \in Groups
  /\ UNCHANGED <<view, busy, probe, devices, nameless, vars>>

-----------------------------------------------------------------------------
(* Adding.                                                                 *)

\* The bug of a device that is known by its address.
DeviceAt(ip, named) == [id |-> ip, ip |-> ip, hasId |-> named]

\* _createPairDevice: by the robot's id, or by the address without one.
CreatePairDevice(ip, named) == [id |-> IF named THEN Self ELSE ip, ip |-> ip, hasId |-> named]

\* addDevice: Homey refuses an id it has; otherwise the device exists and the
\* dialog is done.
AddDevice(device) ==
  IF device.id \in devices
    THEN busy' = FALSE /\ UNCHANGED <<view, list, added>>
    ELSE /\ devices' = devices \cup {device.id}
         /\ nameless' = (nameless \/ ~device.hasId)
         /\ hasId' = device.hasId
         /\ settings' = [ip |-> device.ip, mock |-> FALSE]
         /\ view' = "closed" /\ list' = "hidden" /\ busy' = FALSE

\* connectNarwal with a typed address, or that of a found robot of this model
\* ("Add"); validate checks the address and probes it.
Connect(ip) ==
  /\ view = "search" /\ ~busy
  /\ busy' = TRUE
  /\ \E p \in Probes :
       /\ probe[p].at = "idle"
       /\ probe' = [probe EXCEPT ![p] = Asking("validate", ip)]
  /\ UNCHANGED <<view, list, devices, nameless, vars>>

\* The answer of validate. Any model that answers can be added by its address.
Validated(p) ==
  /\ probe[p].for = "validate" /\ probe[p].at \in {"ok", "failed"}
  /\ probe' = [probe EXCEPT ![p] = Unused]
  /\ IF probe[p].at = "ok"
       THEN AddDevice(CreatePairDevice(probe[p].ip, probe[p].named))
       ELSE busy' = FALSE /\ UNCHANGED <<view, list, added>>
  /\ UNCHANGED <<storeFails, app, mdns, init, deleted, save, follow, conn, userChose, events>>

\* addCloudRobot
AddCloudRobot ==
  /\ view = "cloud" /\ list = "match" /\ ~busy
  /\ busy' = TRUE
  /\ UNCHANGED <<view, list, probe, devices, nameless, vars>>

\* _cloudDevice after the account's list: the address mDNS has, if any; or the
\* account does not answer or has no such robot of this model.
CloudDevice ==
  /\ view = "cloud" /\ busy
  /\ \/ AddDevice(CreatePairDevice(PickIPv4(found), TRUE))
     \/ busy' = FALSE /\ UNCHANGED <<view, list, added>>
  /\ UNCHANGED <<probe, storeFails, app, mdns, init, deleted, save, follow, conn, userChose,
                 events>>

-----------------------------------------------------------------------------

\* The dialog in the app's mode, for a robot that Homey does not have, has by
\* its id, or has by an address it was paired at.
DialogOpens ==
  /\ view = IF mode = "cloud" THEN "cloud" ELSE "search"
  /\ devices \in {{}, {Self}, {CHOOSE a \in Addresses : TRUE}}
  /\ nameless = (devices \cap Addresses # {})
  /\ ~hasId /\ settings = [ip |-> NoAddress, mock |-> FALSE]

\* A device that was paired before the app started.
PairedBefore ==
  /\ view = "closed"
  /\ nameless = ~hasId
  /\ devices = {IF hasId THEN Self ELSE CHOOSE a \in Addresses : TRUE}

PairInit ==
  /\ Init
  /\ list = "hidden" /\ busy = FALSE
  /\ probe = [p \in Probes |-> Unused]
  /\ DialogOpens \/ PairedBefore

Dialog ==
  \/ Discover \/ Retry \/ ListCloudRobots \/ AddCloudRobot \/ CloudDevice
  \/ \E a \in Addresses : Connect(a)
  \/ \E p \in Probes : Identified(p) \/ Validated(p)

\* The device is the only one of this robot, and its dialog is over.
Paired == view = "closed" /\ probe = [p \in Probes |-> Unused] /\ Cardinality(devices) = 1

Lives(Step) == Paired /\ Step /\ UNCHANGED pairing

PairNext == Dialog \/ ProbeStep \/ Lives(Next)

ProbeTimeout(p) == ProbeFails(p) /\ UNCHANGED <<dialog, devices, nameless, vars>>

\* The device's fairness, and a probe's timer fires.
PairSpec ==
  /\ PairInit /\ [][PairNext]_<<vars, pairing>>
  /\ WF_vars(Lives(Continuations)) /\ WF_vars(Lives(RestartFires))
  /\ WF_vars(Lives(AddressStored))
  /\ \A p \in Probes : WF_probe(ProbeTimeout(p))

-----------------------------------------------------------------------------
(* Properties.                                                             *)

\* Whatever way and however often its robot is added, locally at any address,
\* found or typed, or from the account, Homey gets one device of it: the id of
\* a probe's frames is the account's id. Unless the robot once answered
\* without naming itself (NarwalHomeyDriver.js:46): that device is unknown to
\* later searches.
OneDevice == ~nameless => Cardinality(devices) <= 1

\* Every probe answers, also one whose list was replaced or whose dialog was
\* closed, and no probe leaves its socket behind (NarwalClient.js:1009).
ProbesEnd == \A p \in Probes : Running(p) ~> (probe[p].at \in {"ok", "failed"} /\ ~probe[p].live)
=============================================================================
