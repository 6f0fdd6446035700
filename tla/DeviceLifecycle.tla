--------------------------- MODULE DeviceLifecycle ---------------------------
(***************************************************************************)
(* The owner of the client: lib/NarwalHomeyDevice.js from onInit to        *)
(* onDeleted with the app's registry (app.js), the connection mode and the *)
(* account that decide how it connects, and the discovery watcher that     *)
(* follows the robot's address. One robot, one device, one mDNS result.    *)
(*                                                                         *)
(* Every await is a step of its own, so that deletion, announcements and   *)
(* settings come in between. Homey applies a device's own setSettings      *)
(* calls in their order, and stores what onSettings accepted before the    *)
(* restart timer ends (the assumption of the comment above                 *)
(* _restartClient). What a client does is NarwalLink's subject.            *)
(***************************************************************************)
EXTENDS Naturals, Sequences

CONSTANTS
  Clients,      \* identities of client objects; recycled once stopped
  NoClient,     \* _client when it is null
  Idle,         \* a client that is not running
  Addresses,    \* IPv4 addresses
  NoAddress,    \* an empty ip setting
  IPv6Only,     \* an announcement without an IPv4 address
  Unseen,       \* no mDNS result yet
  Accounts,     \* account objects of the manager, one per sign-in
  NoAccount,
  NoSave,       \* no save of the settings page is under way
  MaxEvents     \* how often the user and the robot change something

SettingsType == [ip : Addresses \cup {NoAddress}, mock : BOOLEAN]
Given == [ip : Addresses \cup {NoAddress}, mock : BOOLEAN, account : Accounts \cup {NoAccount}]

ASSUME DeviceConstants ==
  /\ NoClient \notin Clients /\ Idle \notin Given
  /\ {NoAddress, IPv6Only, Unseen} \cap Addresses = {}
  /\ NoAddress \notin {IPv6Only, Unseen} /\ IPv6Only # Unseen
  /\ NoAccount \notin Accounts
  /\ MaxEvents \in Nat

VARIABLES
  hasId,       \* the store holds the robot's deviceId (set at pairing)
  storeFails,  \* setSettings is rejected (never changes)
  mode,        \* the connection mode
  account,     \* the manager's account, when it is signed in
  found,       \* what the mDNS result announces
  tracked,     \* the watcher listens to the result's addressChanged
  init,        \* what onInit awaits, or "done"
  deleted,     \* "settled" / "busy": deleted with nothing / something awaited
  settings,    \* the stored settings that matter for the connection
  save,        \* a save of the settings page: what it sets and how far it is
  following,   \* _followingIp
  writes,      \* addresses whose setSettings is awaited, in call order
  client,      \* _client
  running,     \* what each started client was given, Idle once it is stopped
  restart,     \* _restartTimer is pending
  userChose,   \* history: a save of the settings page is newer than the
               \* last announcement that was looked at
  events       \* how much the user and the robot have changed

world == <<hasId, storeFails>>
app == <<mode, account>>
mdns == <<found, tracked>>
conn == <<client, running, restart>>
follow == <<following, writes>>
vars == <<world, app, mdns, init, deleted, settings, save, follow, conn, userChose, events>>

Saves == [set : SettingsType, keys : SUBSET {"ip", "mock"}, at : {"validating", "storing"}]
InitSteps == {"absent", "capabilities", "migration", "rooms", "done"}

TypeOK ==
  /\ hasId \in BOOLEAN /\ storeFails \in BOOLEAN
  /\ mode \in {"local", "cloud"} /\ account \in Accounts \cup {NoAccount}
  /\ found \in Addresses \cup {IPv6Only, Unseen} /\ tracked \in BOOLEAN
  /\ init \in InitSteps /\ deleted \in {"no", "settled", "busy"}
  /\ settings \in SettingsType /\ save \in Saves \cup {NoSave}
  /\ following \in Addresses \cup {NoAddress} /\ writes \in Seq(Addresses)
  /\ client \in Clients \cup {NoClient}
  /\ running \in [Clients -> Given \cup {Idle}]
  /\ restart \in BOOLEAN /\ userChose \in BOOLEAN /\ events \in 0..MaxEvents

-----------------------------------------------------------------------------
(* How to connect.                                                         *)

\* chooseConnection's error cases.
Refused ==
  /\ ~settings.mock
  /\ \/ mode = "local" /\ settings.ip = NoAddress
     \/ mode = "cloud" /\ (account = NoAccount \/ ~hasId)

\* What _startClient hands to the client: the address, and over the cloud the
\* account of chooseConnection's result.
Wanted ==
  [ip |-> settings.ip, mock |-> settings.mock,
   account |-> IF mode = "cloud" /\ ~settings.mock THEN account ELSE NoAccount]

\* The bug of a client that is replaced without being stopped.
StopNothing == running

\* _stopClient: what is left running.
StoppedClients == [c \in Clients |-> IF c = client THEN Idle ELSE running[c]]

\* _startClient, which stops first and clears the restart timer.
StartClient ==
  /\ restart' = FALSE
  /\ IF Refused
       THEN client' = NoClient /\ running' = StoppedClients
       ELSE \E c \in Clients :
              /\ StoppedClients[c] = Idle
              /\ client' = c
              /\ running' = [StoppedClients EXCEPT ![c] = Wanted]

\* _restartClient
RestartClient ==
  /\ client' = NoClient /\ running' = StoppedClients
  /\ restart' = TRUE

SaveIs(at) == save # NoSave /\ save.at = at

\* The 500 ms are over; accepted settings are stored by then.
RestartFires ==
  /\ restart
  /\ ~SaveIs("storing")
  /\ StartClient
  /\ UNCHANGED <<world, app, mdns, init, deleted, settings, save, follow, userChose, events>>

-----------------------------------------------------------------------------
(* Following the robot's address.                                          *)

\* pickIPv4
PickIPv4(announced) == IF announced \in Addresses THEN announced ELSE NoAddress

\* The app's registry: onInit registers, onDeleted unregisters.
Registered == init # "absent" /\ deleted = "no"

\* onDiscoveredAddress up to its await.
OnDiscoveredAddress(ip) ==
  IF settings.mock \/ ip = NoAddress \/ ip = settings.ip \/ ip = following
    THEN UNCHANGED follow
    ELSE following' = ip /\ writes' = Append(writes, ip)

\* _route to this device: it needs an address and a matching device id.
Route(announced) ==
  IF hasId THEN OnDiscoveredAddress(PickIPv4(announced)) ELSE UNCHANGED follow

\* The await of setSettings ends: the address is stored and the client
\* restarted, whatever happened meanwhile; 'finally' clears the guard.
AddressStored ==
  /\ writes # <<>>
  /\ writes' = Tail(writes)
  /\ following' = NoAddress
  /\ \/ /\ ~storeFails
        /\ settings' = [settings EXCEPT !.ip = Head(writes)]
        /\ RestartClient
     \/ /\ storeFails
        /\ UNCHANGED <<settings, conn>>
  /\ UNCHANGED <<world, app, mdns, init, deleted, save, userChose, events>>

\* _track: a result is listened to from the first time it is seen.
Tracking(known) == known # Unseen

\* The strategy's 'result' for the first announcement, the result's
\* addressChanged afterwards; both route to every registered device. An
\* address is not taken again while its successor is being stored.
Announce(a) ==
  /\ events < MaxEvents /\ events' = events + 1
  /\ a # found
  /\ writes # <<>> => a # settings.ip
  /\ found' = a
  /\ tracked' = Tracking(a)
  /\ IF Registered /\ (found = Unseen \/ tracked)
       THEN Route(a) /\ userChose' = FALSE
       ELSE UNCHANGED <<follow, userChose>>
  /\ UNCHANGED <<world, app, init, deleted, settings, save, conn>>

-----------------------------------------------------------------------------
(* The device's life.                                                      *)

\* The bug of a device that waits for the next announcement.
StartWithoutCheck == StartClient /\ UNCHANGED <<follow, userChose>>

\* The end of onInit, after its awaits: the client is started, then the
\* addresses already found are checked.
StartAndCheck ==
  /\ StartClient
  /\ Route(found)
  /\ userChose' = IF hasId /\ found # Unseen THEN FALSE ELSE userChose

\* onInit up to its first await.
OnInit ==
  /\ init = "absent"
  /\ init' = "capabilities"
  /\ UNCHANGED <<world, app, mdns, deleted, settings, save, follow, conn, userChose, events>>

\* The awaits of onInit. None of them looks at whether the device is gone.
InitContinues ==
  \/ /\ init = "capabilities" /\ init' = "migration"
     /\ UNCHANGED <<follow, conn, userChose>>
  \/ /\ init = "migration" /\ init' = "rooms"
     /\ UNCHANGED <<follow, conn, userChose>>
  \/ /\ init = "rooms" /\ init' = "done"
     /\ StartAndCheck

InitStep ==
  /\ InitContinues
  /\ UNCHANGED <<world, app, mdns, deleted, settings, save, events>>

\* How a device is deleted: with something of it still awaited, or with nothing.
Unregistered ==
  IF init = "done" /\ writes = <<>> /\ save = NoSave THEN "settled" ELSE "busy"

\* onDeleted / onUninit: unregistered, and stopped with its restart timer.
Delete ==
  /\ Registered
  /\ deleted' = Unregistered
  /\ client' = NoClient /\ running' = StoppedClients /\ restart' = FALSE
  /\ UNCHANGED <<world, app, mdns, init, settings, save, follow, userChose, events>>

-----------------------------------------------------------------------------
(* The settings page, the connection mode and the account.                 *)

\* onSettings with its changedKeys, up to the validation of the default rooms.
OnSettings(new) ==
  /\ init = "done" /\ deleted = "no" /\ save = NoSave
  /\ events < MaxEvents /\ events' = events + 1
  /\ save' = [set |-> new, keys |-> {k \in {"ip", "mock"} : new[k] # settings[k]},
               at |-> "validating"]
  /\ UNCHANGED <<world, app, mdns, init, deleted, settings, follow, conn, userChose>>

\* The rest of onSettings: a connection setting restarts the client.
SettingsAccepted ==
  /\ SaveIs("validating")
  /\ save' = [save EXCEPT !.at = "storing"]
  /\ IF save.keys # {} THEN RestartClient ELSE UNCHANGED conn
  /\ UNCHANGED <<world, app, mdns, init, deleted, settings, follow, userChose, events>>

\* Unknown room ids: onSettings throws and Homey keeps the old settings.
SettingsRejected ==
  /\ SaveIs("validating")
  /\ save' = NoSave
  /\ UNCHANGED <<world, app, mdns, init, deleted, settings, follow, conn, userChose, events>>

\* Homey stores the changed settings after onSettings returned.
SettingsStored ==
  /\ SaveIs("storing")
  /\ settings' = [k \in {"ip", "mock"} |-> IF k \in save.keys THEN save.set[k] ELSE settings[k]]
  /\ save' = NoSave
  /\ userChose' = TRUE
  /\ UNCHANGED <<world, app, mdns, init, deleted, follow, conn, events>>

\* The bug of reconnecting on a change of the mode only.
ReconnectOnMode(modeChanged) == modeChanged

\* The handler of the manager's 'changed' reconnects when the mode changed, or
\* the account did in cloud mode.
Reconnects(modeChanged) == modeChanged \/ mode = "cloud"

\* 'changed': every registered device's onConnectionChanged.
Changed(modeChanged) ==
  /\ events < MaxEvents /\ events' = events + 1
  /\ IF Reconnects(modeChanged) /\ Registered THEN RestartClient ELSE UNCHANGED conn
  /\ UNCHANGED <<world, mdns, init, deleted, settings, save, follow, userChose>>

\* setMode; it returns early when nothing changes.
SetMode(m) ==
  /\ m # mode /\ mode' = m
  /\ Changed(TRUE)
  /\ UNCHANGED account

\* _adopt after a sign-in
SignIn(a) ==
  /\ a # account /\ account' = a
  /\ Changed(FALSE)
  /\ UNCHANGED mode

\* logout, which also reports a change when nobody was signed in.
SignOut ==
  /\ account' = NoAccount
  /\ Changed(FALSE)
  /\ UNCHANGED mode

-----------------------------------------------------------------------------

\* app.onInit: the manager restored an account or none, the watcher tracks
\* what discovery knew by then. A device with any settings it was paired with.
Init ==
  /\ hasId \in BOOLEAN /\ storeFails \in BOOLEAN
  /\ mode \in {"local", "cloud"} /\ account \in Accounts \cup {NoAccount}
  /\ found \in {Unseen, IPv6Only} \cup Addresses /\ tracked = Tracking(found)
  /\ init = "absent" /\ deleted = "no"
  /\ settings \in SettingsType /\ save = NoSave
  /\ following = NoAddress /\ writes = <<>>
  /\ client = NoClient /\ running = [c \in Clients |-> Idle] /\ restart = FALSE
  /\ userChose = FALSE /\ events = 0

User ==
  \/ \E new \in SettingsType : OnSettings(new)
  \/ \E m \in {"local", "cloud"} : SetMode(m)
  \/ \E a \in Accounts : SignIn(a)
  \/ SignOut
  \/ Delete

Continuations ==
  \/ InitStep \/ AddressStored \/ RestartFires
  \/ SettingsAccepted \/ SettingsRejected \/ SettingsStored

Next == OnInit \/ User \/ (\E a \in Addresses \cup {IPv6Only} : Announce(a)) \/ Continuations

Spec == Init /\ [][Next]_vars

\* An awaited write of Homey ends and a timer fires; nobody has to save,
\* sign in or move a robot.
FairSpec == Spec /\ WF_vars(Continuations) /\ WF_vars(RestartFires) /\ WF_vars(AddressStored)

-----------------------------------------------------------------------------
(* Properties.                                                             *)

\* No client runs but the device's own: whatever starts and restarts it, in
\* whatever order, an older client was stopped first
\* (NarwalHomeyDevice.js:131, 228). A device that was deleted while it awaited
\* nothing stays stopped, although the mode, the account and the robot's address
\* go on changing (NarwalHomeyDevice.js:276); one deleted during onInit's awaits,
\* or while a followed address or a save is being stored, does start a client.
OneClient ==
  /\ {c \in Clients : running[c] # Idle} = {client} \ {NoClient}
  /\ deleted = "settled" => client = NoClient /\ ~restart

\* Once no restart and no save is under way, a device that is not deleted is
\* connected exactly when it may be, and with the mode, account and address
\* that are in force now, though they change during onInit, during awaited
\* writes and while the restart timer runs.
ClientCurrent ==
  (init = "done" /\ deleted = "no" /\ ~restart /\ save = NoSave)
    => IF Refused THEN client = NoClient ELSE client # NoClient /\ running[client] = Wanted

\* A device takes the address its robot announces, whether the announcement
\* came before the device, during its onInit or while another address was being
\* stored; unless the user saved settings since, or Homey refuses the write
\* (README.md:81).
Follows ==
  \A a \in Addresses :
    (Registered /\ init = "done" /\ hasId /\ ~storeFails /\ found = a /\ ~userChose)
      ~> (settings.ip = a \/ found # a \/ settings.mock \/ userChose \/ deleted # "no")
=============================================================================
