--------------------------- MODULE Pairing_proofs ---------------------------
(***************************************************************************)
(* The device of DeviceLifecycle and the dialog of Pairing that makes it,  *)
(* for any number of addresses, accounts, clients, probes and changes.     *)
(*                                                                         *)
(* The first half is about the device alone: its variables keep their      *)
(* types, no client runs but the device's own, and that client is the one  *)
(* wanted. Every step that starts a client stops the old one in the same   *)
(* step, so what has to be carried along is that a started client is never *)
(* mistaken for an idle one, and that nothing of a device that was deleted *)
(* at rest is still awaited.                                               *)
(*                                                                         *)
(* The second half carries the device's invariant through the dialog, and  *)
(* shows that Homey has one device of a robot that names itself.           *)
(***************************************************************************)
EXTENDS Pairing, FiniteSetTheorems, TLAPS

\* The running clients, client by client.
OnlyOwn == \A c \in Clients : running[c] # Idle <=> c = client

\* A device deleted at rest awaits nothing that could wake it.
AtRest ==
  deleted = "settled" =>
    /\ client = NoClient /\ ~restart
    /\ init = "done" /\ writes = <<>> /\ save = NoSave

DeviceInv == TypeOK /\ OnlyOwn /\ AtRest

\* What a started client is given is no idle client.
LEMMA WantedGiven ==
  ASSUME TypeOK
  PROVE  Wanted \in Given /\ Wanted # Idle
<1>1. settings.ip \in Addresses \cup {NoAddress} /\ settings.mock \in BOOLEAN
  BY DEF TypeOK, SettingsType
<1>2. Wanted \in Given
  BY <1>1 DEF Wanted, Given, TypeOK
<1> QED
  BY <1>2, DeviceConstants

\* Stopping the device's client leaves none.
LEMMA NoneLeft ==
  ASSUME TypeOK, OnlyOwn
  PROVE  /\ StoppedClients \in [Clients -> Given \cup {Idle}]
         /\ \A c \in Clients : StoppedClients[c] = Idle
BY DEF StoppedClients, OnlyOwn, TypeOK

\* _startClient leaves at most the client it started.
LEMMA StartOne ==
  ASSUME TypeOK, OnlyOwn, StartClient
  PROVE  /\ restart' = FALSE /\ client' \in Clients \cup {NoClient}
         /\ running' \in [Clients -> Given \cup {Idle}]
         /\ OnlyOwn'
<1> USE NoneLeft, WantedGiven, DeviceConstants
<1>1. CASE Refused
  BY <1>1 DEF StartClient, OnlyOwn
<1>2. CASE ~Refused
  <2>1. PICK c \in Clients : client' = c /\ running' = [StoppedClients EXCEPT ![c] = Wanted]
    BY <1>2 DEF StartClient
  <2> QED
    BY <2>1, <1>2 DEF StartClient, OnlyOwn
<1> QED
  BY <1>1, <1>2

\* _restartClient leaves none and a restart timer.
LEMMA RestartNone ==
  ASSUME TypeOK, OnlyOwn, RestartClient
  PROVE  /\ restart' = TRUE /\ client' = NoClient
         /\ running' \in [Clients -> Given \cup {Idle}]
         /\ OnlyOwn'
BY NoneLeft, DeviceConstants DEF RestartClient, OnlyOwn

\* A route leaves only addresses to be stored.
LEMMA RouteTyped ==
  ASSUME TypeOK, NEW a \in Addresses \cup {IPv6Only, Unseen}, Route(a)
  PROVE  following' \in Addresses \cup {NoAddress} /\ writes' \in Seq(Addresses)
BY DeviceConstants DEF Route, OnDiscoveredAddress, PickIPv4, follow, TypeOK

LEMMA DeviceInvInit == Init => DeviceInv
<1> SUFFICES ASSUME Init PROVE DeviceInv
  OBVIOUS
<1>1. writes \in Seq(Addresses) /\ running \in [Clients -> Given \cup {Idle}]
  BY DEF Init
<1>2. /\ hasId \in BOOLEAN /\ storeFails \in BOOLEAN /\ restart \in BOOLEAN
      /\ userChose \in BOOLEAN /\ tracked \in BOOLEAN
  BY Zenon DEF Init, Tracking
<1>3. events \in 0..MaxEvents
  BY DeviceConstants DEF Init
<1>4. TypeOK
  BY <1>1, <1>2, <1>3 DEF Init, TypeOK, InitSteps
<1>5. OnlyOwn /\ AtRest
  BY DeviceConstants DEF Init, OnlyOwn, AtRest
<1> QED
  BY <1>4, <1>5 DEF DeviceInv

-----------------------------------------------------------------------------
(***************************************************************************)
(* Each step keeps the invariant.                                          *)
(***************************************************************************)

LEMMA RestartFiresKeeps == DeviceInv /\ RestartFires => DeviceInv'
<1> SUFFICES ASSUME DeviceInv, RestartFires PROVE DeviceInv'
  OBVIOUS
<1>1. /\ restart' = FALSE /\ client' \in Clients \cup {NoClient}
      /\ running' \in [Clients -> Given \cup {Idle}] /\ OnlyOwn'
  BY StartOne DEF DeviceInv, RestartFires
<1>2. TypeOK'
  BY <1>1 DEF DeviceInv, TypeOK, RestartFires, world, app, mdns, follow
<1>3. AtRest'
  BY DEF DeviceInv, AtRest, RestartFires
<1> QED
  BY <1>1, <1>2, <1>3 DEF DeviceInv

LEMMA AddressStoredKeeps == DeviceInv /\ AddressStored => DeviceInv'
<1> SUFFICES ASSUME DeviceInv, AddressStored PROVE DeviceInv'
  OBVIOUS
<1>1. /\ Head(writes) \in Addresses /\ Tail(writes) \in Seq(Addresses)
  BY DEF DeviceInv, TypeOK, AddressStored
<1>2. /\ following' = NoAddress /\ writes' \in Seq(Addresses)
      /\ UNCHANGED <<world, app, mdns, init, deleted, save, userChose, events>>
  BY <1>1 DEF AddressStored
<1>3. AtRest'
  BY DEF DeviceInv, AtRest, AddressStored
<1>4. CASE /\ settings' = [settings EXCEPT !.ip = Head(writes)] /\ RestartClient
  <2>1. settings' \in SettingsType
    BY <1>1, <1>4 DEF DeviceInv, TypeOK, SettingsType
  <2>2. /\ restart' = TRUE /\ client' = NoClient
        /\ running' \in [Clients -> Given \cup {Idle}] /\ OnlyOwn'
    BY <1>4, RestartNone DEF DeviceInv
  <2> QED
    BY <1>2, <1>3, <2>1, <2>2 DEF DeviceInv, TypeOK, world, app, mdns
<1>5. CASE UNCHANGED <<settings, conn>>
  BY <1>2, <1>3, <1>5 DEF DeviceInv, TypeOK, OnlyOwn, conn, world, app, mdns
<1> QED
  BY <1>4, <1>5 DEF AddressStored

LEMMA AnnounceKeeps ==
  ASSUME DeviceInv, NEW a \in Addresses \cup {IPv6Only}, Announce(a)
  PROVE  DeviceInv'
<1>1. following' \in Addresses \cup {NoAddress} /\ writes' \in Seq(Addresses)
  BY RouteTyped DEF DeviceInv, TypeOK, Announce, follow
<1>2. userChose' \in BOOLEAN /\ tracked' \in BOOLEAN
  BY Zenon DEF DeviceInv, TypeOK, Announce, Tracking
<1>3. events' \in 0..MaxEvents
  BY DeviceConstants DEF DeviceInv, TypeOK, Announce
<1>4. TypeOK'
  BY <1>1, <1>2, <1>3 DEF DeviceInv, TypeOK, Announce, world, app, conn
<1>5. OnlyOwn'
  BY DEF DeviceInv, OnlyOwn, Announce, conn
<1>6. AtRest'
  <2>1. deleted = "settled" => UNCHANGED follow
    BY DEF Announce, Registered
  <2> QED
    BY <2>1 DEF DeviceInv, AtRest, Announce, conn, follow
<1> QED
  BY <1>4, <1>5, <1>6 DEF DeviceInv

LEMMA OnInitKeeps == DeviceInv /\ OnInit => DeviceInv'
BY DEF OnInit, DeviceInv, TypeOK, InitSteps, OnlyOwn, AtRest, world, app, mdns, follow, conn

LEMMA InitStepKeeps == DeviceInv /\ InitStep => DeviceInv'
<1> SUFFICES ASSUME DeviceInv, InitStep PROVE DeviceInv'
  OBVIOUS
<1>1. AtRest'
  BY DEF DeviceInv, AtRest, InitStep, InitContinues
<1>2. init' \in InitSteps
  BY DEF InitStep, InitContinues, InitSteps
<1>3. CASE UNCHANGED <<follow, conn, userChose>>
  BY <1>1, <1>2, <1>3
  DEF DeviceInv, TypeOK, OnlyOwn, InitStep, world, app, mdns, follow, conn
<1>4. CASE StartAndCheck
  <2>1. /\ restart' = FALSE /\ client' \in Clients \cup {NoClient}
        /\ running' \in [Clients -> Given \cup {Idle}] /\ OnlyOwn'
    BY <1>4, StartOne DEF DeviceInv, StartAndCheck
  <2>2. following' \in Addresses \cup {NoAddress} /\ writes' \in Seq(Addresses)
    BY <1>4, RouteTyped DEF DeviceInv, TypeOK, StartAndCheck
  <2>3. userChose' \in BOOLEAN
    BY <1>4, Zenon DEF DeviceInv, TypeOK, StartAndCheck
  <2>4. TypeOK'
    BY <1>2, <2>1, <2>2, <2>3 DEF DeviceInv, TypeOK, InitStep, world, app, mdns
  <2> QED
    BY <1>1, <2>1, <2>4 DEF DeviceInv
<1> QED
  BY <1>3, <1>4 DEF InitStep, InitContinues

LEMMA DeleteKeeps == DeviceInv /\ Delete => DeviceInv'
<1> SUFFICES ASSUME DeviceInv, Delete PROVE DeviceInv'
  OBVIOUS
<1>1. /\ running' \in [Clients -> Given \cup {Idle}] /\ OnlyOwn'
  BY NoneLeft, DeviceConstants DEF Delete, DeviceInv, OnlyOwn
<1>2. deleted' \in {"no", "settled", "busy"}
  BY DEF Delete, Unregistered
<1>3. TypeOK'
  BY <1>1, <1>2 DEF Delete, DeviceInv, TypeOK, world, app, mdns, follow
<1>4. AtRest'
  BY DEF Delete, Unregistered, AtRest, follow
<1> QED
  BY <1>1, <1>3, <1>4 DEF DeviceInv

LEMMA OnSettingsKeeps ==
  ASSUME DeviceInv, NEW new \in SettingsType, OnSettings(new)
  PROVE  DeviceInv'
<1>1. save' \in Saves
  BY DEF OnSettings, Saves
<1>2. events' \in 0..MaxEvents
  BY DeviceConstants DEF DeviceInv, TypeOK, OnSettings
<1> QED
  BY <1>1, <1>2
  DEF DeviceInv, TypeOK, OnlyOwn, AtRest, OnSettings, world, app, mdns, follow, conn

LEMMA SettingsAcceptedKeeps == DeviceInv /\ SettingsAccepted => DeviceInv'
<1> SUFFICES ASSUME DeviceInv, SettingsAccepted PROVE DeviceInv'
  OBVIOUS
<1>1. save' \in Saves
  BY DEF DeviceInv, TypeOK, SettingsAccepted, SaveIs, Saves
<1>2. AtRest'
  BY DEF DeviceInv, AtRest, SettingsAccepted, SaveIs
<1>3. CASE RestartClient
  <2>1. /\ restart' = TRUE /\ client' = NoClient
        /\ running' \in [Clients -> Given \cup {Idle}] /\ OnlyOwn'
    BY <1>3, RestartNone DEF DeviceInv
  <2> QED
    BY <1>1, <1>2, <2>1 DEF DeviceInv, TypeOK, SettingsAccepted, world, app, mdns, follow
<1>4. CASE UNCHANGED conn
  BY <1>1, <1>2, <1>4
  DEF DeviceInv, TypeOK, OnlyOwn, SettingsAccepted, world, app, mdns, follow, conn
<1> QED
  BY <1>3, <1>4 DEF SettingsAccepted

LEMMA SettingsRejectedKeeps == DeviceInv /\ SettingsRejected => DeviceInv'
BY DEF SettingsRejected, DeviceInv, TypeOK, OnlyOwn, AtRest, SaveIs,
       world, app, mdns, follow, conn

LEMMA SettingsStoredKeeps == DeviceInv /\ SettingsStored => DeviceInv'
<1> SUFFICES ASSUME DeviceInv, SettingsStored PROVE DeviceInv'
  OBVIOUS
<1>1. save.set \in SettingsType /\ settings \in SettingsType
  BY DEF DeviceInv, TypeOK, SettingsStored, SaveIs, Saves
<1>2. settings' \in SettingsType
  BY <1>1 DEF SettingsStored, SettingsType
<1> QED
  BY <1>2
  DEF DeviceInv, TypeOK, OnlyOwn, AtRest, SettingsStored, SaveIs, world, app, mdns, follow, conn

LEMMA ChangedKeeps ==
  ASSUME DeviceInv, NEW m \in BOOLEAN, Changed(m),
         mode' \in {"local", "cloud"}, account' \in Accounts \cup {NoAccount}
  PROVE  DeviceInv'
<1>1. events' \in 0..MaxEvents
  BY DeviceConstants DEF DeviceInv, TypeOK, Changed
<1>2. CASE Registered /\ RestartClient
  <2>1. /\ restart' = TRUE /\ client' = NoClient
        /\ running' \in [Clients -> Given \cup {Idle}] /\ OnlyOwn'
    BY <1>2, RestartNone DEF DeviceInv
  <2>2. TypeOK'
    BY <1>1, <2>1 DEF DeviceInv, TypeOK, Changed, world, mdns, follow
  <2>3. AtRest'
    BY <1>2 DEF DeviceInv, AtRest, Changed, Registered
  <2> QED
    BY <2>1, <2>2, <2>3 DEF DeviceInv
<1>3. CASE UNCHANGED conn
  BY <1>1, <1>3 DEF DeviceInv, TypeOK, OnlyOwn, AtRest, Changed, world, mdns, follow, conn
<1> QED
  BY <1>2, <1>3 DEF Changed

LEMMA UserKeeps == DeviceInv /\ User => DeviceInv'
<1> SUFFICES ASSUME DeviceInv, User PROVE DeviceInv'
  OBVIOUS
<1>0. mode \in {"local", "cloud"} /\ account \in Accounts \cup {NoAccount}
  BY DEF DeviceInv, TypeOK
<1>1. ASSUME NEW new \in SettingsType, OnSettings(new) PROVE DeviceInv'
  BY <1>1, OnSettingsKeeps
<1>2. ASSUME NEW m \in {"local", "cloud"}, SetMode(m) PROVE DeviceInv'
  BY <1>0, <1>2, ChangedKeeps DEF SetMode
<1>3. ASSUME NEW a \in Accounts, SignIn(a) PROVE DeviceInv'
  BY <1>0, <1>3, ChangedKeeps DEF SignIn
<1>4. CASE SignOut
  BY <1>0, <1>4, ChangedKeeps DEF SignOut
<1>5. CASE Delete
  BY <1>5, DeleteKeeps
<1> QED
  BY <1>1, <1>2, <1>3, <1>4, <1>5 DEF User

LEMMA DeviceInvNext == DeviceInv /\ [Next]_vars => DeviceInv'
<1> SUFFICES ASSUME DeviceInv, [Next]_vars PROVE DeviceInv'
  OBVIOUS
<1>1. CASE OnInit
  BY <1>1, OnInitKeeps
<1>2. CASE User
  BY <1>2, UserKeeps
<1>3. ASSUME NEW a \in Addresses \cup {IPv6Only}, Announce(a) PROVE DeviceInv'
  BY <1>3, AnnounceKeeps
<1>4. CASE Continuations
  BY <1>4, InitStepKeeps, AddressStoredKeeps, RestartFiresKeeps, SettingsAcceptedKeeps,
     SettingsRejectedKeeps, SettingsStoredKeeps
  DEF Continuations
<1>5. CASE UNCHANGED vars
  BY <1>5
  DEF DeviceInv, TypeOK, OnlyOwn, AtRest, vars, world, app, mdns, follow, conn
<1> QED
  BY <1>1, <1>2, <1>3, <1>4, <1>5 DEF Next

-----------------------------------------------------------------------------

\* Every variable of the device keeps its type, whatever is announced, saved,
\* signed in and deleted during its awaits.
THEOREM DeviceTyped == Spec => []TypeOK
<1>1. DeviceInv => TypeOK
  BY DEF DeviceInv
<1> QED
  BY <1>1, DeviceInvInit, DeviceInvNext, PTL DEF Spec

\* No client runs but the device's own, and a device deleted at rest stays
\* stopped (NarwalHomeyDevice.js:131, 228, 276), for any number of addresses,
\* accounts, clients and changes.
THEOREM DeviceHasOneClient == Spec => []OneClient
<1>1. DeviceInv => OneClient
  BY DeviceConstants DEF DeviceInv, TypeOK, OnlyOwn, AtRest, OneClient
<1> QED
  BY <1>1, DeviceInvInit, DeviceInvNext, PTL DEF Spec

-----------------------------------------------------------------------------
(***************************************************************************)
(* The client is the one that is wanted.                                   *)
(***************************************************************************)

\* The client of a device that may connect, and none of one that may not.
AsWanted == IF Refused THEN client = NoClient ELSE client # NoClient /\ running[client] = Wanted

\* ClientCurrent with what a save needs: the client stays right while a save is
\* checked, and a save that changes the connection leaves a restart timer running
\* until it is stored.
CurrentInv ==
  /\ save # NoSave => init = "done"
  /\ deleted = "no" /\ init = "done" /\ ~restart => AsWanted
  /\ deleted = "no" /\ SaveIs("storing") /\ save.keys # {} => restart

\* _startClient makes the client that is wanted by what it leaves unchanged.
LEMMA StartsWanted ==
  ASSUME TypeOK, OnlyOwn, StartClient, UNCHANGED <<mode, account, settings, hasId>>
  PROVE  AsWanted'
<1>1. Refused' = Refused /\ Wanted' = Wanted
  BY DEF Refused, Wanted
<1>2. CASE Refused
  BY <1>1, <1>2 DEF StartClient, AsWanted
<1>3. CASE ~Refused
  <2>1. PICK c \in Clients : client' = c /\ running' = [StoppedClients EXCEPT ![c] = Wanted]
    BY <1>3 DEF StartClient
  <2>2. running'[c] = Wanted /\ c # NoClient
    BY <2>1, DeviceConstants DEF StoppedClients
  <2> QED
    BY <1>1, <1>3, <2>1, <2>2 DEF AsWanted
<1> QED
  BY <1>2, <1>3

\* What leaves the connection and what decides it alone leaves the client right.
LEMMA StaysWanted ==
  ASSUME UNCHANGED <<mode, account, settings, hasId, conn>>
  PROVE  AsWanted' = AsWanted
<1>1. Refused' = Refused /\ Wanted' = Wanted
  BY DEF Refused, Wanted
<1> QED
  BY <1>1 DEF AsWanted, conn

\* The account does not matter to a local device.
LEMMA ChangedKeepsCurrent ==
  ASSUME TypeOK, CurrentInv, NEW m \in BOOLEAN, Changed(m),
         \/ m = TRUE
         \/ m = FALSE /\ mode' = mode
  PROVE  CurrentInv'
<1>1. UNCHANGED <<world, init, deleted, settings, save>>
  BY DEF Changed
<1>2. CASE restart' = TRUE
  BY <1>1, <1>2 DEF CurrentInv, SaveIs
<1>3. CASE ~Registered
  <2>1. UNCHANGED conn
    BY <1>3 DEF Changed
  <2> QED
    BY <1>1, <1>3, <2>1 DEF CurrentInv, SaveIs, Registered, conn
<1>4. CASE Registered /\ restart' # TRUE
  <2>1. ~Reconnects(m) /\ UNCHANGED conn
    BY <1>4 DEF Changed, RestartClient
  <2>2. mode # "cloud" /\ mode' # "cloud" /\ mode' = mode
    BY <2>1 DEF Reconnects
  <2>3. Refused' = Refused /\ Wanted' = Wanted
    BY <1>1, <2>2 DEF Refused, Wanted, world
  <2>4. AsWanted' = AsWanted
    BY <2>1, <2>3 DEF AsWanted, conn
  <2> QED
    BY <1>1, <2>1, <2>4 DEF CurrentInv, SaveIs, conn
<1> QED
  BY <1>2, <1>3, <1>4

LEMMA CurrentNext == DeviceInv /\ CurrentInv /\ [Next]_vars => CurrentInv'
<1> SUFFICES ASSUME DeviceInv, CurrentInv, [Next]_vars PROVE CurrentInv'
  OBVIOUS
<1> USE DEF DeviceInv
<1>1. CASE OnInit
  BY <1>1 DEF OnInit, CurrentInv, SaveIs, conn
<1>2. CASE InitStep
  <2>1. CASE StartAndCheck
    <3>1. AsWanted'
      BY <1>2, <2>1, StartsWanted DEF InitStep, StartAndCheck, app, world
    <3>2. save = NoSave
      BY <1>2 DEF InitStep, InitContinues, CurrentInv
    <3> QED
      BY <1>2, <3>1, <3>2 DEF InitStep, InitContinues, CurrentInv, SaveIs
  <2>2. CASE init' # "done" /\ save = NoSave
    BY <1>2, <2>2 DEF InitStep, CurrentInv, SaveIs
  <2> QED
    BY <1>2, <2>1, <2>2 DEF InitStep, InitContinues, CurrentInv
<1>3. CASE AddressStored
  <2>1. CASE RestartClient
    BY <1>3, <2>1 DEF AddressStored, RestartClient, CurrentInv, SaveIs
  <2>2. CASE UNCHANGED <<settings, conn>>
    <3>1. AsWanted' = AsWanted
      BY <1>3, <2>2, StaysWanted DEF AddressStored, app, world
    <3> QED
      BY <1>3, <2>2, <3>1 DEF AddressStored, CurrentInv, SaveIs, conn
  <2> QED
    BY <1>3, <2>1, <2>2 DEF AddressStored
<1>4. CASE RestartFires
  <2>1. AsWanted' /\ restart' = FALSE
    BY <1>4, StartsWanted DEF RestartFires, StartClient, app, world
  <2> QED
    BY <1>4, <2>1 DEF RestartFires, CurrentInv, SaveIs
<1>5. CASE SettingsAccepted
  <2>1. save # NoSave /\ save'.at = "storing" /\ save'.keys = save.keys /\ init = "done"
    BY <1>5 DEF SettingsAccepted, SaveIs, TypeOK, Saves, CurrentInv
  <2>2. CASE RestartClient
    BY <1>5, <2>1, <2>2 DEF SettingsAccepted, RestartClient, CurrentInv
  <2>3. CASE save.keys = {} /\ UNCHANGED conn
    <3>1. AsWanted' = AsWanted
      BY <1>5, <2>3, StaysWanted DEF SettingsAccepted, app, world
    <3> QED
      BY <1>5, <2>1, <2>3, <3>1 DEF SettingsAccepted, CurrentInv, conn
  <2> QED
    BY <1>5, <2>2, <2>3 DEF SettingsAccepted
<1>6. CASE SettingsRejected
  <2>1. AsWanted' = AsWanted
    BY <1>6, StaysWanted DEF SettingsRejected, app, world
  <2> QED
    BY <1>6, <2>1 DEF SettingsRejected, CurrentInv, SaveIs, conn
<1>7. CASE SettingsStored
  <2>1. CASE deleted # "no"
    BY <1>7, <2>1 DEF SettingsStored, CurrentInv, SaveIs
  <2>2. CASE deleted = "no" /\ save.keys # {}
    BY <1>7, <2>2 DEF SettingsStored, CurrentInv, SaveIs, conn
  <2>3. CASE save.keys = {}
    <3>1. settings' = settings
      BY <1>7, <2>3 DEF SettingsStored, TypeOK, SettingsType
    <3>2. AsWanted' = AsWanted
      BY <1>7, <3>1, StaysWanted DEF SettingsStored, app, world
    <3> QED
      BY <1>7, <3>2 DEF SettingsStored, CurrentInv, SaveIs, conn
  <2> QED
    BY <2>1, <2>2, <2>3
<1>8. ASSUME NEW a \in Addresses \cup {IPv6Only}, Announce(a) PROVE CurrentInv'
  <2>1. AsWanted' = AsWanted
    BY <1>8, StaysWanted DEF Announce, app, world
  <2> QED
    BY <1>8, <2>1 DEF Announce, CurrentInv, SaveIs, conn
<1>9. ASSUME NEW new \in SettingsType, OnSettings(new) PROVE CurrentInv'
  <2>1. AsWanted' = AsWanted
    BY <1>9, StaysWanted DEF OnSettings, app, world
  <2>2. save'.at = "validating" /\ init' = "done"
    BY <1>9 DEF OnSettings
  <2> QED
    BY <1>9, <2>1, <2>2 DEF OnSettings, CurrentInv, SaveIs, conn
<1>10. ASSUME NEW m \in {"local", "cloud"}, SetMode(m) PROVE CurrentInv'
  BY <1>10, ChangedKeepsCurrent DEF SetMode
<1>11. CASE SignOut \/ \E a \in Accounts : SignIn(a)
  BY <1>11, ChangedKeepsCurrent DEF SignOut, SignIn
<1>12. CASE Delete
  BY <1>12 DEF Delete, Registered, Unregistered, CurrentInv, SaveIs
<1>13. CASE UNCHANGED vars
  <2>1. AsWanted' = AsWanted
    BY <1>13, StaysWanted DEF vars, app, world
  <2> QED
    BY <1>13, <2>1 DEF vars, CurrentInv, SaveIs, conn
<1> QED
  BY <1>1, <1>2, <1>3, <1>4, <1>5, <1>6, <1>7, <1>8, <1>9, <1>10, <1>11, <1>12, <1>13
  DEF Next, User, Continuations

LEMMA CurrentInit == Init => CurrentInv
BY DEF Init, CurrentInv, SaveIs

LEMMA CurrentClient == CurrentInv => ClientCurrent
BY DEF CurrentInv, ClientCurrent, AsWanted

\* A device at rest is connected exactly when it may be, and with the mode, account
\* and address in force, though they change during onInit, during awaited writes
\* and while the restart timer runs (NarwalHomeyDevice.js:228), for any number of
\* addresses, accounts, clients and changes.
THEOREM DeviceIsCurrent == Spec => []ClientCurrent
<1>1. Init => DeviceInv /\ CurrentInv
  BY DeviceInvInit, CurrentInit
<1>2. DeviceInv /\ CurrentInv /\ [Next]_vars => DeviceInv' /\ CurrentInv'
  BY DeviceInvNext, CurrentNext
<1> QED
  BY <1>1, <1>2, CurrentClient, PTL DEF Spec

-----------------------------------------------------------------------------


\* What a device is made of when a probe was answered.
ProbesTyped ==
  /\ DOMAIN probe = Probes
  /\ \A p \in Probes : probe[p].ip \in Addresses \cup {NoAddress} /\ probe[p].named \in BOOLEAN

\* The devices of a robot that always named itself have one id.
ByName == ~nameless => devices \subseteq {Self}

PairInv == DeviceInv /\ ProbesTyped /\ ByName

\* AddDevice keeps the device's types: a device knows its robot's id or not,
\* and has an address or none.
LEMMA AddDeviceKeeps ==
  ASSUME DeviceInv, ByName, NEW ip \in Addresses \cup {NoAddress}, NEW named \in BOOLEAN,
         AddDevice(CreatePairDevice(ip, named)),
         UNCHANGED <<storeFails, app, mdns, init, deleted, save, follow, conn, userChose, events>>
  PROVE  DeviceInv' /\ ByName'
<1> DEFINE device == CreatePairDevice(ip, named)
<1>1. /\ device.ip = ip /\ device.hasId = named /\ (named => device.id = Self)
  BY DEF CreatePairDevice
<1>2. CASE UNCHANGED added
  BY <1>2
  DEF DeviceInv, TypeOK, OnlyOwn, AtRest, ByName, added, app, mdns, follow, conn
<1>3. CASE /\ devices' = devices \cup {device.id}
           /\ nameless' = (nameless \/ ~device.hasId)
           /\ hasId' = device.hasId
           /\ settings' = [ip |-> device.ip, mock |-> FALSE]
  <2>1. hasId' \in BOOLEAN /\ settings' \in SettingsType
    BY <1>1, <1>3 DEF SettingsType
  <2>2. DeviceInv'
    BY <2>1 DEF DeviceInv, TypeOK, OnlyOwn, AtRest, app, mdns, follow, conn
  <2>3. ByName'
    BY <1>1, <1>3 DEF ByName
  <2> QED
    BY <2>2, <2>3
<1> QED
  BY <1>2, <1>3 DEF AddDevice

\* A probe that is asked, or whose record is cleared, is typed.
LEMMA AskedTyped ==
  ASSUME ProbesTyped, NEW p \in Probes, NEW who, NEW ip \in Addresses \cup {NoAddress},
         \/ probe' = [probe EXCEPT ![p] = Asking(who, ip)]
         \/ probe' = [probe EXCEPT ![p] = Unused]
  PROVE  ProbesTyped'
<1>1. CASE probe' = [probe EXCEPT ![p] = Asking(who, ip)]
  <2>1. Asking(who, ip).ip = ip /\ Asking(who, ip).named = FALSE
    BY DEF Asking
  <2> QED
    BY <1>1, <2>1 DEF ProbesTyped
<1>2. CASE probe' = [probe EXCEPT ![p] = Unused]
  <2>1. Unused.ip = NoAddress /\ Unused.named = FALSE
    BY DEF Unused
  <2> QED
    BY <1>2, <2>1 DEF ProbesTyped
<1> QED
  BY <1>1, <1>2

LEMMA PairInvInit == PairInit => PairInv
<1> SUFFICES ASSUME PairInit PROVE PairInv
  OBVIOUS
<1>1. DeviceInv
  BY DeviceInvInit DEF PairInit
<1>2. ProbesTyped
  BY DEF PairInit, ProbesTyped, Unused
<1>3. (CHOOSE a \in Addresses : TRUE) \in Addresses
  BY PairingConstants
<1>4. ByName
  BY <1>3 DEF PairInit, DialogOpens, PairedBefore, ByName
<1> QED
  BY <1>1, <1>2, <1>4 DEF PairInv

-----------------------------------------------------------------------------

\* A step that leaves the device and the devices alone keeps what is said of them.
LEMMA Aside ==
  ASSUME PairInv, UNCHANGED <<devices, nameless, vars>>
  PROVE  DeviceInv' /\ ByName'
<1>1. DeviceInv'
  BY DeviceInvNext DEF PairInv
<1>2. ByName'
  BY DEF PairInv, ByName
<1> QED
  BY <1>1, <1>2

LEMMA ProbeStepKeeps == PairInv /\ ProbeStep => PairInv'
<1> SUFFICES ASSUME PairInv, ProbeStep PROVE PairInv'
  OBVIOUS
<1>1. DeviceInv' /\ ByName'
  BY Aside DEF ProbeStep
<1>2. PICK p \in Probes : Opened(p) \/ ProbeFails(p) \/ \E f \in Frames : Message(p, f)
  BY DEF ProbeStep
<1>3. CASE Opened(p)
  BY <1>1, <1>3 DEF PairInv, ProbesTyped, Opened
<1>4. CASE ProbeFails(p)
  BY <1>1, <1>4 DEF PairInv, ProbesTyped, ProbeFails, Finish
<1>5. ASSUME NEW f \in Frames, Message(p, f) PROVE PairInv'
  <2>1. Names(p, f) \in BOOLEAN
    BY Zenon DEF PairInv, ProbesTyped, Names, Frames
  <2> DEFINE heard == [probe EXCEPT ![p].named = Names(p, f)]
  <2>2. CASE probe' = heard
    BY <1>1, <2>1, <2>2 DEF PairInv, ProbesTyped
  <2>3. CASE probe' = [heard EXCEPT ![p] = [Finish(p, "ok") EXCEPT !.named = Names(p, f)]]
    BY <1>1, <2>1, <2>3 DEF PairInv, ProbesTyped, Finish
  <2> QED
    BY <1>5, <2>2, <2>3 DEF Message
<1> QED
  BY <1>2, <1>3, <1>4, <1>5

LEMMA DialogKeeps == PairInv /\ Dialog => PairInv'
<1> SUFFICES ASSUME PairInv, Dialog PROVE PairInv'
  OBVIOUS
<1>0. /\ NoAddress \in Addresses \cup {NoAddress}
      /\ PickIPv4(found) \in Addresses \cup {NoAddress}
  BY DEF PickIPv4
<1>1. CASE Discover
  <2>1. DeviceInv' /\ ByName'
    BY <1>1, Aside DEF Discover
  <2> DEFINE earlier == [p \in Probes |-> IF probe[p].for = "list"
                           THEN [probe[p] EXCEPT !.for = "nobody"] ELSE probe[p]]
  <2>2. \A p \in Probes : /\ earlier[p].ip \in Addresses \cup {NoAddress}
                          /\ earlier[p].named \in BOOLEAN
    BY DEF PairInv, ProbesTyped
  <2>3. CASE probe' = earlier
    BY <2>1, <2>2, <2>3 DEF PairInv, ProbesTyped
  <2>4. ASSUME NEW p \in Probes,
               probe' = [earlier EXCEPT ![p] = Asking("list", PickIPv4(found))]
        PROVE  PairInv'
    BY <1>0, <2>1, <2>2, <2>4 DEF PairInv, ProbesTyped, Asking
  <2> QED
    BY <1>1, <2>3, <2>4 DEF Discover
<1>2. CASE Retry
  BY <1>0, <1>2, Aside, AskedTyped DEF Retry, PairInv
<1>3. CASE ListCloudRobots
  BY <1>3, Aside DEF ListCloudRobots, PairInv, ProbesTyped
<1>4. CASE AddCloudRobot
  BY <1>4, Aside DEF AddCloudRobot, PairInv, ProbesTyped
<1>5. CASE CloudDevice
  <2>1. ProbesTyped'
    BY <1>5 DEF CloudDevice, PairInv, ProbesTyped
  <2>2. CASE AddDevice(CreatePairDevice(PickIPv4(found), TRUE))
    BY <1>0, <1>5, <2>1, <2>2, AddDeviceKeeps DEF CloudDevice, PairInv
  <2>3. CASE UNCHANGED <<view, list, added>>
    <3>1. UNCHANGED <<devices, nameless, vars>>
      BY <1>5, <2>3 DEF CloudDevice, added, vars, world
    <3> QED
      BY <2>1, <3>1, Aside DEF PairInv
  <2> QED
    BY <1>5, <2>2, <2>3 DEF CloudDevice
<1>6. ASSUME NEW a \in Addresses, Connect(a) PROVE PairInv'
  BY <1>6, Aside, AskedTyped DEF Connect, PairInv
<1>7. ASSUME NEW p \in Probes, Identified(p) PROVE PairInv'
  BY <1>0, <1>7, Aside, AskedTyped DEF Identified, PairInv
<1>8. ASSUME NEW p \in Probes, Validated(p) PROVE PairInv'
  <2>1. ProbesTyped'
    BY <1>0, <1>8, AskedTyped DEF Validated, PairInv
  <2>2. CASE AddDevice(CreatePairDevice(probe[p].ip, probe[p].named))
    <3>1. probe[p].ip \in Addresses \cup {NoAddress} /\ probe[p].named \in BOOLEAN
      BY DEF PairInv, ProbesTyped
    <3> QED
      BY <1>8, <2>1, <2>2, <3>1, AddDeviceKeeps DEF Validated, PairInv
  <2>3. CASE UNCHANGED <<view, list, added>>
    <3>1. UNCHANGED <<devices, nameless, vars>>
      BY <1>8, <2>3 DEF Validated, added, vars, world
    <3> QED
      BY <2>1, <3>1, Aside DEF PairInv
  <2> QED
    BY <1>8, <2>2, <2>3 DEF Validated
<1> QED
  BY <1>1, <1>2, <1>3, <1>4, <1>5, <1>6, <1>7, <1>8 DEF Dialog

LEMMA PairInvNext == PairInv /\ [PairNext]_<<vars, pairing>> => PairInv'
<1> SUFFICES ASSUME PairInv, [PairNext]_<<vars, pairing>> PROVE PairInv'
  OBVIOUS
<1>1. CASE Dialog
  BY <1>1, DialogKeeps
<1>2. CASE ProbeStep
  BY <1>2, ProbeStepKeeps
<1>3. CASE Lives(Next)
  <2>1. DeviceInv'
    BY <1>3, DeviceInvNext DEF Lives, PairInv
  <2> QED
    BY <1>3, <2>1 DEF Lives, PairInv, ProbesTyped, ByName, pairing
<1>4. CASE UNCHANGED <<vars, pairing>>
  BY <1>4, Aside DEF PairInv, ProbesTyped, pairing
<1> QED
  BY <1>1, <1>2, <1>3, <1>4 DEF PairNext

-----------------------------------------------------------------------------

\* A device born in the dialog keeps its types and runs one client, for any
\* number of probes, addresses, accounts, clients and changes.
THEOREM PairedHasOneClient == PairSpec => [](TypeOK /\ OneClient)
<1>1. PairInv => TypeOK /\ OneClient
  BY DeviceConstants DEF PairInv, DeviceInv, TypeOK, OnlyOwn, AtRest, OneClient
<1> QED
  BY <1>1, PairInvInit, PairInvNext, PTL DEF PairSpec

\* Homey has one device of a robot that names itself in every answer, however
\* it is added (NarwalHomeyDriver.js:46, 153).
THEOREM RobotHasOneDevice == PairSpec => []OneDevice
<1>1. ASSUME PairInv PROVE OneDevice
  <2> SUFFICES ASSUME ~nameless PROVE Cardinality(devices) <= 1
    BY DEF OneDevice
  <2>1. devices = {} \/ devices = {Self}
    BY <1>1 DEF PairInv, ByName
  <2>2. Cardinality({}) = 0 /\ Cardinality({Self}) = 1
    BY FS_EmptySet, FS_Singleton
  <2> QED
    BY <2>1, <2>2
<1> QED
  BY <1>1, PairInvInit, PairInvNext, PTL DEF PairSpec

-----------------------------------------------------------------------------
(***************************************************************************)
(* The client of a device that was just paired. What adds a device may     *)
(* change its id and its address, so the dialog must have nothing left to  *)
(* add once the device lives: the last validating probe closes it.         *)
(***************************************************************************)

\* A device does not live before its dialog is over, and what is validated is
\* validated alone, in a dialog that is open.
AddsOnce ==
  /\ init # "absent" => view = "closed"
  /\ \A p \in Probes : probe[p].for = "validate" => view = "search" /\ busy
  /\ \A p, q \in Probes : probe[p].for = "validate" /\ probe[q].for = "validate" => p = q

\* Nobody validates when a probe starts for the list, or one is forgotten.
LEMMA NoneValidates ==
  ASSUME ProbesTyped, AddsOnce, NEW p \in Probes, NEW who, NEW ip, who # "validate",
         \/ probe' = [probe EXCEPT ![p] = Asking(who, ip)]
         \/ probe' = [probe EXCEPT ![p] = Unused],
         UNCHANGED <<view, busy, init>>
  PROVE  AddsOnce'
<1>1. Asking(who, ip).for # "validate" /\ Unused.for # "validate"
  BY DEF Asking, Unused
<1>2. \A q \in Probes : probe'[q].for = "validate" => probe[q].for = "validate"
  BY <1>1 DEF ProbesTyped
<1> QED
  BY <1>2 DEF AddsOnce

\* A step of the dialog that adds nothing.
LEMMA SameValidates ==
  ASSUME AddsOnce, \A q \in Probes : probe'[q].for = "validate" => probe[q].for = "validate",
         UNCHANGED <<view, busy, init>>
  PROVE  AddsOnce'
BY DEF AddsOnce

LEMMA AddsOnceProbe == ProbesTyped /\ AddsOnce /\ ProbeStep => AddsOnce'
<1> SUFFICES ASSUME ProbesTyped, AddsOnce, ProbeStep PROVE AddsOnce'
  OBVIOUS
<1>1. UNCHANGED <<view, busy, init>>
  BY DEF ProbeStep, dialog, vars
<1>2. PICK p \in Probes : Opened(p) \/ ProbeFails(p) \/ \E f \in Frames : Message(p, f)
  BY DEF ProbeStep
<1>3. \A q \in Probes : probe'[q].for = probe[q].for
  <2>1. CASE Opened(p)
    BY <2>1 DEF ProbesTyped, Opened
  <2>2. CASE ProbeFails(p)
    BY <2>2 DEF ProbesTyped, ProbeFails, Finish
  <2>3. ASSUME NEW f \in Frames, Message(p, f)
        PROVE  \A q \in Probes : probe'[q].for = probe[q].for
    <3> DEFINE heard == [probe EXCEPT ![p].named = Names(p, f)]
    <3>1. CASE probe' = heard
      BY <3>1 DEF ProbesTyped
    <3>2. CASE probe' = [heard EXCEPT ![p] = [Finish(p, "ok") EXCEPT !.named = Names(p, f)]]
      BY <3>2 DEF ProbesTyped, Finish
    <3> QED
      BY <2>3, <3>1, <3>2 DEF Message
  <2> QED
    BY <1>2, <2>1, <2>2, <2>3
<1> QED
  BY <1>1, <1>3, SameValidates

LEMMA AddsOnceDialog == ProbesTyped /\ AddsOnce /\ Dialog => AddsOnce'
<1> SUFFICES ASSUME ProbesTyped, AddsOnce, Dialog PROVE AddsOnce'
  OBVIOUS
<1>1. CASE Discover
  <2> DEFINE earlier == [p \in Probes |-> IF probe[p].for = "list"
                           THEN [probe[p] EXCEPT !.for = "nobody"] ELSE probe[p]]
  <2>1. UNCHANGED <<view, busy, init>>
    BY <1>1 DEF Discover, vars
  <2>2. \A q \in Probes : earlier[q].for = "validate" => probe[q].for = "validate"
    OBVIOUS
  <2>3. ASSUME NEW p \in Probes, probe' = [earlier EXCEPT ![p] = Asking("list", PickIPv4(found))]
        PROVE  AddsOnce'
    <3>1. \A q \in Probes : probe'[q].for = "validate" => probe[q].for = "validate"
      BY <2>2, <2>3 DEF Asking
    <3> QED
      BY <2>1, <3>1, SameValidates
  <2>4. CASE probe' = earlier
    BY <2>1, <2>2, <2>4, SameValidates
  <2> QED
    BY <1>1, <2>3, <2>4 DEF Discover
<1>2. CASE Retry
  <2>1. "list" # "validate"
    OBVIOUS
  <2> QED
    BY <1>2, <2>1, NoneValidates DEF Retry, vars
<1>3. CASE ListCloudRobots
  BY <1>3, SameValidates DEF ListCloudRobots, vars
<1>4. CASE AddCloudRobot
  BY <1>4 DEF AddCloudRobot, AddsOnce, vars
<1>5. CASE CloudDevice
  <2>1. /\ view = "cloud" /\ UNCHANGED <<probe, init>>
        /\ view' = "cloud" \/ view' = "closed"
    BY <1>5 DEF CloudDevice, AddDevice
  <2> QED
    BY <2>1 DEF AddsOnce
<1>6. ASSUME NEW a \in Addresses, Connect(a) PROVE AddsOnce'
  <2>1. PICK p \in Probes : probe' = [probe EXCEPT ![p] = Asking("validate", a)]
    BY <1>6 DEF Connect
  <2>2. \A q \in Probes \ {p} : probe'[q].for # "validate"
    BY <1>6, <2>1 DEF Connect, AddsOnce, ProbesTyped
  <2> QED
    BY <1>6, <2>2 DEF Connect, AddsOnce, vars
<1>7. ASSUME NEW p \in Probes, Identified(p) PROVE AddsOnce'
  <2>1. "list" # "validate" /\ probe' = [probe EXCEPT ![p] = Unused]
    BY <1>7 DEF Identified
  <2> QED
    BY <1>7, <2>1, NoneValidates DEF Identified, vars
<1>8. ASSUME NEW p \in Probes, Validated(p) PROVE AddsOnce'
  <2>1. \A q \in Probes : probe'[q].for # "validate"
    BY <1>8 DEF Validated, AddsOnce, ProbesTyped, Unused
  <2>2. view = "search" /\ init' = init
    BY <1>8 DEF Validated, AddsOnce
  <2> QED
    BY <2>1, <2>2 DEF AddsOnce
<1> QED
  BY <1>1, <1>2, <1>3, <1>4, <1>5, <1>6, <1>7, <1>8 DEF Dialog

\* The dialog changes what a device connects with, of a device that does not live.
LEMMA DialogKeepsCurrent == AddsOnce /\ CurrentInv /\ Dialog => CurrentInv'
<1> SUFFICES ASSUME AddsOnce, CurrentInv, Dialog PROVE CurrentInv'
  OBVIOUS
<1>1. /\ UNCHANGED <<mode, account, init, deleted, save, conn>>
      /\ view # "closed" \/ UNCHANGED <<settings, hasId>>
  BY DEF Dialog, Discover, Retry, ListCloudRobots, AddCloudRobot, CloudDevice, Connect,
         Identified, Validated, AddsOnce, vars, app, world
<1>2. CASE view # "closed"
  BY <1>1, <1>2 DEF AddsOnce, CurrentInv, SaveIs
<1>3. CASE UNCHANGED <<settings, hasId>>
  <2>1. AsWanted' = AsWanted
    BY <1>1, <1>3, StaysWanted
  <2> QED
    BY <1>1, <2>1 DEF CurrentInv, SaveIs, conn
<1> QED
  BY <1>1, <1>2, <1>3

LEMMA PairedCurrentNext ==
  PairInv /\ AddsOnce /\ CurrentInv /\ [PairNext]_<<vars, pairing>> => AddsOnce' /\ CurrentInv'
<1> SUFFICES ASSUME PairInv, AddsOnce, CurrentInv, [PairNext]_<<vars, pairing>>
             PROVE  AddsOnce' /\ CurrentInv'
  OBVIOUS
<1>1. CASE Dialog
  BY <1>1, AddsOnceDialog, DialogKeepsCurrent DEF PairInv
<1>2. CASE ProbeStep
  <2>1. UNCHANGED vars
    BY <1>2 DEF ProbeStep
  <2> QED
    BY <1>2, <2>1, AddsOnceProbe, CurrentNext DEF PairInv
<1>3. CASE Lives(Next)
  <2>1. view = "closed" /\ UNCHANGED <<view, list, busy, probe>>
    BY <1>3 DEF Lives, Paired, pairing, dialog
  <2>2. AddsOnce'
    BY <2>1 DEF AddsOnce
  <2> QED
    BY <1>3, <2>2, CurrentNext DEF Lives, PairInv
<1>4. CASE UNCHANGED <<vars, pairing>>
  <2>1. UNCHANGED <<vars, init, view, busy, probe>>
    BY <1>4 DEF vars, pairing, dialog
  <2> QED
    BY <2>1, SameValidates, CurrentNext DEF PairInv
<1> QED
  BY <1>1, <1>2, <1>3, <1>4 DEF PairNext

LEMMA PairedCurrentInit == PairInit => AddsOnce /\ CurrentInv
BY CurrentInit DEF PairInit, Init, AddsOnce, Unused

\* A device that was paired in the dialog is connected with the mode, the account
\* and the address in force, from its first start on (NarwalHomeyDevice.js:100, 228),
\* for any number of probes, addresses, accounts, clients and changes.
THEOREM PairedIsCurrent == PairSpec => []ClientCurrent
<1>1. PairInit => PairInv /\ AddsOnce /\ CurrentInv
  BY PairInvInit, PairedCurrentInit
<1>2. PairInv /\ AddsOnce /\ CurrentInv /\ [PairNext]_<<vars, pairing>>
        => PairInv' /\ AddsOnce' /\ CurrentInv'
  BY PairInvNext, PairedCurrentNext
<1> QED
  BY <1>1, <1>2, CurrentClient, PTL DEF PairSpec
=============================================================================
