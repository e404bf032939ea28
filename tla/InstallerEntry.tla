--------------------------- MODULE InstallerEntry ---------------------------
(***************************************************************************)
(* The first pages of the installer's window (pages.py): welcome, low       *)
(* battery, Secure Boot, network, and the page of optional downloads, with  *)
(* the Wi-Fi workers and NetworkManager of WifiConnection beside them.      *)
(* "choices" stands for the keyboard and the software page, which treat     *)
(* optional downloads alike.                                                *)
(*                                                                          *)
(*   front    the page in front                                             *)
(*   machine  whether its battery reads low, whether a cable is plugged in  *)
(*   monitor  what the network monitor of the window last heard: online     *)
(*   shared   the dictionary all pages share                                *)
(*   power    the low-battery page                                          *)
(*   page     the network page: its instance, its operation, what it shows  *)
(*   scan     the newest background request of that page                    *)
(***************************************************************************)
EXTENDS WifiConnection

CONSTANTS
  Options,   \* the optional downloads
  Wanted,    \* those that are preferred when the window opens
  Forms      \* what the person may fill in, by kind of network

VARIABLES front, machine, monitor, shared, power, page, scan

vars == <<nm, calls, ops, left, front, machine, monitor, shared, power, page, scan>>

NoScan == [stage |-> "none", force |-> FALSE, on |-> FALSE, rows |-> {}]
NoDialog == [ssid |-> ""]

\* build_network_page
NewPage(instance) ==
  [instance |-> instance, op |-> 0, rows |-> {}, saved |-> {}, known |-> FALSE, radio |-> FALSE,
   refresh |-> TRUE, dialog |-> NoDialog]

NoPowerPage == [shown |-> FALSE, low |-> FALSE, tick |-> FALSE, next |-> FALSE]
Online == machine.wired \/ nm.up.state = "activated"

\* _ensure_initial_page_route: the probes that decide the route are made once.
Init ==
  /\ \E m \in Machines :
       /\ WifiInit(m)
       /\ machine = [low |-> m.low, wired |-> m.wired]
       /\ monitor = m.wired
       /\ shared = [low |-> m.low, override |-> FALSE, planned |-> ~m.wired, secure |-> m.secure,
                    built |-> FALSE, preferred |-> Wanted, chosen |-> Wanted]
  /\ front = "welcome"
  /\ power = NoPowerPage
  /\ page = NewPage(1)
  /\ scan = NoScan

pages == <<front, machine, shared, power, page>>

-----------------------------------------------------------------------------
(* Scans of the network page *)

Mapped == front = "network"

\* scan_requests.invalidate: the result of the running request will be dropped.
Invalidated(s) == NoScan

\* _show_radio_state
ShowRadioState(p, on) == [p EXCEPT !.known = TRUE, !.radio = on]

\* _apply_scan with an error: no rows; the profiles of the last scan are kept.
ScanFailed(p) == [p EXCEPT !.rows = {}, !.refresh = TRUE]

\* _scan_wifi: not during an operation, not while another page is in front. The
\* radio is read at once, the rest in the background; if it cannot be read, the
\* request that runs is left alone.
ScanWifi(p, s, force, fails) ==
  IF p.op # 0 THEN [page |-> p, scan |-> s]
  ELSE IF fails THEN [page |-> ScanFailed(p), scan |-> s]
  ELSE [page |-> [ShowRadioState(p, nm.radio) EXCEPT !.refresh = FALSE],
        scan |-> [NoScan EXCEPT !.stage = "scan", !.force = force, !.on = nm.radio]]

\* _scan_wifi called by a handler; reading the radio may fail.
Scans(p, s, force) ==
  \E fails \in BOOLEAN :
    /\ IF fails /\ p.op = 0 THEN Trouble ELSE Quietly /\ ~fails
    /\ page' = ScanWifi(p, s, force, fails).page
    /\ scan' = ScanWifi(p, s, force, fails).scan

Listed == NetworksFromClient(InRange, Used)
Profiles == {[uuid |-> p.uuid, ssid |-> p.ssid, active |-> p.uuid = nm.up.uuid] : p \in nm.profiles}

\* The worker reads the networks, and later the profiles, with a client of its own.
\* The profiles are read just before the result is delivered: it is as old then as if
\* it had been read earlier and delivered at once.
ScanReadsNetworks ==
  /\ scan.stage = "scan"
  /\ scan' = [scan EXCEPT !.stage = "profiles", !.rows = IF scan.on THEN Listed ELSE {}]
  /\ UNCHANGED <<wifi, pages, monitor>>

ScanBreaks ==
  /\ scan.stage \in {"scan", "profiles"} /\ Trouble
  /\ scan' = [scan EXCEPT !.stage = "failed", !.rows = {}]
  /\ UNCHANGED <<nm, calls, ops, pages, monitor>>

\* _apply_scan
Applied(p, s) ==
  IF p.op # 0 THEN p
  ELSE IF s.stage = "failed" THEN ScanFailed(p)
  ELSE [ShowRadioState(p, s.on) EXCEPT !.rows = s.rows, !.saved = Profiles, !.refresh = TRUE]

DeliverScan ==
  /\ scan.stage \in {"profiles", "failed"}
  /\ page' = Applied(page, scan)
  /\ scan' = NoScan
  /\ UNCHANGED <<wifi, front, machine, shared, power, monitor>>

\* The refresh button, and the timer that fires every 5 seconds: a read without a
\* new scan of the air takes milliseconds, the 12 seconds of a scan it cuts short.
Refresh ==
  /\ Mapped /\ page.op = 0 /\ page.refresh /\ page.dialog = NoDialog
  /\ Scans(page, scan, TRUE)
  /\ UNCHANGED <<nm, calls, ops, front, machine, shared, power, monitor>>

\* Mutant: the timer looks at the connection only.
PeriodicGlance == Mapped /\ page.op = 0 /\ UNCHANGED vars

PeriodicRefresh ==
  /\ Mapped /\ page.op = 0 /\ (scan.stage # "none" => scan.force)
  /\ Scans(page, scan, FALSE)
  /\ UNCHANGED <<nm, calls, ops, front, machine, shared, power, monitor>>

-----------------------------------------------------------------------------
(* Operations of the network page *)

\* _start_operation: one at a time; scans that run become obsolete.
StartOperation(what, request, wps, profile) ==
  LET id == left.next
  IN /\ page.op = 0 /\ left.ops > 0
     /\ ops' = ops \cup {Operation(id, page.instance, what, request, wps, profile)}
     /\ left' = [left EXCEPT !.ops = @ - 1, !.next = @ + 1]
     /\ page' = [page EXCEPT !.op = id, !.dialog = NoDialog, !.refresh = FALSE]
     /\ scan' = Invalidated(scan)

\* _profile_for: of the profiles of the last scan, the active one or the first.
ProfileFor(network) ==
  LET same == {p \in page.saved : p.ssid = network.ssid}
      first == IF \E p \in same : p.active THEN {p \in same : p.active} ELSE same
  IN IF same = {} THEN 0 ELSE (CHOOSE p \in first : \A q \in first : p.uuid <= q.uuid).uuid

\* _start_connection
StartConnection(network, form, wps) ==
  StartOperation("connect", Request(network, form), wps, IF wps THEN 0 ELSE ProfileFor(network))

NeedsForm(network) == network.kind \notin {"open", "owe"}
Idle == Mapped /\ page.op = 0 /\ page.dialog = NoDialog

\* _activate_network: a row, or the name of a hidden network.
ActivateNetwork(network) ==
  IF network.active \/ NeedsForm(network)
  THEN page' = [page EXCEPT !.dialog = network] /\ UNCHANGED <<ops, left, scan>>
  ELSE StartConnection(network, NoForm, FALSE)

PressRow ==
  /\ Idle
  /\ \E network \in page.rows : ActivateNetwork(network)
  /\ UNCHANGED <<nm, calls, front, machine, shared, power, monitor>>

NameHidden ==
  /\ Idle /\ page.radio
  /\ \E a \in {b \in nm.air : b.hidden} : ActivateNetwork(HiddenNetwork(a))
  /\ UNCHANGED <<nm, calls, front, machine, shared, power, monitor>>

\* The dialogs stay open while scans go on: the network is the one that was pressed,
\* the profile is looked up when the dialog is answered.
AnswerDialog ==
  /\ Mapped /\ page.dialog # NoDialog
  /\ \/ page' = [page EXCEPT !.dialog = NoDialog] /\ UNCHANGED <<ops, left, scan>>
     \/ page.dialog.active /\ StartOperation("disconnect", NoForm, FALSE, 0)
     \/ ~page.dialog.active /\ \E form \in Forms[page.dialog.kind] : StartConnection(page.dialog, form, FALSE)
     \/ ~page.dialog.active /\ page.dialog.kind = "personal" /\ StartConnection(page.dialog, NoForm, TRUE)
  /\ UNCHANGED <<nm, calls, front, machine, shared, power, monitor>>

\* _on_radio_state_set
PressRadio ==
  /\ Idle /\ page.known
  /\ StartOperation(IF page.radio THEN "radio off" ELSE "radio on", NoForm, FALSE, 0)
  /\ UNCHANGED <<nm, calls, front, machine, shared, power, monitor>>

\* _cancel_current_operation
PressCancel ==
  /\ Mapped
  /\ \E o \in ops :
       /\ o.id = page.op /\ ~o.cancel
       /\ ops' = (ops \ {o}) \cup {[o EXCEPT !.cancel = TRUE]}
  /\ UNCHANGED <<nm, calls, left, pages, scan, monitor>>

\* _finish_operation, as an idle callback of the page that started the operation. A
\* page that has been left for good keeps its callbacks; it scans no more.
FinishOperation ==
  \E o \in ops :
    /\ o.pc = "ended"
    /\ ops' = ops \ {o}
    /\ LET done == [page EXCEPT !.op = 0, !.refresh = TRUE]
       IN IF o.page # page.instance THEN UNCHANGED <<left, page, scan>>
          ELSE IF Mapped THEN Scans(done, scan, TRUE)
          ELSE page' = done /\ UNCHANGED <<left, scan>>
    /\ UNCHANGED <<nm, calls, front, machine, shared, power, monitor>>

-----------------------------------------------------------------------------
(* The low-battery page *)

\* _render_status: a new reading takes back the confirmation of the last one.
RenderStatus(low) == [shown |-> TRUE, low |-> low, tick |-> FALSE, next |-> ~low]

\* recheck_power_requirement
Rechecked(s) == [s EXCEPT !.low = machine.low]

\* The button, a signal of UPower, or the timer, while the page is in front.
RecheckPower ==
  /\ front = "battery"
  /\ shared' = Rechecked(shared)
  /\ power' = RenderStatus(machine.low)
  /\ UNCHANGED <<wifi, front, machine, page, scan, monitor>>

TickRisk ==
  /\ front = "battery" /\ power.low
  /\ power' = [power EXCEPT !.tick = ~@, !.next = ~power.tick]
  /\ UNCHANGED <<wifi, front, machine, shared, page, scan, monitor>>

\* Past the page nobody looks at the battery any more.
BatteryChanges ==
  /\ front \in {"welcome", "battery"} /\ Trouble
  /\ machine' = [machine EXCEPT !.low = ~@]
  /\ UNCHANGED <<nm, calls, ops, front, shared, power, page, scan, monitor>>

-----------------------------------------------------------------------------
(* Optional downloads, on the keyboard and the software page *)

\* effective_network_choice: what was preferred is chosen while online.
Effective(s, online) == [s EXCEPT !.chosen = IF online THEN s.preferred ELSE {}]

\* Mutant: what is not available is taken for not wanted.
SaveAlways(s) == [s EXCEPT !.preferred = s.chosen]

\* _save: the boxes that can be changed are the preference.
Save(s) == IF monitor THEN [s EXCEPT !.preferred = s.chosen] ELSE s

ToggleOption ==
  /\ front = "choices" /\ monitor /\ left.toggles > 0
  /\ left' = [left EXCEPT !.toggles = @ - 1]
  /\ \E o \in Options :
       shared' = Save([shared EXCEPT !.chosen = IF o \in @ THEN @ \ {o} ELSE @ \cup {o}])
  /\ UNCHANGED <<nm, calls, ops, front, machine, power, page, scan, monitor>>

CableMoves ==
  /\ Trouble
  /\ machine' = [machine EXCEPT !.wired = ~@]
  /\ UNCHANGED <<nm, calls, ops, front, shared, power, page, scan, monitor>>

\* network-changed reaches every page that was ever built, also one that has been left.
NetworkChanged ==
  /\ monitor # Online
  /\ monitor' = Online
  /\ shared' = IF shared.built THEN Effective(shared, Online) ELSE shared
  /\ IF Mapped THEN Scans(page, scan, FALSE) ELSE UNCHANGED <<left, page, scan>>
  /\ UNCHANGED <<nm, calls, ops, front, machine, power>>

-----------------------------------------------------------------------------
(* From page to page *)

\* low_battery_warning_needed
WarningNeeded == shared.low /\ ~shared.override

\* _build_secure_boot_or_network_page, _build_network_or_keyboard_page
AfterSecureBoot == IF shared.planned THEN "network" ELSE "choices"
AfterPower == IF shared.secure THEN AfterSecureBoot ELSE "secureboot"

\* The page that comes to the front is mapped: the network page scans, the page of
\* options renders the connection.
Shows(next, s) ==
  /\ front' = next
  /\ shared' = IF next = "choices" THEN Effective([s EXCEPT !.built = TRUE], monitor) ELSE s
  /\ IF next = "network"
     THEN Scans([page EXCEPT !.known = FALSE], scan, TRUE)
     ELSE UNCHANGED <<left, page, scan>>

\* build_post_welcome_page: decided by the probe of the session, made when the
\* window opened.
NextFromWelcome ==
  /\ front = "welcome"
  /\ IF WarningNeeded
     THEN /\ front' = "battery" /\ power' = RenderStatus(shared.low)
          /\ UNCHANGED <<left, shared, page, scan>>
     ELSE Shows(AfterPower, shared) /\ UNCHANGED power
  /\ UNCHANGED <<nm, calls, ops, machine, monitor>>

\* _on_continue, confirm_low_battery_override
NextFromBattery ==
  /\ front = "battery" /\ power.next
  /\ ~power.low \/ power.tick
  /\ Shows(AfterPower, IF power.low THEN [shared EXCEPT !.override = TRUE] ELSE shared)
  /\ UNCHANGED <<nm, calls, ops, machine, power, monitor>>

NextFromSecureBoot ==
  /\ front = "secureboot"
  /\ Shows(AfterSecureBoot, shared)
  /\ UNCHANGED <<nm, calls, ops, machine, power, monitor>>

\* The network page stays below the next one, with its operation; unmapped, it drops
\* its scan.
NextFromNetwork ==
  /\ front = "network" /\ page.dialog = NoDialog
  /\ front' = "choices"
  /\ shared' = Effective([shared EXCEPT !.built = TRUE], monitor)
  /\ scan' = Invalidated(scan)
  /\ UNCHANGED <<nm, calls, ops, left, machine, power, page, monitor>>

NextFromChoices ==
  /\ front = "choices"
  /\ front' = "later"
  /\ shared' = Save(shared)
  /\ UNCHANGED <<wifi, machine, power, page, scan, monitor>>

\* Back uses up the bound; the page that is left for good is built anew next time.
GoBack == left.backs > 0
OneBack == [left EXCEPT !.backs = @ - 1]
BelowSecureBoot == IF power.shown THEN "battery" ELSE "welcome"
BelowNetwork == IF shared.secure THEN BelowSecureBoot ELSE "secureboot"

BackFromNetwork ==
  /\ front = "network" /\ page.dialog = NoDialog /\ GoBack
  /\ front' = BelowNetwork
  /\ left' = OneBack
  /\ page' = NewPage(page.instance + 1)
  /\ scan' = Invalidated(scan)
  \* the destroy handler cancels the operation, once nothing keeps the page alive
  /\ \E destroyed \in BOOLEAN :
       ops' = {IF destroyed /\ o.id = page.op THEN [o EXCEPT !.cancel = TRUE] ELSE o : o \in ops}
  /\ UNCHANGED <<nm, calls, machine, shared, power, monitor>>

\* on_back of the software page saves; the network page below is mapped again.
BackFromChoices ==
  /\ front = "choices" /\ GoBack
  /\ front' = IF shared.planned THEN "network" ELSE BelowNetwork
  /\ shared' = Save(shared)
  /\ LET p == [page EXCEPT !.known = FALSE]
         seen == shared.planned
         next == ScanWifi(p, scan, TRUE, FALSE)
     IN /\ page' = IF seen THEN next.page ELSE page
        /\ scan' = IF seen THEN next.scan ELSE scan
  /\ left' = OneBack
  /\ UNCHANGED <<nm, calls, ops, machine, power, monitor>>

BackFromEarlier ==
  /\ front \in {"secureboot", "battery", "later"} /\ GoBack
  /\ front' = CASE front = "secureboot" -> BelowSecureBoot
                [] front = "battery" -> "welcome"
                [] front = "later" -> "choices"
  /\ power' = IF front = "battery" THEN NoPowerPage ELSE power
  /\ left' = OneBack
  /\ UNCHANGED <<nm, calls, ops, machine, shared, page, scan, monitor>>

-----------------------------------------------------------------------------
Person ==
  \/ Refresh \/ PressRow \/ NameHidden \/ AnswerDialog \/ PressRadio \/ PressCancel
  \/ TickRisk \/ ToggleOption
  \/ NextFromWelcome \/ NextFromBattery \/ NextFromSecureBoot \/ NextFromNetwork \/ NextFromChoices
  \/ BackFromNetwork \/ BackFromChoices \/ BackFromEarlier

MainLoop ==
  \/ PeriodicRefresh \/ ScanReadsNetworks \/ ScanBreaks \/ DeliverScan
  \/ FinishOperation \/ RecheckPower \/ NetworkChanged

Next ==
  \/ Person \/ MainLoop \/ BatteryChanges \/ CableMoves
  \/ Background /\ UNCHANGED <<pages, scan, monitor>>

Undisturbed == UNCHANGED <<pages, scan, monitor>>

\* libnm answers every call (with an error if need be), the main loop and the timers
\* run. How long an activation takes, and what the person does, is open.
Fairness ==
  /\ WF_vars(NmHandles /\ Undisturbed) /\ WF_vars(ConnectBegins /\ Undisturbed)
  /\ WF_vars(CallReturns /\ Undisturbed) /\ WF_vars(StateChanges /\ Undisturbed)
  /\ WF_vars((PollCancelled \/ PollTimesOut) /\ Undisturbed) /\ WF_vars(Persists /\ Undisturbed)
  /\ WF_vars((Disconnects \/ SwitchesRadio) /\ Undisturbed)
  /\ WF_vars(FinishOperation) /\ WF_vars(PeriodicRefresh)
  /\ WF_vars(ScanReadsNetworks) /\ WF_vars(DeliverScan)

Spec == Init /\ [][Next]_vars /\ Fairness

-----------------------------------------------------------------------------
(* Properties *)

\* A profile the installer creates stays volatile until NetworkManager has activated
\* it: no such profile is on disk that never worked, unless a later attempt found it in
\* the list of saved profiles and rewrote it, because Update2 of the saved branch of
\* connect_wifi stores first and activates then. Nothing is said of the profiles of
\* others, which that branch overwrites as well, with a secret that may be wrong.
KeptProfilesWorked == \A p \in nm.profiles : p.disk /\ p.made => p.worked \/ p.rewritten

\* A worker that gave up because of Cancel or the 60 seconds, and had been told of its
\* activation, does not leave that activation up, whatever other workers of this or of
\* an earlier network page did in between. One that gave up before the answer to its
\* call had come has nothing to take down: NetworkManager may still carry the call out,
\* and that activation stays up.
AbandonedIsDown ==
  \A o \in ops : o.end \in {"cancelled", "timeout"} /\ o.act # 0 => nm.up.act # o.id

\* What a Wi-Fi attempt that did not succeed takes back: the new profile it made, if
\* nobody rewrote it, and the activation it had been told of.
AttemptsAreTakenBack == KeptProfilesWorked /\ AbandonedIsDown

\* Whoever is past the power check has a reading that is not low in the session, or
\* has confirmed the risk while a low reading was on the page.
PowerGate ==
  /\ front' \notin {"welcome", "battery"} => shared'.override \/ ~shared'.low
  /\ shared'.override # shared.override => power.low /\ power.tick

\* Losing the connection switches the optional downloads off and getting it back
\* switches on exactly those that the person wants: only the person changes a
\* preference, whatever pages are left, entered again and saved while offline.
PreferencesSurvive ==
  /\ left'.toggles = left.toggles => shared'.preferred = shared.preferred
  /\ shared'.built => shared'.chosen = IF monitor' THEN shared'.preferred ELSE {}

\* What one page has found out or been told holds on the pages after it.
SessionIsKept == [][PowerGate /\ PreferencesSurvive]_vars

\* An operation always ends and gives the page's controls back, also when the router
\* never answers and the person does nothing.
OperationEnds == (page.op # 0) ~> (page.op = 0)

\* A network page that stays in front without an operation comes to show the networks
\* that are there and the one that is connected, whatever failed, was cancelled or
\* changed behind its back before.
RowsCatchUp == []<>(~Mapped \/ page.op # 0) \/ <>[](page.rows = Listed)

\* The network page comes to rest and shows what there is.
NetworkPageRecovers == OperationEnds /\ RowsCatchUp
=============================================================================
