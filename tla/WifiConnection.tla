--------------------------- MODULE WifiConnection ---------------------------
(***************************************************************************)
(* The worker threads that change the Wi-Fi connection (connect_wifi,      *)
(* disconnect_wifi, set_wifi_radio of wifi.py) and NetworkManager as they  *)
(* use it over libnm.                                                      *)
(*                                                                         *)
(*   nm      NetworkManager: the radio, the access points in the air, the  *)
(*           profiles, the activation on the one adapter                   *)
(*   calls   asynchronous calls NetworkManager has not handled yet: to     *)
(*           cancel one only discards its answer                           *)
(*   ops     the workers that have not been waited for                     *)
(*   left    what may still happen, and the number of the next operation   *)
(***************************************************************************)
EXTENDS WifiRequests

CONSTANT
  Machines      \* where the installer may be started: access points in the air, saved
                \* profiles, what the pages of InstallerEntry look at, and the
                \* bounds on what happens there: operations, troubles (failures and
                \* changes by others), steps back, changes of an option

ASSUME MachineBounds == \A m \in Machines : {m.ops, m.troubles, m.backs, m.toggles} \subseteq Nat

\* Access points of one name differ in strength.
ASSUME AirsRanked ==
  \A m \in Machines : \A a, b \in m.air : a # b /\ a.ssid = b.ssid => a.strength # b.strength

\* Profiles that were saved before the installer runs are not of its making.
ASSUME SavedByOthers ==
  \A m \in Machines : \A p \in m.saved :
    /\ DOMAIN p = {"uuid", "ssid", "keyMgmt", "secret", "wps", "disk", "made", "worked", "rewritten"}
    /\ p.made = FALSE

VARIABLES nm, calls, ops, left

wifi == <<nm, calls, ops, left>>

NotConnected == [act |-> 0, uuid |-> 0, state |-> "none"]

WifiInit(m) ==
  /\ nm = [radio |-> m.radio, air |-> m.air, profiles |-> m.saved, up |-> NotConnected, blocked |-> FALSE]
  /\ calls = {}
  /\ ops = {}
  /\ left = [ops |-> m.ops, troubles |-> m.troubles, backs |-> m.backs, toggles |-> m.toggles, next |-> 1]

Trouble == left.troubles > 0 /\ left' = [left EXCEPT !.troubles = @ - 1]
Quietly == UNCHANGED left

-----------------------------------------------------------------------------
(* NetworkManager *)

InRange == IF nm.radio THEN nm.air ELSE {}
ProfileOf(uuid) == {p \in nm.profiles : p.uuid = uuid}
\* The access point in use.
Used == LET here == {a \in InRange : \E p \in ProfileOf(nm.up.uuid) : Admits(a, p)}
        IN IF nm.up.state = "activated" /\ here # {}
           THEN CHOOSE a \in here : \A b \in here : a.strength >= b.strength
           ELSE [ssid |-> ""]

\* The activation on the adapter ends; a volatile profile goes with it.
Down(n) == [n EXCEPT !.profiles = {p \in @ : p.disk \/ p.uuid # n.up.uuid}, !.up = NotConnected]
\* An activation takes the adapter over.
Up(n, act, uuid) ==
  LET free == IF n.up.uuid = uuid THEN n ELSE Down(n)
  IN [free EXCEPT !.up = [act |-> act, uuid |-> uuid, state |-> "activating"], !.blocked = FALSE]
\* A worker hears of the first change of the activation it watches.
Told(os, act, news) ==
  {IF o.pc = "watch" /\ o.act = act /\ act # 0 /\ o.news = "" THEN [o EXCEPT !.news = news] ELSE o : o \in os}
ToldDown(os) == Told(os, nm.up.act, "down")

\* The answer to a call reaches a worker that still waits for it.
Answered(os, id, ok, act) ==
  {IF o.id = id /\ o.pc = "call" THEN [o EXCEPT !.pc = "reply", !.ok = ok, !.given = act] ELSE o : o \in os}

\* AddAndActivateConnection2, Update2 and ActivateConnection are handled, some time
\* after they were sent.
NmHandles ==
  \E c \in calls :
    LET known == ProfileOf(c.profile.uuid) # {}
        done == CASE c.kind = "add" -> Up([nm EXCEPT !.profiles = @ \cup {c.profile}], c.op, c.profile.uuid)
                  [] c.kind = "update" ->
                       [nm EXCEPT !.profiles = (@ \ ProfileOf(c.profile.uuid)) \cup {[c.profile EXCEPT !.disk = TRUE]}]
                  [] c.kind = "activate" -> Up(nm, c.op, c.profile.uuid)
        possible == (c.kind # "update" => nm.radio) /\ (c.kind # "add" => known)
    IN /\ calls' = calls \ {c}
       /\ \/ /\ possible /\ Quietly
             /\ nm' = done
             /\ ops' = Answered(IF c.kind = "update" THEN ops ELSE ToldDown(ops), c.op, TRUE, c.op)
          \/ /\ IF possible THEN Trouble ELSE Quietly
             /\ nm' = nm
             /\ ops' = Answered(ops, c.op, FALSE, 0)

Admitted == \E a \in InRange, p \in ProfileOf(nm.up.uuid) : Admits(a, p)

\* The router accepts; with push-button setup it hands out the key.
NmActivates ==
  /\ nm.up.state = "activating" /\ Admitted
  /\ nm' = [nm EXCEPT !.up.state = "activated",
                      !.profiles = {IF p.uuid = nm.up.uuid
                                    THEN [p EXCEPT !.worked = TRUE, !.secret = IF p.wps THEN "good" ELSE @]
                                    ELSE p : p \in @}]
  /\ ops' = Told(ops, nm.up.act, "up")
  /\ UNCHANGED <<calls, left>>

\* Wrong credentials, a router out of reach, or bad luck.
NmGivesUp ==
  /\ nm.up.state = "activating"
  /\ IF Admitted THEN Trouble ELSE Quietly
  /\ nm' = Down(nm)
  /\ ops' = ToldDown(ops)
  /\ UNCHANGED calls

\* Others: the connection drops, an access point leaves the air, a saved profile
\* is forgotten, NetworkManager connects on its own.
ConnectionDrops ==
  /\ nm.up.state = "activated" /\ Trouble
  /\ nm' = Down(nm) /\ ops' = ToldDown(ops) /\ UNCHANGED calls

AccessPointLeaves ==
  \E a \in nm.air :
    /\ Trouble
    /\ nm' = [(IF a = Used THEN Down(nm) ELSE nm) EXCEPT !.air = @ \ {a}]
    /\ ops' = IF a = Used THEN ToldDown(ops) ELSE ops
    /\ UNCHANGED calls

ProfileForgotten ==
  \E p \in nm.profiles :
    /\ p.disk /\ Trouble
    /\ nm' = [(IF p.uuid = nm.up.uuid THEN Down(nm) ELSE nm) EXCEPT !.profiles = @ \ {p}]
    /\ ops' = IF p.uuid = nm.up.uuid THEN ToldDown(ops) ELSE ops
    /\ UNCHANGED calls

ConnectsByItself ==
  \E p \in nm.profiles :
    /\ nm.up = NotConnected /\ ~nm.blocked /\ p.disk /\ \E a \in InRange : a.ssid = p.ssid
    /\ Trouble
    /\ nm' = Up(nm, 0, p.uuid)
    /\ UNCHANGED <<calls, ops>>

-----------------------------------------------------------------------------
(* The workers *)

\* A worker that starts: its page, what it does, what it may need.
Operation(id, page, what, request, wps, profile) ==
  [id |-> id, page |-> page, what |-> what, request |-> request, wps |-> wps, saved |-> profile,
   cancel |-> FALSE, pc |-> "start", stage |-> "", ok |-> FALSE, given |-> 0, act |-> 0,
   news |-> "", polled |-> TRUE, end |-> ""]

Becomes(o, p) == ops' = (ops \ {o}) \cup {p}
Ended(o, how) == [o EXCEPT !.pc = "ended", !.end = how, !.news = "", !.request = NoForm, !.stage = "",
                            !.cancel = FALSE, !.polled = TRUE]
Send(o, kind, profile) ==
  /\ calls' = calls \cup {[op |-> o.id, kind |-> kind, profile |-> profile]}
  /\ Becomes(o, [o EXCEPT !.pc = "call", !.stage = kind, !.request = NoForm])

\* connect_wifi up to the main loop: check the request, find the access point
\* and the profile, and send the first call. A known profile is rewritten on disk
\* with the new credentials before it is activated.
Lost(o) == o.request.bssid # "" /\ ~o.request.hidden /\ \A a \in InRange : a.bssid # o.request.bssid
Unusable(o) == o.saved # 0 /\ ~\E p \in ProfileOf(o.saved) : p.ssid = o.request.ssid

\* options: {"persist": "volatile"}
NewProfile(o) == BuildNmConnection(o.id, o.request, o.wps)

ConnectBegins ==
  \E o \in ops :
    /\ o.pc = "start" /\ o.what = "connect"
    /\ IF ~ValidWifiRequest(o.request, o.wps, o.saved # 0) \/ Lost(o) \/ Unusable(o)
       THEN Becomes(o, Ended(o, "error")) /\ UNCHANGED calls
       ELSE IF o.saved = 0
            THEN Send(o, "add", NewProfile(o))
            ELSE \E p \in ProfileOf(o.saved) :
                   Send(o, "update", SavedConnectionWithCredentials(p, o.request))
    /\ UNCHANGED <<nm, left>>

\* _wps_agent_class: the agent that holds push-button setup open is refused.
AgentRefused ==
  \E o \in ops :
    /\ o.pc = "start" /\ o.wps /\ Trouble
    /\ Becomes(o, Ended(o, "error"))
    /\ UNCHANGED <<nm, calls>>

\* active_state_changed: with a new profile the worker goes on to keep it.
Connected(o) == IF o.saved = 0 THEN [o EXCEPT !.pc = "persist", !.news = ""] ELSE Ended(o, "ok")

\* saved_profile_updated, add_activation_started, saved_activation_started
CallReturns ==
  \E o \in ops :
    /\ o.pc = "reply"
    /\ IF o.ok /\ o.stage = "update"
       THEN Send(o, "activate", [uuid |-> o.saved])
       ELSE /\ Becomes(o,
                 IF ~o.ok THEN Ended(o, "error")
                 ELSE LET known == [o EXCEPT !.act = o.given]
                      IN IF nm.up.act # o.given THEN Ended(known, "error")
                         ELSE IF nm.up.state = "activated" THEN Connected(known)
                         ELSE [known EXCEPT !.pc = "watch"])
            /\ UNCHANGED calls
    /\ UNCHANGED <<nm, left>>

StateChanges ==
  \E o \in ops :
    /\ o.pc = "watch" /\ o.news # ""
    /\ Becomes(o, IF o.news = "up" THEN Connected(o) ELSE Ended(o, "error"))
    /\ UNCHANGED <<nm, calls, left>>

\* Mutant: the worker goes away and leaves its activation alone.
LeavesConnection(o) == nm' = nm

\* deactivate_connection
TakesDown(o) == nm' = IF o.act # 0 THEN Down(nm) ELSE nm

InLoop(o) == o.pc \in {"call", "reply", "watch"} /\ o.polled

\* poll_operation, every 200 ms: cancelled, or 60 s are over. NetworkManager refuses to
\* deactivate what it has already taken down; that error ends the polling, and the news
\* that is on its way ends the worker.
Abandon(o, how) ==
  LET gone == o.act # 0 /\ nm.up.act # o.act
  IN /\ IF gone
        THEN nm' = nm /\ ops' = (ops \ {o}) \cup {[o EXCEPT !.polled = FALSE]}
        ELSE TakesDown(o) /\ ops' = (IF o.act # 0 THEN ToldDown(ops \ {o}) ELSE ops \ {o}) \cup {Ended(o, how)}
     /\ UNCHANGED <<calls, left>>

PollCancelled == \E o \in ops : InLoop(o) /\ o.cancel /\ Abandon(o, "cancelled")

\* time.monotonic() - started >= timeout
DeadlinePassed(o) == ~o.cancel
PollTimesOut == \E o \in ops : InLoop(o) /\ DeadlinePassed(o) /\ Abandon(o, "timeout")

\* _persist_active_profile: no deadline, and nobody looks at the cancel event.
Persists ==
  \E o \in ops :
    /\ o.pc = "persist"
    /\ \/ /\ ProfileOf(o.id) # {} /\ Quietly
          /\ nm' = [nm EXCEPT !.profiles = {IF p.uuid = o.id THEN [p EXCEPT !.disk = TRUE] ELSE p : p \in @}]
          /\ Becomes(o, Ended(o, "ok"))
       \/ /\ IF ProfileOf(o.id) = {} THEN Quietly ELSE Trouble
          /\ nm' = nm
          /\ Becomes(o, Ended(o, "error"))
    /\ UNCHANGED calls

\* disconnect_wifi, on whatever the adapter is connected to.
Disconnects ==
  \E o \in ops :
    /\ o.pc = "start" /\ o.what = "disconnect"
    /\ IF nm.up = NotConnected
       THEN nm' = nm /\ Becomes(o, Ended(o, "error"))
       ELSE /\ nm' = [Down(nm) EXCEPT !.blocked = TRUE]
            /\ ops' = (ToldDown(ops) \ {o}) \cup {Ended(o, "ok")}
    /\ UNCHANGED <<calls, left>>

\* set_wifi_radio
SwitchesRadio ==
  \E o \in ops :
    /\ o.pc = "start" /\ o.what \in {"radio on", "radio off"}
    /\ LET on == o.what = "radio on"
       IN /\ nm' = [(IF on THEN nm ELSE Down(nm)) EXCEPT !.radio = on]
          /\ ops' = ((IF on THEN ops ELSE ToldDown(ops)) \ {o}) \cup {Ended(o, "ok")}
    /\ UNCHANGED <<calls, left>>

\* What goes on without the person: NetworkManager and the workers.
Background ==
  \/ NmHandles \/ NmActivates \/ NmGivesUp
  \/ ConnectionDrops \/ AccessPointLeaves \/ ProfileForgotten \/ ConnectsByItself
  \/ ConnectBegins \/ AgentRefused \/ CallReturns \/ StateChanges
  \/ PollCancelled \/ PollTimesOut \/ Persists \/ Disconnects \/ SwitchesRadio
=============================================================================
