---------------------------- MODULE WifiRequests ----------------------------
(***************************************************************************)
(* What the Wi-Fi library of the installer (wifi.py) makes of access        *)
(* points, filled-in forms and saved profiles.                              *)
(*                                                                          *)
(* An access point is a record [ssid, bssid, flags, strength, hidden];      *)
(* flags are the capability bits that wifi.py looks at. A label is the set of the     *)
(* words it shows. A secret is "" (none given), "short", "bad" or "good".   *)
(***************************************************************************)
EXTENDS Naturals, FiniteSets, TLC

Has(flags, wanted) == flags \cap wanted # {}

\* _security_from_access_point: the kind of network, by the strongest capability.
Kind(flags) ==
  CASE Has(flags, {"802.1x", "suite-b"}) -> "enterprise"
    [] Has(flags, {"owe"}) -> "owe"
    [] Has(flags, {"wpa-psk", "psk", "sae"}) -> "personal"
    [] Has(flags, {"privacy"}) -> "wep"
    [] OTHER -> "open"

\* The words of its label.
Label(flags) ==
  CASE Kind(flags) = "enterprise" -> {IF "suite-b" \in flags THEN "WPA3" ELSE "WPA2", "Enterprise"}
    [] Kind(flags) = "owe" -> {"OWE"}
    [] Kind(flags) = "personal" ->
         {w \in {"WPA", "WPA2", "WPA3"} :
            [WPA |-> "wpa-psk", WPA2 |-> "psk", WPA3 |-> "sae"][w] \in flags}
    [] Kind(flags) = "wep" -> {"WEP"}
    [] OTHER -> {}

\* One row of the page: an access point as WifiNetwork describes it.
Network(ap, active) ==
  [ssid |-> ap.ssid, bssid |-> ap.bssid, kind |-> Kind(ap.flags), label |-> Label(ap.flags),
   active |-> active]

\* What the person names in the dialog for hidden networks has no bssid.
HiddenNetwork(ap) == [Network(ap, FALSE) EXCEPT !.bssid = ""]

\* The order of (active, signal) pairs.
Preferred(a, b, used) ==
  IF (a = used) # (b = used) THEN a = used ELSE a.strength > b.strength

\* _networks_from_client: one row for each name that is broadcast, the preferred
\* access point.
NetworksFromClient(air, used) ==
  LET named == {a \in air : ~a.hidden}
  IN {Network(a, a = used) :
        a \in {x \in named : \A y \in named \ {x} : y.ssid = x.ssid => Preferred(x, y, used)}}

-----------------------------------------------------------------------------
(* Requests: a network and what the form of its dialog supplied. *)

NoForm == [secret |-> "", identity |-> FALSE, tls |-> FALSE, certificates |-> FALSE]

\* _request_for_network
Request(network, form) == network @@ form @@ [hidden |-> network.bssid = ""]

\* validate_wifi_request
ValidWifiRequest(r, wps, existing) ==
  CASE wps -> r.kind = "personal"
    [] r.kind = "personal" -> r.secret \notin {"", "short"}
    [] r.kind = "wep" -> r.secret # ""
    [] r.kind = "enterprise" ->
         /\ r.identity \/ existing
         /\ IF r.tls THEN existing \/ r.certificates ELSE r.secret # ""
    [] OTHER -> TRUE

\* build_nm_connection: the key management. A network whose label says WPA3 and
\* not WPA2 is joined with SAE, push-button setup always with a pre-shared key.
KeyManagement(r, wps) ==
  CASE r.kind = "open" -> ""
    [] r.kind = "owe" -> "owe"
    [] r.kind = "wep" -> "none"
    [] r.kind = "personal" -> IF ~wps /\ "WPA3" \in r.label /\ "WPA2" \notin r.label THEN "sae" ELSE "wpa-psk"
    [] r.kind = "enterprise" -> "wpa-eap"

\* The profile of a request; the router supplies the key of a push-button setup.
\* disk tells a persistent profile from a volatile one. The rest is history: the
\* installer created it, NetworkManager has activated it with the secret it has, a
\* later request rewrote it.
BuildNmConnection(uuid, r, wps) ==
  [uuid |-> uuid, ssid |-> r.ssid, keyMgmt |-> KeyManagement(r, wps),
   secret |-> IF r.kind \in {"open", "owe"} \/ wps THEN "" ELSE r.secret, wps |-> wps,
   disk |-> FALSE, made |-> TRUE, worked |-> FALSE, rewritten |-> FALSE]

\* _saved_connection_with_credentials: only what the form supplied is replaced.
SavedConnectionWithCredentials(remote, r) ==
  LET again == [remote EXCEPT !.rewritten = TRUE]
      given == [again EXCEPT !.secret = r.secret, !.worked = @ /\ again.secret = r.secret]
  IN CASE again.keyMgmt \in {"wpa-psk", "sae", "none"} -> [given EXCEPT !.wps = FALSE]
       [] again.keyMgmt = "wpa-eap" -> IF r.tls /\ ~r.certificates THEN again ELSE given
       [] OTHER -> again

\* Whether an access point lets a profile in.
Admits(ap, p) ==
  /\ ap.ssid = p.ssid
  /\ CASE p.keyMgmt = "" -> ap.flags = {}
       [] p.keyMgmt = "owe" -> "owe" \in ap.flags
       [] p.keyMgmt = "none" -> Kind(ap.flags) = "wep" /\ p.secret = "good"
       [] p.keyMgmt = "sae" -> "sae" \in ap.flags /\ p.secret = "good"
       [] p.keyMgmt = "wpa-psk" -> Has(ap.flags, {"wpa-psk", "psk"}) /\ (p.wps \/ p.secret = "good")
       [] OTHER -> "802.1x" \in ap.flags /\ p.secret = "good"
=============================================================================
