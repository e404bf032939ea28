----------------------- MODULE InstallerEntry_proofs -----------------------
(***************************************************************************)
(* What the first pages of the installer and the Wi-Fi workers keep, for   *)
(* every machine, form and set of options: an attempt that does not        *)
(* succeed takes back the profile it made and the activation it was told   *)
(* of, and what one page has found out or been told holds on the pages     *)
(* after it.                                                               *)
(*                                                                         *)
(* The workers are related to NetworkManager through the calls that are on *)
(* their way: a worker has at most one, none once it has been told of its  *)
(* activation, and a profile that a worker goes on to keep is one whose    *)
(* activation NetworkManager has completed.                                *)
(***************************************************************************)
EXTENDS InstallerEntry, TLAPS

-----------------------------------------------------------------------------
(* The inductive invariant of the workers and NetworkManager *)

ProfileFields == {"uuid", "ssid", "keyMgmt", "secret", "wps", "disk", "made", "worked", "rewritten"}
OperationFields ==
  {"id", "page", "what", "request", "wps", "saved", "cancel", "pc", "stage", "ok", "given", "act",
   "news", "polled", "end"}

\* The empty string, kept apart for the provers.
Blank == ""

\* A profile of the installer's making that is kept has been activated, or a person
\* has since rewritten it.
Excused(p) == p.made => p.worked \/ p.rewritten

\* The records have their fields; operations are numbered from 1.
NmShape(n) ==
  /\ DOMAIN n = {"radio", "air", "profiles", "up", "blocked"}
  /\ DOMAIN n.up = {"act", "uuid", "state"}
  /\ \A p \in n.profiles : DOMAIN p = ProfileFields
LeftShape(l) ==
  /\ DOMAIN l = {"ops", "troubles", "backs", "toggles", "next"}
  /\ l.next \in Nat /\ l.next > 0
  /\ l.toggles \in Nat

\* NetworkManager: its activation is of an operation that was started (or of its own,
\* 0); what is on disk is excused, and so is the profile of a completed activation.
NmOK(n, next) ==
  /\ NmShape(n)
  /\ n.up.act \in Nat /\ n.up.act < next
  /\ \A p \in n.profiles : p.disk => Excused(p)
  /\ n.up.state = "activated" => \A p \in n.profiles : p.uuid = n.up.uuid => Excused(p)

\* A call: a new profile carries the number of its operation and is volatile, a
\* profile that is written again is marked so.
CallOK(c, next) ==
  /\ c.op \in Nat /\ c.op < next
  /\ c.kind \in {"add", "update", "activate"}
  /\ c.kind = "add" => DOMAIN c.profile = ProfileFields /\ c.profile.uuid = c.op /\ c.profile.disk = FALSE
  /\ c.kind = "update" => DOMAIN c.profile = ProfileFields /\ c.profile.rewritten = TRUE

\* The activation a worker has been told of is its own; it hears of changes only while
\* it watches; it rewrites a profile only if there is a saved one.
OperationOK(o, next) ==
  /\ DOMAIN o = OperationFields
  /\ o.id \in Nat /\ o.id > 0 /\ o.id < next
  /\ o.act \in {0, o.id}
  /\ o.pc \in {"start", "call", "reply"} => o.act = 0 /\ o.news # "up"
  /\ o.pc = "watch" => o.act = o.id
  /\ o.stage = "update" => o.saved # 0
  /\ o.pc \in {"start", "call", "reply", "watch", "persist"} =>
       o.end \notin {"cancelled", "timeout"}
  /\ o.pc = "reply" /\ o.ok => o.given = o.id
  /\ o.pc = "persist" => o.saved = 0
  /\ o.pc \in {"start", "call", "reply", "watch", "persist", "ended"}

\* A worker and NetworkManager: an abandoned activation is down; the activation of a
\* new profile is of that profile; a profile about to be kept is excused.
WorkerMeetsNm(o, n) ==
  /\ o.end \in {"cancelled", "timeout"} /\ o.act # 0 => n.up.act # o.id
  /\ o.saved = 0 /\ n.up.act = o.id => n.up.uuid = o.id
  /\ o.saved = 0 /\ (o.pc = "persist" \/ (o.pc = "watch" /\ o.news = "up")) =>
       \A p \in n.profiles : p.uuid = o.id => Excused(p)

\* A worker and a call: only a worker that has not been told of its activation has one,
\* and it adds a profile exactly if the operation has no saved one.
WorkerMeetsCall(o, c) ==
  c.op = o.id => /\ o.pc = "call" \/ (o.pc = "ended" /\ o.act = 0)
                 /\ (c.kind = "add") <=> (o.saved = 0)

\* The workers, the calls: each as above, one worker and one call for each number.
WorkersOK(os, n, cs, next) ==
  /\ \A o \in os : OperationOK(o, next) /\ WorkerMeetsNm(o, n)
  /\ \A o \in os, c \in cs : WorkerMeetsCall(o, c)
  /\ \A o, p \in os : o.id = p.id => o = p
CallsOK(cs, next) ==
  /\ \A c \in cs : CallOK(c, next)
  /\ \A c, d \in cs : c.op = d.op => c = d

WifiInv ==
  /\ LeftShape(left)
  /\ NmOK(nm, left.next)
  /\ CallsOK(calls, left.next)
  /\ WorkersOK(ops, nm, calls, left.next)

-----------------------------------------------------------------------------
(* The inductive invariant of the pages *)

SharedFields == {"low", "override", "planned", "secure", "built", "preferred", "chosen"}
PowerFields == {"shown", "low", "tick", "next"}

\* Past the power page the reading is not low or the risk was confirmed; while that page
\* is there, it shows the reading of the session.
PowerInv ==
  /\ front \notin {"welcome", "battery"} => shared.override \/ ~shared.low
  /\ power.shown => power.low = shared.low
  /\ front = "battery" => power.shown

\* Once the page of optional downloads exists, what is chosen is what is preferred, or
\* nothing while offline.
OptionsInv ==
  /\ shared.built => shared.chosen = IF monitor THEN shared.preferred ELSE {}
  /\ front \in {"choices", "later"} => shared.built

PagesInv ==
  /\ DOMAIN shared = SharedFields
  /\ DOMAIN power = PowerFields
  /\ PowerInv
  /\ OptionsInv

\* The two together: the theorems' inductive invariant.
EntryInv == WifiInv /\ PagesInv

-----------------------------------------------------------------------------
(* NetworkManager *)

\* What NetworkManager is after an activation has ended or something has been taken
\* from it: its activation is gone or the same, and no profile has become worse.
Calmer(n, m) ==
  /\ NmShape(m)
  /\ m.up = n.up \/ m.up = NotConnected
  /\ \A q \in m.profiles : Excused(q) \/ \E p \in n.profiles :
       q.uuid = p.uuid /\ (Excused(p) => Excused(q)) /\ (q.disk => p.disk)

\* The fields of NotConnected.
LEMMA NotConnectedFields ==
  /\ DOMAIN NotConnected = {"act", "uuid", "state"}
  /\ NotConnected.act = 0 /\ NotConnected.uuid = 0 /\ NotConnected.state = "none"
BY DEF NotConnected

\* Down of WifiConnection leaves nothing up and takes only the volatile profile.
LEMMA DownFields ==
  ASSUME NEW n, NmShape(n)
  PROVE /\ DOMAIN Down(n) = {"radio", "air", "profiles", "up", "blocked"}
        /\ Down(n).up = NotConnected
        /\ Down(n).profiles = {p \in n.profiles : p.disk \/ p.uuid # n.up.uuid}
BY DEF Down, NmShape

\* Ending the activation calms NetworkManager.
LEMMA DownCalmer ==
  ASSUME NEW n, NmShape(n)
  PROVE Calmer(n, Down(n))
<1>1. NmShape(Down(n))
  BY DownFields, NotConnectedFields DEF NmShape
<1> QED
  BY <1>1, DownFields DEF Calmer

\* So does nothing at all.
LEMMA SameCalmer ==
  ASSUME NEW n, NmShape(n)
  PROVE Calmer(n, n)
BY DEF Calmer

\* A calmer NetworkManager is still as it should be.
LEMMA CalmerNm ==
  ASSUME NEW n, NEW m, NEW next \in Nat, next > 0, NmOK(n, next), Calmer(n, m)
  PROVE NmOK(m, next)
<1>1. m.up.act \in Nat /\ m.up.act < next
  BY NotConnectedFields DEF NmOK, Calmer
<1>2. \A q \in m.profiles : q.disk => Excused(q)
  BY DEF NmOK, Calmer
<1>3. m.up.state = "activated" => \A q \in m.profiles : q.uuid = m.up.uuid => Excused(q)
  BY NotConnectedFields DEF NmOK, Calmer
<1> QED
  BY <1>1, <1>2, <1>3 DEF NmOK, Calmer

\* And the workers still agree with it.
LEMMA CalmerWorkers ==
  ASSUME NEW n, NEW m, NEW os, NEW cs, NEW next, WorkersOK(os, n, cs, next), Calmer(n, m)
  PROVE WorkersOK(os, m, cs, next)
<1>1. ASSUME NEW o \in os PROVE WorkerMeetsNm(o, m)
  <2>1. OperationOK(o, next) /\ WorkerMeetsNm(o, n)
    BY DEF WorkersOK
  <2>2. (m.up.act = n.up.act /\ m.up.uuid = n.up.uuid) \/ m.up.act = 0
    BY NotConnectedFields DEF Calmer
  <2>3. o.id # 0
    BY <2>1 DEF OperationOK
  <2>4. ASSUME NEW q \in m.profiles, q.uuid = o.id,
               \A p \in n.profiles : p.uuid = o.id => Excused(p)
        PROVE Excused(q)
    BY <2>4 DEF Calmer
  <2> QED
    BY <2>1, <2>2, <2>3, <2>4 DEF WorkerMeetsNm
<1> QED
  BY <1>1 DEF WorkersOK

\* The fields of NetworkManager after Up.
LEMMA UpFields ==
  ASSUME NEW n, NmShape(n), NEW act, NEW uuid
  PROVE /\ NmShape(Up(n, act, uuid))
        /\ Up(n, act, uuid).up.act = act
        /\ Up(n, act, uuid).up.uuid = uuid
        /\ Up(n, act, uuid).up.state = "activating"
        /\ Up(n, act, uuid).profiles \subseteq n.profiles
<1> DEFINE free == IF n.up.uuid = uuid THEN n ELSE Down(n)
           u == [act |-> act, uuid |-> uuid, state |-> "activating"]
<1>1. DOMAIN free = {"radio", "air", "profiles", "up", "blocked"} /\ free.profiles \subseteq n.profiles
  BY DownFields DEF NmShape
<1>2. Up(n, act, uuid) = [free EXCEPT !.up = u, !.blocked = FALSE]
  BY DEF Up
<1>3. DOMAIN u = {"act", "uuid", "state"} /\ u.act = act /\ u.uuid = uuid /\ u.state = "activating"
  OBVIOUS
<1> HIDE DEF free, u
<1>4. /\ DOMAIN Up(n, act, uuid) = {"radio", "air", "profiles", "up", "blocked"}
      /\ Up(n, act, uuid).up = u
      /\ Up(n, act, uuid).profiles = free.profiles
  BY <1>1, <1>2
<1> QED
  BY <1>1, <1>3, <1>4 DEF NmShape

\* Up keeps NetworkManager as it should be.
LEMMA UpNm ==
  ASSUME NEW n, NEW next \in Nat, NmShape(n), \A p \in n.profiles : p.disk => Excused(p),
         NEW act \in Nat, act < next, NEW uuid
  PROVE NmOK(Up(n, act, uuid), next)
BY UpFields DEF NmOK

-----------------------------------------------------------------------------
(* The workers *)

\* Fewer calls and fewer workers keep everything.
LEMMA FewerOK ==
  ASSUME NEW os, NEW n, NEW cs, NEW next, WorkersOK(os, n, cs, next),
         NEW ps \in SUBSET os, NEW ds \in SUBSET cs
  PROVE WorkersOK(ps, n, ds, next)
BY DEF WorkersOK

\* One worker goes on as another of the same number.
LEMMA ReplacedOK ==
  ASSUME NEW os, NEW n, NEW cs, NEW next, WorkersOK(os, n, cs, next),
         NEW o \in os, NEW p, p.id = o.id, OperationOK(p, next), WorkerMeetsNm(p, n),
         \A c \in cs : WorkerMeetsCall(p, c)
  PROVE WorkersOK((os \ {o}) \cup {p}, n, cs, next)
BY DEF WorkersOK

\* A worker that is told something differs in its news only.
LEMMA ToldOne ==
  ASSUME NEW os, NEW act, NEW news, NEW q \in Told(os, act, news),
         \A o \in os : DOMAIN o = OperationFields
  PROVE \E o \in os :
          /\ DOMAIN q = DOMAIN o
          /\ \A f \in OperationFields \ {"news"} : q[f] = o[f]
          /\ q = IF o.pc = "watch" /\ o.act = act /\ act # 0 /\ o.news = Blank
                 THEN [o EXCEPT !.news = news] ELSE o
          /\ \/ q.news = o.news
             \/ o.pc = "watch" /\ o.act = act /\ act # 0 /\ q.news = news
<1>1. PICK o \in os : q = IF o.pc = "watch" /\ o.act = act /\ act # 0 /\ o.news = Blank
                          THEN [o EXCEPT !.news = news] ELSE o
  BY Zenon DEF Told, Blank
<1> QED
  BY <1>1 DEF OperationFields

\* The condition under which a worker with the same fields except news, is as good.
LEMMA SameButNews ==
  ASSUME NEW o, NEW q, NEW next, OperationOK(o, next), DOMAIN q = DOMAIN o,
         \A f \in OperationFields \ {"news"} : q[f] = o[f], q.news = o.news \/ o.pc = "watch"
  PROVE /\ OperationOK(q, next)
        /\ q.id = o.id /\ q.pc = o.pc /\ q.act = o.act /\ q.saved = o.saved /\ q.end = o.end
        /\ \A c : WorkerMeetsCall(o, c) => WorkerMeetsCall(q, c)
<1>1. /\ q.id = o.id /\ q.pc = o.pc /\ q.act = o.act /\ q.saved = o.saved /\ q.end = o.end
      /\ q.ok = o.ok /\ q.given = o.given /\ q.stage = o.stage
  BY DEF OperationFields
<1> QED
  BY <1>1 DEF OperationOK, WorkerMeetsCall

\* The news of a change: workers that watch the activation go on watching; that it is
\* up needs the profile to be excused.
LEMMA ToldOK ==
  ASSUME NEW os, NEW n, NEW cs, NEW next, WorkersOK(os, n, cs, next), NEW act, NEW news,
         news # "up" \/ \A o \in os : o.saved = 0 /\ o.act = act /\ act # 0 =>
                           \A p \in n.profiles : p.uuid = o.id => Excused(p)
  PROVE WorkersOK(Told(os, act, news), n, cs, next)
<1>0. \A o \in os : DOMAIN o = OperationFields
  BY DEF WorkersOK, OperationOK
<1>1. ASSUME NEW q \in Told(os, act, news)
      PROVE OperationOK(q, next) /\ WorkerMeetsNm(q, n) /\ \A c \in cs : WorkerMeetsCall(q, c)
  <2>1. PICK o \in os :
          /\ DOMAIN q = DOMAIN o
          /\ \A f \in OperationFields \ {"news"} : q[f] = o[f]
          /\ \/ q.news = o.news
             \/ o.pc = "watch" /\ o.act = act /\ act # 0 /\ q.news = news
    BY <1>0, ToldOne
  <2>2. OperationOK(o, next) /\ WorkerMeetsNm(o, n) /\ \A c \in cs : WorkerMeetsCall(o, c)
    BY DEF WorkersOK
  <2>3. /\ OperationOK(q, next)
        /\ q.id = o.id /\ q.pc = o.pc /\ q.act = o.act /\ q.saved = o.saved /\ q.end = o.end
        /\ \A c : WorkerMeetsCall(o, c) => WorkerMeetsCall(q, c)
    BY <2>1, <2>2, SameButNews
  <2>4. WorkerMeetsNm(q, n)
    BY <2>1, <2>2, <2>3 DEF WorkerMeetsNm
  <2> QED
    BY <2>2, <2>3, <2>4
<1>2. ASSUME NEW q \in Told(os, act, news), NEW r \in Told(os, act, news), q.id = r.id
      PROVE q = r
  <2>1. PICK o \in os : q.id = o.id /\ q = IF o.pc = "watch" /\ o.act = act /\ act # 0 /\ o.news = Blank
                              THEN [o EXCEPT !.news = news] ELSE o
    BY <1>0, ToldOne DEF OperationFields
  <2>2. PICK p \in os : r.id = p.id /\ r = IF p.pc = "watch" /\ p.act = act /\ act # 0 /\ p.news = Blank
                              THEN [p EXCEPT !.news = news] ELSE p
    BY <1>0, ToldOne DEF OperationFields
  <2>3. o = p
    BY <1>2, <2>1, <2>2 DEF WorkersOK
  <2> QED
    BY <2>1, <2>2, <2>3
<1> QED
  BY <1>1, <1>2 DEF WorkersOK

\* The answer to a call reaches the worker that waits for it, if it still waits; the
\* call is no longer on its way.
LEMMA AnsweredOK ==
  ASSUME NEW os, NEW n, NEW cs, NEW next, WorkersOK(os, n, cs, next), NEW id, NEW ok, NEW act,
         \A c \in cs : c.op # id, ok = TRUE => act = id, ok \in BOOLEAN
  PROVE WorkersOK(Answered(os, id, ok, act), n, cs, next)
<1> DEFINE Ans(o) == IF o.id = id /\ o.pc = "call"
                     THEN [o EXCEPT !.pc = "reply", !.ok = ok, !.given = act] ELSE o
<1>1. Answered(os, id, ok, act) = {Ans(o) : o \in os}
  BY DEF Answered
<1>2. ASSUME NEW o \in os
      PROVE /\ Ans(o).id = o.id
            /\ OperationOK(Ans(o), next) /\ WorkerMeetsNm(Ans(o), n)
            /\ \A c \in cs : WorkerMeetsCall(Ans(o), c)
  <2>1. OperationOK(o, next) /\ WorkerMeetsNm(o, n) /\ \A c \in cs : WorkerMeetsCall(o, c)
    BY DEF WorkersOK
  <2>2. CASE o.id = id /\ o.pc = "call"
    <3> DEFINE q == [o EXCEPT !.pc = "reply", !.ok = ok, !.given = act]
    <3>1. DOMAIN o = OperationFields
      BY <2>1 DEF OperationOK
    <3>2. /\ DOMAIN q = OperationFields
          /\ q.id = o.id /\ q.act = o.act /\ q.saved = o.saved /\ q.end = o.end
          /\ q.pc = "reply" /\ q.ok = ok /\ q.given = act /\ q.news = o.news /\ q.stage = o.stage
      BY <3>1 DEF OperationFields
    <3>3. Ans(o) = q
      BY <2>2
    <3> HIDE DEF q, Ans
    <3>4. OperationOK(q, next)
      BY <2>1, <2>2, <3>2 DEF OperationOK
    <3>5. WorkerMeetsNm(q, n)
      BY <2>1, <2>2, <3>2 DEF WorkerMeetsNm
    <3>6. \A c \in cs : WorkerMeetsCall(q, c)
      BY <2>2, <3>2 DEF WorkerMeetsCall
    <3> QED
      BY <3>2, <3>3, <3>4, <3>5, <3>6
  <2>3. CASE ~(o.id = id /\ o.pc = "call")
    BY <2>1, <2>3
  <2> QED
    BY <2>2, <2>3
<1> HIDE DEF Ans
<1> QED
  BY <1>1, <1>2 DEF WorkersOK

\* The empty string is none of the words the invariant is about.
LEMMA BlankIsNone == Blank \notin {"cancelled", "timeout", "up", "update"}
BY Zenon DEF Blank

\* The fields of a worker that has ended.
LEMMA EndedFields ==
  ASSUME NEW o, DOMAIN o = OperationFields, NEW how
  PROVE /\ DOMAIN Ended(o, how) = OperationFields
        /\ Ended(o, how).id = o.id /\ Ended(o, how).act = o.act /\ Ended(o, how).saved = o.saved
        /\ Ended(o, how).pc = "ended" /\ Ended(o, how).end = how /\ Ended(o, how).stage = Blank
<1>1. Ended(o, how) = [o EXCEPT !.pc = "ended", !.end = how, !.news = Blank, !.request = NoForm,
                                !.stage = Blank, !.cancel = FALSE, !.polled = TRUE]
  BY Zenon DEF Ended, Blank
<1> QED
  BY <1>1 DEF OperationFields

\* A worker may end in any state in which it has no call or has not been told of its
\* activation; one that gives up has seen to it that its activation is not up.
LEMMA EndedOK ==
  ASSUME NEW os, NEW n, NEW cs, NEW next, WorkersOK(os, n, cs, next), NEW o \in os, NEW how,
         how \in {"cancelled", "timeout"} /\ o.act # 0 => n.up.act # o.id
  PROVE WorkersOK((os \ {o}) \cup {Ended(o, how)}, n, cs, next)
<1>1. OperationOK(o, next) /\ WorkerMeetsNm(o, n) /\ \A c \in cs : WorkerMeetsCall(o, c)
  BY DEF WorkersOK
<1> DEFINE p == Ended(o, how)
<1>2. /\ DOMAIN p = OperationFields
      /\ p.id = o.id /\ p.act = o.act /\ p.saved = o.saved
      /\ p.pc = "ended" /\ p.end = how /\ p.stage # "update"
  BY <1>1, EndedFields, BlankIsNone DEF OperationOK
<1> HIDE DEF p
<1>3. OperationOK(p, next)
  BY <1>1, <1>2 DEF OperationOK
<1>4. WorkerMeetsNm(p, n)
  BY <1>1, <1>2 DEF WorkerMeetsNm
<1>5. \A c \in cs : WorkerMeetsCall(p, c)
  BY <1>1, <1>2 DEF WorkerMeetsCall, OperationOK
<1>6. WorkersOK((os \ {o}) \cup {p}, n, cs, next)
  BY <1>2, <1>3, <1>4, <1>5, ReplacedOK
<1> QED
  BY <1>6 DEF p

\* A worker of which only flags differ is as good as before.
LEMMA FlaggedGood ==
  ASSUME NEW o, NEW q, NEW n, NEW next, OperationOK(o, next), WorkerMeetsNm(o, n),
         DOMAIN q = OperationFields, q.id = o.id, q.act = o.act, q.saved = o.saved, q.pc = o.pc,
         q.end = o.end, q.news = o.news, q.ok = o.ok, q.given = o.given, q.stage = o.stage
  PROVE /\ OperationOK(q, next) /\ WorkerMeetsNm(q, n)
        /\ \A c : WorkerMeetsCall(o, c) => WorkerMeetsCall(q, c)
BY DEF OperationOK, WorkerMeetsNm, WorkerMeetsCall

\* A new worker takes the next number.
LEMMA AddedOK ==
  ASSUME NEW os, NEW n, NEW cs, NEW next \in Nat, next > 0, WorkersOK(os, n, cs, next),
         NmOK(n, next), CallsOK(cs, next),
         NEW pg, NEW what, NEW request, NEW wps, NEW profile
  PROVE /\ WorkersOK(os \cup {Operation(next, pg, what, request, wps, profile)}, n, cs, next + 1)
        /\ NmOK(n, next + 1) /\ CallsOK(cs, next + 1)
<1> DEFINE p == Operation(next, pg, what, request, wps, profile)
<1>1. p = [id |-> next, page |-> pg, what |-> what, request |-> request, wps |-> wps, saved |-> profile,
           cancel |-> FALSE, pc |-> "start", stage |-> Blank, ok |-> FALSE, given |-> 0, act |-> 0,
           news |-> Blank, polled |-> TRUE, end |-> Blank]
  BY Zenon DEF Operation, Blank
<1>2. Blank \notin {"cancelled", "timeout", "up", "update"}
  BY BlankIsNone
<1> HIDE DEF p
<1>3. /\ DOMAIN p = OperationFields
      /\ p.id = next /\ p.act = 0 /\ p.pc = "start" /\ p.end = Blank /\ p.saved = profile
      /\ p.news = Blank /\ p.stage = Blank
  BY <1>1 DEF OperationFields
<1>4. OperationOK(p, next + 1)
  BY <1>2, <1>3 DEF OperationOK
<1>5. WorkerMeetsNm(p, n)
  BY <1>2, <1>3 DEF WorkerMeetsNm, NmOK
<1>6. \A c \in cs : WorkerMeetsCall(p, c)
  BY <1>3 DEF WorkerMeetsCall, CallsOK, CallOK
<1>7. \A o \in os : OperationOK(o, next + 1) /\ o.id # p.id
  BY <1>3 DEF WorkersOK, OperationOK
<1>8. WorkersOK(os \cup {p}, n, cs, next + 1)
  BY <1>4, <1>5, <1>6, <1>7 DEF WorkersOK
<1>9. NmOK(n, next + 1) /\ CallsOK(cs, next + 1)
  <2>1. \A c \in cs : CallOK(c, next + 1)
    BY DEF CallsOK, CallOK
  <2> QED
    BY <2>1 DEF NmOK, CallsOK
<1> QED
  BY <1>8, <1>9 DEF p

\* A call that a worker may send when it has none.
MaySend(o, call) ==
  /\ o.pc \in {"start", "reply"} /\ call.op = o.id
  /\ call.kind \in {"add", "update", "activate"} /\ ((call.kind = "add") <=> (o.saved = 0))
  /\ call.kind = "add" =>
       DOMAIN call.profile = ProfileFields /\ call.profile.uuid = o.id /\ call.profile.disk = FALSE
  /\ call.kind = "update" => DOMAIN call.profile = ProfileFields /\ call.profile.rewritten = TRUE

\* The worker once it has sent it.
HasSent(o, call, q) ==
  /\ DOMAIN q = OperationFields
  /\ q.id = o.id /\ q.act = o.act /\ q.saved = o.saved /\ q.end = o.end /\ q.news = o.news
  /\ q.pc = "call" /\ q.stage = call.kind

\* The calls with the new one.
LEMMA SentCalls ==
  ASSUME NEW os, NEW n, NEW cs, NEW next, WorkersOK(os, n, cs, next), CallsOK(cs, next),
         NEW o \in os, NEW call, MaySend(o, call)
  PROVE CallsOK(cs \cup {call}, next)
<1>1. OperationOK(o, next) /\ \A c \in cs : WorkerMeetsCall(o, c)
  BY DEF WorkersOK
<1>2. \A c \in cs : c.op # o.id
  BY <1>1 DEF WorkerMeetsCall, MaySend
<1>3. CallOK(call, next) /\ call.op = o.id
  BY <1>1 DEF CallOK, OperationOK, MaySend
<1> QED
  BY <1>2, <1>3 DEF CallsOK

\* The workers with the one that has sent it.
LEMMA SentWorkers ==
  ASSUME NEW os, NEW n, NEW cs, NEW next, WorkersOK(os, n, cs, next),
         NEW o \in os, NEW call, MaySend(o, call), NEW q, HasSent(o, call, q)
  PROVE WorkersOK((os \ {o}) \cup {q}, n, cs \cup {call}, next)
<1>1. OperationOK(o, next) /\ WorkerMeetsNm(o, n) /\ \A c \in cs : WorkerMeetsCall(o, c)
  BY DEF WorkersOK
<1>2. \A c \in cs : c.op # o.id
  BY <1>1 DEF WorkerMeetsCall, MaySend
<1>3. OperationOK(q, next)
  BY <1>1 DEF OperationOK, MaySend, HasSent
<1>4. WorkerMeetsNm(q, n)
  BY <1>1 DEF WorkerMeetsNm, HasSent
<1>5. \A c \in cs \cup {call} : WorkerMeetsCall(q, c)
  BY <1>2 DEF WorkerMeetsCall, MaySend, HasSent
<1>6. q.id = o.id /\ \A p \in os \ {o} : WorkerMeetsCall(p, call)
  BY DEF WorkerMeetsCall, WorkersOK, MaySend, HasSent
<1> QED
  BY <1>3, <1>4, <1>5, <1>6 DEF WorkersOK

-----------------------------------------------------------------------------
(* What NetworkManager does keeps the invariant *)

\* The bounds: a trouble changes neither the number of the next operation nor the
\* changes of options that are left.
LEMMA TroubleOrNot ==
  ASSUME LeftShape(left), Trouble \/ Quietly
  PROVE LeftShape(left') /\ left'.next = left.next /\ left'.toggles = left.toggles
<1>1. CASE Quietly
  BY <1>1 DEF Quietly
<1>2. CASE Trouble
  <2>1. PICK t : t = left.troubles - 1
    OBVIOUS
  <2>2. left' = [left EXCEPT !.troubles = t]
    BY <1>2, <2>1 DEF Trouble
  <2> HIDE <2>1
  <2> QED
    BY <2>2 DEF LeftShape
<1> QED
  BY <1>1, <1>2

\* The parts of the invariant, put together after a step that starts no operation.
LEMMA WifiStep ==
  ASSUME WifiInv, Trouble \/ Quietly, NmOK(nm', left.next), CallsOK(calls', left.next),
         WorkersOK(ops', nm', calls', left.next)
  PROVE WifiInv'
<1>1. LeftShape(left') /\ left'.next = left.next
  BY TroubleOrNot DEF WifiInv
<1> QED
  BY <1>1 DEF WifiInv

\* One thing that has calmed down, and another after it.
LEMMA CalmerTwice ==
  ASSUME NEW n, NEW m, NEW k, Calmer(n, m), Calmer(m, k)
  PROVE Calmer(n, k)
<1>1. k.up = n.up \/ k.up = NotConnected
  BY DEF Calmer
<1>2. ASSUME NEW r \in k.profiles, ~Excused(r)
      PROVE \E p \in n.profiles : r.uuid = p.uuid /\ (Excused(p) => Excused(r)) /\ (r.disk => p.disk)
  <2>1. PICK q \in m.profiles : r.uuid = q.uuid /\ (Excused(q) => Excused(r)) /\ (r.disk => q.disk)
    BY <1>2 DEF Calmer
  <2>2. PICK p \in n.profiles : q.uuid = p.uuid /\ (Excused(p) => Excused(q)) /\ (q.disk => p.disk)
    BY <1>2, <2>1 DEF Calmer
  <2> QED
    BY <2>1, <2>2
<1> QED
  BY <1>1, <1>2 DEF Calmer

\* Neither the air, nor the radio, nor whether NetworkManager may connect by itself
\* matters here.
LEMMA AirCalmer ==
  ASSUME NEW n, NmShape(n), NEW x
  PROVE /\ Calmer(n, [n EXCEPT !.air = x])
        /\ Calmer(n, [n EXCEPT !.radio = x])
        /\ Calmer(n, [n EXCEPT !.blocked = x])
<1>1. ASSUME NEW m, DOMAIN m = DOMAIN n, m.up = n.up, m.profiles = n.profiles
      PROVE Calmer(n, m)
  BY <1>1 DEF Calmer, NmShape
<1>2. DOMAIN n = {"radio", "air", "profiles", "up", "blocked"}
  BY DEF NmShape
<1>3. DOMAIN [n EXCEPT !.air = x] = DOMAIN n /\ [n EXCEPT !.air = x].up = n.up
      /\ [n EXCEPT !.air = x].profiles = n.profiles
  BY <1>2
<1>4. DOMAIN [n EXCEPT !.radio = x] = DOMAIN n /\ [n EXCEPT !.radio = x].up = n.up
      /\ [n EXCEPT !.radio = x].profiles = n.profiles
  BY <1>2
<1>5. DOMAIN [n EXCEPT !.blocked = x] = DOMAIN n /\ [n EXCEPT !.blocked = x].up = n.up
      /\ [n EXCEPT !.blocked = x].profiles = n.profiles
  BY <1>2
<1> QED
  BY <1>1, <1>3, <1>4, <1>5

\* A set of profiles some of which are gone or have been rewritten.
LEMMA ProfilesCalmer ==
  ASSUME NEW n, NmShape(n), NEW ps, \A q \in ps : DOMAIN q = ProfileFields,
         \A q \in ps : q \in n.profiles \/ Excused(q)
  PROVE Calmer(n, [n EXCEPT !.profiles = ps])
<1> DEFINE m == [n EXCEPT !.profiles = ps]
<1>1. DOMAIN m = {"radio", "air", "profiles", "up", "blocked"} /\ m.up = n.up /\ m.profiles = ps
  BY DEF NmShape
<1> HIDE DEF m
<1>2. NmShape(m)
  BY <1>1 DEF NmShape
<1>3. Calmer(n, m)
  BY <1>1, <1>2 DEF Calmer
<1> QED
  BY <1>3 DEF m

\* A step that only calms NetworkManager and tells the workers so.
LEMMA CalmStep ==
  ASSUME WifiInv, Trouble \/ Quietly, NEW m, nm' = m, Calmer(nm, m), UNCHANGED calls,
         ops' = ToldDown(ops) \/ ops' = ops
  PROVE WifiInv'
<1>1. LeftShape(left) /\ NmOK(nm, left.next) /\ CallsOK(calls, left.next)
      /\ WorkersOK(ops, nm, calls, left.next)
  BY DEF WifiInv
<1>2. NmOK(m, left.next)
  BY <1>1, CalmerNm DEF LeftShape
<1>3. WorkersOK(ops, m, calls, left.next)
  BY <1>1, CalmerWorkers
<1>4. WorkersOK(ToldDown(ops), m, calls, left.next)
  BY <1>3, ToldOK DEF ToldDown
<1> QED
  BY <1>1, <1>2, <1>3, <1>4, WifiStep

\* The activation of an operation takes the adapter over when its call is handled.
LEMMA UpWorkers ==
  ASSUME NEW os, NEW n, NEW m, NEW cs, NEW next, WorkersOK(os, n, cs, next), CallsOK(cs, next),
         NEW c \in cs, c.kind # "update",
         \A p \in m.profiles : p \in n.profiles \/ p.uuid = c.op,
         m.up.act = c.op, m.up.uuid = c.profile.uuid
  PROVE WorkersOK(os, m, cs \ {c}, next)
<1>1. ASSUME NEW o \in os PROVE WorkerMeetsNm(o, m)
  <2>1. OperationOK(o, next) /\ WorkerMeetsNm(o, n) /\ WorkerMeetsCall(o, c) /\ CallOK(c, next)
    BY DEF WorkersOK, CallsOK
  <2>2. CASE o.id = c.op
    <3>1. o.act = 0 /\ o.pc \in {"call", "ended"} /\ (o.saved = 0 => c.kind = "add")
      BY <2>1, <2>2 DEF WorkerMeetsCall, OperationOK
    <3>2. o.saved = 0 => m.up.uuid = o.id
      BY <2>1, <2>2, <3>1 DEF CallOK
    <3> QED
      BY <3>1, <3>2 DEF WorkerMeetsNm
  <2>3. CASE o.id # c.op
    BY <2>1, <2>3 DEF WorkerMeetsNm
  <2> QED
    BY <2>2, <2>3
<1> QED
  BY <1>1 DEF WorkersOK

\* A call is handled, or it is refused.
LEMMA NmHandlesKeeps ==
  ASSUME WifiInv, NmHandles
  PROVE WifiInv'
<1>1. /\ LeftShape(left) /\ NmOK(nm, left.next) /\ CallsOK(calls, left.next)
      /\ WorkersOK(ops, nm, calls, left.next) /\ NmShape(nm)
      /\ left.next \in Nat
  BY DEF WifiInv, NmOK, LeftShape
<1> DEFINE known(c) == ProfileOf(c.profile.uuid) # {}
           done(c) == CASE c.kind = "add" ->
                             Up([nm EXCEPT !.profiles = @ \cup {c.profile}], c.op, c.profile.uuid)
                        [] c.kind = "update" ->
                             [nm EXCEPT !.profiles = (@ \ ProfileOf(c.profile.uuid))
                                                     \cup {[c.profile EXCEPT !.disk = TRUE]}]
                        [] c.kind = "activate" -> Up(nm, c.op, c.profile.uuid)
           possible(c) == (c.kind # "update" => nm.radio) /\ (c.kind # "add" => known(c))
<1>2. PICK c \in calls :
        /\ calls' = calls \ {c}
        /\ \/ /\ possible(c) /\ Quietly
              /\ nm' = done(c)
              /\ ops' = Answered(IF c.kind = "update" THEN ops ELSE ToldDown(ops), c.op, TRUE, c.op)
           \/ /\ IF possible(c) THEN Trouble ELSE Quietly
              /\ nm' = nm
              /\ ops' = Answered(ops, c.op, FALSE, 0)
  BY Zenon DEF NmHandles
<1> DEFINE cs == calls \ {c}
<1>3. CallOK(c, left.next) /\ (\A d \in cs : d.op # c.op) /\ CallsOK(cs, left.next)
  BY <1>1 DEF CallsOK
<1>4. WorkersOK(ops, nm, cs, left.next)
  BY <1>1, FewerOK
<1> HIDE DEF known, possible
<1>5. CASE /\ Quietly /\ nm' = done(c)
           /\ ops' = Answered(IF c.kind = "update" THEN ops ELSE ToldDown(ops), c.op, TRUE, c.op)
  <2>1. CASE c.kind = "update"
    <3> DEFINE r == [c.profile EXCEPT !.disk = TRUE]
               ps == (nm.profiles \ ProfileOf(c.profile.uuid)) \cup {r}
               m == [nm EXCEPT !.profiles = ps]
    <3>1. nm' = m
      BY <1>5, <2>1
    <3>2. DOMAIN r = ProfileFields /\ Excused(r)
      BY <1>3, <2>1 DEF CallOK, Excused, ProfileFields
    <3> HIDE DEF r
    <3>3. Calmer(nm, m)
      BY <1>1, <3>2, ProfilesCalmer DEF NmShape
    <3> HIDE DEF m
    <3>4. NmOK(m, left.next) /\ WorkersOK(ops, m, cs, left.next)
      BY <1>1, <1>4, <3>3, CalmerNm, CalmerWorkers DEF LeftShape
    <3>5. WorkersOK(Answered(ops, c.op, TRUE, c.op), m, cs, left.next)
      BY <1>3, <3>4, AnsweredOK
    <3> QED
      BY <1>2, <1>3, <1>5, <2>1, <3>1, <3>4, <3>5, WifiStep
  <2>2. CASE c.kind # "update"
    <3> DEFINE n == IF c.kind = "add" THEN [nm EXCEPT !.profiles = @ \cup {c.profile}] ELSE nm
               m == Up(n, c.op, c.profile.uuid)
    <3>1. c.kind \in {"add", "activate"}
      BY <1>3, <2>2 DEF CallOK
    <3>2. nm' = m
      BY <1>5, <3>1
    <3>3. /\ NmShape(n)
          /\ \A p \in n.profiles : p \in nm.profiles \/ (p.uuid = c.op /\ p.disk = FALSE)
      <4>1. CASE c.kind = "add"
        <5>1. /\ DOMAIN n = {"radio", "air", "profiles", "up", "blocked"} /\ n.up = nm.up
              /\ n.profiles = nm.profiles \cup {c.profile}
          BY <1>1, <4>1 DEF NmShape
        <5> HIDE DEF n
        <5> QED
          BY <1>1, <1>3, <4>1, <5>1 DEF NmShape, CallOK
      <4>2. CASE c.kind # "add"
        BY <1>1, <4>2
      <4> QED
        BY <4>1, <4>2
    <3> HIDE DEF n
    <3>4. \A p \in n.profiles : p.disk => Excused(p)
      BY <1>1, <3>3 DEF NmOK
    <3>5. NmOK(m, left.next)
      BY <1>1, <1>3, <3>3, <3>4, UpNm DEF CallOK
    <3>6. /\ m.up.act = c.op /\ m.up.uuid = c.profile.uuid /\ m.profiles \subseteq n.profiles
      BY <3>3, UpFields
    <3> HIDE DEF m
    <3>7. WorkersOK(ops, m, cs, left.next)
      BY <1>1, <2>2, <3>3, <3>6, UpWorkers
    <3>8. WorkersOK(ToldDown(ops), m, cs, left.next)
      BY <3>7, ToldOK DEF ToldDown
    <3>9. WorkersOK(Answered(ToldDown(ops), c.op, TRUE, c.op), m, cs, left.next)
      BY <1>3, <3>8, AnsweredOK
    <3> QED
      BY <1>2, <1>3, <1>5, <2>2, <3>2, <3>5, <3>9, WifiStep
  <2> QED
    BY <2>1, <2>2
<1>6. CASE (Trouble \/ Quietly) /\ nm' = nm /\ ops' = Answered(ops, c.op, FALSE, 0)
  <2>1. WorkersOK(Answered(ops, c.op, FALSE, 0), nm, cs, left.next)
    BY <1>3, <1>4, AnsweredOK
  <2> QED
    BY <1>1, <1>2, <1>3, <1>6, <2>1, WifiStep
<1> QED
  BY <1>2, <1>5, <1>6

\* The router accepts: every profile of the activation has worked, and the workers that
\* watch it are told.
LEMMA NmActivatesKeeps ==
  ASSUME WifiInv, NmActivates
  PROVE WifiInv'
<1>1. /\ LeftShape(left) /\ NmOK(nm, left.next) /\ CallsOK(calls, left.next)
      /\ WorkersOK(ops, nm, calls, left.next) /\ NmShape(nm)
  BY DEF WifiInv, NmOK
<1> DEFINE Done(p) == IF p.uuid = nm.up.uuid
                      THEN [p EXCEPT !.worked = TRUE, !.secret = IF p.wps THEN "good" ELSE @]
                      ELSE p
           ps == {Done(p) : p \in nm.profiles}
<1>2. /\ nm' = [nm EXCEPT !.up.state = "activated", !.profiles = ps]
      /\ ops' = Told(ops, nm.up.act, "up") /\ UNCHANGED <<calls, left>>
  BY DEF NmActivates
<1>3. ASSUME NEW p \in nm.profiles
      PROVE /\ DOMAIN Done(p) = ProfileFields
            /\ Done(p).uuid = p.uuid /\ Done(p).disk = p.disk
            /\ p.uuid = nm.up.uuid => Excused(Done(p))
            /\ p.uuid # nm.up.uuid => Done(p) = p
  <2>1. DOMAIN p = ProfileFields
    BY <1>1 DEF NmShape
  <2>2. CASE p.uuid = nm.up.uuid
    <3> DEFINE s == IF p.wps THEN "good" ELSE p.secret
               q == [p EXCEPT !.worked = TRUE, !.secret = s]
    <3>1. Done(p) = q
      BY <2>2
    <3> HIDE DEF s, Done
    <3>2. DOMAIN q = ProfileFields /\ q.uuid = p.uuid /\ q.disk = p.disk /\ q.worked = TRUE
      BY <2>1 DEF ProfileFields
    <3> QED
      BY <2>2, <3>1, <3>2 DEF Excused
  <2>3. CASE p.uuid # nm.up.uuid
    BY <2>1, <2>3
  <2> QED
    BY <2>2, <2>3
<1> DEFINE u == [nm.up EXCEPT !.state = "activated"]
           m == [nm EXCEPT !.up = u, !.profiles = ps]
<1>4. /\ DOMAIN u = {"act", "uuid", "state"} /\ u.act = nm.up.act /\ u.uuid = nm.up.uuid
      /\ u.state = "activated"
  BY <1>1 DEF NmShape
<1>5. nm' = m
  BY <1>2
<1> HIDE DEF Done, u
<1>6. DOMAIN m = {"radio", "air", "profiles", "up", "blocked"} /\ m.up = u /\ m.profiles = ps
  BY <1>1 DEF NmShape
<1> HIDE DEF m
<1>7. \A q \in m.profiles :
        /\ DOMAIN q = ProfileFields
        /\ q.uuid = nm.up.uuid => Excused(q)
        /\ q.uuid # nm.up.uuid => q \in nm.profiles
  BY <1>3, <1>6
<1>8. NmShape(m)
  BY <1>4, <1>6, <1>7 DEF NmShape
<1>9. NmOK(m, left.next)
  BY <1>1, <1>4, <1>6, <1>7, <1>8 DEF NmOK
<1>10. ASSUME NEW o \in ops PROVE WorkerMeetsNm(o, m)
  <2>1. WorkerMeetsNm(o, nm)
    BY <1>1 DEF WorkersOK
  <2> QED
    BY <2>1, <1>4, <1>6, <1>7 DEF WorkerMeetsNm
<1>11. WorkersOK(ops, m, calls, left.next)
  BY <1>1, <1>10 DEF WorkersOK
<1>12. ASSUME NEW o \in ops, o.saved = 0, o.act = nm.up.act, nm.up.act # 0
       PROVE \A p \in m.profiles : p.uuid = o.id => Excused(p)
  <2>1. OperationOK(o, left.next) /\ WorkerMeetsNm(o, nm)
    BY <1>1 DEF WorkersOK
  <2>2. nm.up.act = o.id
    BY <1>12, <2>1 DEF OperationOK
  <2>3. nm.up.uuid = o.id
    BY <1>12, <2>1, <2>2 DEF WorkerMeetsNm
  <2> QED
    BY <2>3, <1>7
<1>13. WorkersOK(Told(ops, nm.up.act, "up"), m, calls, left.next)
  BY <1>11, <1>12, ToldOK
<1> QED
  BY <1>1, <1>2, <1>5, <1>9, <1>13, WifiStep DEF Quietly

\* NetworkManager gives up, the connection drops.
LEMMA EndsKeep ==
  ASSUME WifiInv, NmGivesUp \/ ConnectionDrops
  PROVE WifiInv'
<1>1. NmShape(nm)
  BY DEF WifiInv, NmOK
<1>2. /\ Trouble \/ Quietly
      /\ nm' = Down(nm) /\ ops' = ToldDown(ops) /\ UNCHANGED calls
  BY DEF NmGivesUp, ConnectionDrops
<1> QED
  BY <1>1, <1>2, DownCalmer, CalmStep

\* An access point leaves the air, a profile is forgotten.
LEMMA LeavesKeep ==
  ASSUME WifiInv, AccessPointLeaves \/ ProfileForgotten
  PROVE WifiInv'
<1>1. NmShape(nm)
  BY DEF WifiInv, NmOK
<1>2. CASE AccessPointLeaves
  <2>1. PICK a : /\ Trouble
                 /\ nm' = [(IF a = Used THEN Down(nm) ELSE nm) EXCEPT !.air = @ \ {a}]
                 /\ ops' = IF a = Used THEN ToldDown(ops) ELSE ops
                 /\ UNCHANGED calls
    BY <1>2 DEF AccessPointLeaves
  <2> DEFINE n == IF a = Used THEN Down(nm) ELSE nm
             m == [n EXCEPT !.air = n.air \ {a}]
  <2>2. Calmer(nm, n)
    BY <1>1, DownCalmer, SameCalmer
  <2>3. nm' = m /\ (ops' = ToldDown(ops) \/ ops' = ops)
    BY <2>1
  <2> HIDE DEF n
  <2>4. Calmer(nm, m)
    <3>1. NmShape(n)
      BY <2>2 DEF Calmer
    <3>2. Calmer(n, m)
      BY <3>1, AirCalmer
    <3> QED
      BY <2>2, <3>2, CalmerTwice
  <2> HIDE DEF m
  <2> QED
    BY <2>1, <2>3, <2>4, CalmStep
<1>3. CASE ProfileForgotten
  <2>1. PICK p : /\ Trouble
                 /\ nm' = [(IF p.uuid = nm.up.uuid THEN Down(nm) ELSE nm) EXCEPT !.profiles = @ \ {p}]
                 /\ ops' = IF p.uuid = nm.up.uuid THEN ToldDown(ops) ELSE ops
                 /\ UNCHANGED calls
    BY <1>3 DEF ProfileForgotten
  <2> DEFINE n == IF p.uuid = nm.up.uuid THEN Down(nm) ELSE nm
             m == [n EXCEPT !.profiles = n.profiles \ {p}]
  <2>2. Calmer(nm, n)
    BY <1>1, DownCalmer, SameCalmer
  <2>3. nm' = m /\ (ops' = ToldDown(ops) \/ ops' = ops)
    BY <2>1
  <2> HIDE DEF n
  <2>4. NmShape(n) /\ \A q \in n.profiles \ {p} : DOMAIN q = ProfileFields
    BY <2>2 DEF Calmer, NmShape
  <2>5. Calmer(nm, m)
    BY <2>2, <2>4, ProfilesCalmer, CalmerTwice
  <2> HIDE DEF m
  <2> QED
    BY <2>1, <2>3, <2>5, CalmStep
<1> QED
  BY <1>2, <1>3

\* NetworkManager connects by itself.
LEMMA ConnectsByItselfKeeps ==
  ASSUME WifiInv, ConnectsByItself
  PROVE WifiInv'
<1>1. /\ LeftShape(left) /\ NmOK(nm, left.next) /\ CallsOK(calls, left.next)
      /\ WorkersOK(ops, nm, calls, left.next) /\ NmShape(nm)
      /\ left.next \in Nat /\ 0 < left.next
  BY DEF WifiInv, NmOK, LeftShape
<1>2. PICK uuid : Trouble /\ nm' = Up(nm, 0, uuid) /\ UNCHANGED <<calls, ops>>
  BY DEF ConnectsByItself
<1> DEFINE m == Up(nm, 0, uuid)
<1>3. NmOK(m, left.next)
  BY <1>1, UpNm DEF NmOK
<1>4. m.up.act = 0 /\ m.profiles \subseteq nm.profiles
  BY <1>1, UpFields
<1> HIDE DEF m
<1>5. ASSUME NEW o \in ops PROVE WorkerMeetsNm(o, m)
  <2>1. OperationOK(o, left.next) /\ WorkerMeetsNm(o, nm)
    BY <1>1 DEF WorkersOK
  <2>2. o.id # 0
    BY <2>1 DEF OperationOK
  <2> QED
    BY <2>1, <2>2, <1>4 DEF WorkerMeetsNm
<1>6. WorkersOK(ops, m, calls, left.next)
  BY <1>1, <1>5 DEF WorkersOK
<1>7. nm' = m
  BY <1>2 DEF m
<1> QED
  BY <1>1, <1>2, <1>3, <1>6, <1>7, WifiStep

-----------------------------------------------------------------------------
(* What the workers do keeps the invariant *)

\* A new profile is volatile and has the number of its operation.
LEMMA NewProfileFields ==
  ASSUME NEW o
  PROVE /\ DOMAIN NewProfile(o) = ProfileFields
        /\ NewProfile(o).uuid = o.id /\ NewProfile(o).disk = FALSE
<1>1. PICK ssid, km, secret, wps :
        NewProfile(o) =
          [uuid |-> o.id, ssid |-> ssid, keyMgmt |-> km, secret |-> secret, wps |-> wps,
           disk |-> FALSE, made |-> TRUE, worked |-> FALSE, rewritten |-> FALSE]
  BY Zenon DEF NewProfile, BuildNmConnection
<1> QED
  BY <1>1 DEF ProfileFields

\* A saved profile with new credentials is marked as rewritten.
LEMMA RewrittenFields ==
  ASSUME NEW p, DOMAIN p = ProfileFields, NEW r
  PROVE /\ DOMAIN SavedConnectionWithCredentials(p, r) = ProfileFields
        /\ SavedConnectionWithCredentials(p, r).rewritten = TRUE
<1> DEFINE again == [p EXCEPT !.rewritten = TRUE]
<1>1. DOMAIN again = ProfileFields /\ again.rewritten = TRUE
  BY DEF ProfileFields
<1> DEFINE b == [again EXCEPT !.secret = r.secret, !.worked = @ /\ again.secret = r.secret]
           a == [b EXCEPT !.wps = FALSE]
           q == SavedConnectionWithCredentials(p, r)
<1>2. q = CASE again.keyMgmt \in {"wpa-psk", "sae", "none"} -> a
            [] again.keyMgmt = "wpa-eap" -> IF r.tls /\ ~r.certificates THEN again ELSE b
            [] OTHER -> again
  BY DEF SavedConnectionWithCredentials
<1> HIDE DEF again
<1>3. /\ DOMAIN a = ProfileFields /\ a.rewritten = TRUE
      /\ DOMAIN b = ProfileFields /\ b.rewritten = TRUE
  BY <1>1 DEF ProfileFields
<1> HIDE DEF a, b, q
<1>4. q = a \/ q = b \/ q = again
  BY <1>2
<1>5. DOMAIN q = ProfileFields /\ q.rewritten = TRUE
  BY <1>1, <1>3, <1>4
<1> QED
  BY <1>5 DEF q

\* connect_wifi up to the main loop.
LEMMA ConnectBeginsKeeps ==
  ASSUME WifiInv, ConnectBegins
  PROVE WifiInv'
<1>1. /\ LeftShape(left) /\ NmOK(nm, left.next) /\ CallsOK(calls, left.next)
      /\ WorkersOK(ops, nm, calls, left.next) /\ NmShape(nm)
  BY DEF WifiInv, NmOK
<1>2. PICK o \in ops :
        /\ o.pc = "start"
        /\ \/ Becomes(o, Ended(o, "error")) /\ UNCHANGED calls
           \/ o.saved = 0 /\ Send(o, "add", NewProfile(o))
           \/ /\ o.saved # 0
              /\ \E p \in ProfileOf(o.saved) :
                   Send(o, "update", SavedConnectionWithCredentials(p, o.request))
        /\ UNCHANGED <<nm, left>>
  BY Zenon DEF ConnectBegins
<1>3. CASE Becomes(o, Ended(o, "error")) /\ UNCHANGED calls
  <2>1. WorkersOK((ops \ {o}) \cup {Ended(o, "error")}, nm, calls, left.next)
    BY <1>1, EndedOK
  <2> QED
    BY <1>1, <1>2, <1>3, <2>1, WifiStep DEF Becomes, Quietly
<1>4. ASSUME NEW kind \in {"add", "update"}, NEW profile, Send(o, kind, profile),
             (kind = "add") <=> (o.saved = 0), DOMAIN profile = ProfileFields,
             kind = "add" => profile.uuid = o.id /\ profile.disk = FALSE,
             kind = "update" => profile.rewritten = TRUE
      PROVE WifiInv'
  <2> DEFINE call == [op |-> o.id, kind |-> kind, profile |-> profile]
             q == [o EXCEPT !.pc = "call", !.stage = kind, !.request = NoForm]
  <2>1. calls' = calls \cup {call} /\ ops' = (ops \ {o}) \cup {q}
    BY <1>4 DEF Send, Becomes
  <2>2. MaySend(o, call)
    BY <1>2, <1>4 DEF MaySend
  <2>3. HasSent(o, call, q)
    BY <1>1 DEF WorkersOK, OperationOK, OperationFields, HasSent
  <2> HIDE DEF call, q
  <2>4. /\ CallsOK(calls \cup {call}, left.next)
        /\ WorkersOK((ops \ {o}) \cup {q}, nm, calls \cup {call}, left.next)
    BY <1>1, <2>2, <2>3, SentCalls, SentWorkers
  <2> QED
    BY <1>1, <1>2, <2>1, <2>4, WifiStep DEF Quietly
<1>5. CASE o.saved = 0 /\ Send(o, "add", NewProfile(o))
  BY <1>4, <1>5, NewProfileFields
<1>6. CASE /\ o.saved # 0
           /\ \E p \in ProfileOf(o.saved) :
                Send(o, "update", SavedConnectionWithCredentials(p, o.request))
  <2>1. PICK p \in ProfileOf(o.saved) :
               Send(o, "update", SavedConnectionWithCredentials(p, o.request))
    BY <1>6
  <2>2. DOMAIN p = ProfileFields
    BY <1>1 DEF ProfileOf, NmShape
  <2> QED
    BY <1>4, <1>6, <2>1, <2>2, RewrittenFields
<1> QED
  BY <1>2, <1>3, <1>5, <1>6

\* The agent for push-button setup is refused.
LEMMA AgentRefusedKeeps ==
  ASSUME WifiInv, AgentRefused
  PROVE WifiInv'
<1>1. /\ LeftShape(left) /\ NmOK(nm, left.next) /\ CallsOK(calls, left.next)
      /\ WorkersOK(ops, nm, calls, left.next)
  BY DEF WifiInv
<1>2. PICK o \in ops : Trouble /\ ops' = (ops \ {o}) \cup {Ended(o, "error")} /\ UNCHANGED <<nm, calls>>
  BY Zenon DEF AgentRefused, Becomes
<1>3. WorkersOK((ops \ {o}) \cup {Ended(o, "error")}, nm, calls, left.next)
  BY <1>1, EndedOK
<1> QED
  BY <1>1, <1>2, <1>3, WifiStep

\* A worker that hears that its activation is up goes on to keep the new profile, or
\* it is done.
LEMMA ConnectedOK ==
  ASSUME NEW os, NEW n, NEW cs, NEW next, WorkersOK(os, n, cs, next), NEW o \in os,
         \A c \in cs : c.op # o.id,
         NEW k, DOMAIN k = OperationFields, k.id = o.id, k.act = o.id, k.saved = o.saved,
         k.end \notin {"cancelled", "timeout"}, k.stage = o.stage,
         o.saved = 0 => \A p \in n.profiles : p.uuid = o.id => Excused(p)
  PROVE WorkersOK((os \ {o}) \cup {Connected(k)}, n, cs, next)
<1>1. OperationOK(o, next) /\ WorkerMeetsNm(o, n)
  BY DEF WorkersOK
<1> DEFINE q == Connected(k)
<1>2. /\ DOMAIN q = OperationFields
      /\ q.id = o.id /\ q.act = o.id /\ q.saved = o.saved
      /\ q.end \notin {"cancelled", "timeout"}
      /\ q.stage = "update" => q.saved # 0
      /\ q.pc = "ended" \/ (q.pc = "persist" /\ q.saved = 0)
  <2>1. CASE k.saved = 0
    <3>1. q = [k EXCEPT !.pc = "persist", !.news = Blank]
      BY <2>1, Zenon DEF Connected, Blank
    <3> HIDE DEF q
    <3> QED
      BY <2>1, <3>1, <1>1 DEF OperationFields, OperationOK
  <2>2. CASE k.saved # 0
    <3>1. q = Ended(k, "ok")
      BY <2>2, Zenon DEF Connected
    <3> HIDE DEF q
    <3> QED
      BY <3>1, <2>2, EndedFields, BlankIsNone
  <2> QED
    BY <2>1, <2>2
<1> HIDE DEF q
<1>3. OperationOK(q, next)
  BY <1>1, <1>2 DEF OperationOK
<1>4. WorkerMeetsNm(q, n)
  BY <1>1, <1>2 DEF WorkerMeetsNm
<1>5. \A c \in cs : WorkerMeetsCall(q, c)
  BY <1>2 DEF WorkerMeetsCall
<1>6. WorkersOK((os \ {o}) \cup {q}, n, cs, next)
  BY <1>2, <1>3, <1>4, <1>5, ReplacedOK
<1> QED
  BY <1>6 DEF q

\* The answer to a call: an activation follows the rewritten profile; a worker that is
\* told of its activation watches it unless it is up or down already.
LEMMA CallReturnsKeeps ==
  ASSUME WifiInv, CallReturns
  PROVE WifiInv'
<1>1. /\ LeftShape(left) /\ NmOK(nm, left.next) /\ CallsOK(calls, left.next)
      /\ WorkersOK(ops, nm, calls, left.next) /\ NmShape(nm)
  BY DEF WifiInv, NmOK
<1> DEFINE known(o) == [o EXCEPT !.act = o.given]
           after(o) == IF ~o.ok THEN Ended(o, "error")
                       ELSE IF nm.up.act # o.given THEN Ended(known(o), "error")
                       ELSE IF nm.up.state = "activated" THEN Connected(known(o))
                       ELSE [known(o) EXCEPT !.pc = "watch"]
<1>2. PICK o \in ops :
        /\ o.pc = "reply"
        /\ IF o.ok /\ o.stage = "update"
           THEN Send(o, "activate", [uuid |-> o.saved])
           ELSE Becomes(o, after(o)) /\ UNCHANGED calls
        /\ UNCHANGED <<nm, left>>
  BY Zenon DEF CallReturns
<1>3. OperationOK(o, left.next) /\ WorkerMeetsNm(o, nm) /\ \A c \in calls : WorkerMeetsCall(o, c)
  BY <1>1 DEF WorkersOK
<1>4. \A c \in calls : c.op # o.id
  BY <1>2, <1>3 DEF WorkerMeetsCall
<1> HIDE DEF known, after
<1>5. CASE o.ok /\ o.stage = "update"
  <2> DEFINE profile == [uuid |-> o.saved]
             call == [op |-> o.id, kind |-> "activate", profile |-> profile]
             q == [o EXCEPT !.pc = "call", !.stage = "activate", !.request = NoForm]
  <2>1. calls' = calls \cup {call} /\ ops' = (ops \ {o}) \cup {q}
    BY <1>2, <1>5 DEF Send, Becomes
  <2>2. o.saved # 0
    BY <1>3, <1>5 DEF OperationOK
  <2> HIDE DEF profile
  <2>3. MaySend(o, call)
    BY <1>2, <2>2 DEF MaySend
  <2>4. HasSent(o, call, q)
    BY <1>3 DEF OperationOK, OperationFields, HasSent
  <2> HIDE DEF call, q
  <2>5. /\ CallsOK(calls \cup {call}, left.next)
        /\ WorkersOK((ops \ {o}) \cup {q}, nm, calls \cup {call}, left.next)
    BY <1>1, <2>3, <2>4, SentCalls, SentWorkers
  <2> QED
    BY <1>1, <1>2, <2>1, <2>5, WifiStep DEF Quietly
<1>6. CASE ~(o.ok /\ o.stage = "update")
  <2> DEFINE k == known(o)
             q == after(o)
  <2>1. ops' = (ops \ {o}) \cup {q} /\ UNCHANGED calls
    BY <1>2, <1>6 DEF Becomes
  <2>2. SUFFICES WorkersOK((ops \ {o}) \cup {q}, nm, calls, left.next)
    BY <1>1, <1>2, <2>1, WifiStep DEF Quietly
  <2>3. CASE ~o.ok
    <3>1. q = Ended(o, "error")
      BY <2>3 DEF after
    <3> QED
      BY <1>1, <3>1, EndedOK
  <2>4. CASE o.ok
    <3>1. o.given = o.id
      BY <1>2, <1>3, <2>4 DEF OperationOK
    <3>2. DOMAIN o = OperationFields
      BY <1>3 DEF OperationOK
    <3>3. /\ DOMAIN k = OperationFields /\ k.id = o.id /\ k.act = o.id /\ k.saved = o.saved
          /\ k.end = o.end /\ k.stage = o.stage /\ k.news = o.news
      BY <3>1, <3>2 DEF OperationFields, known
    <3>4. /\ o.news # "up" /\ o.end \notin {"cancelled", "timeout"}
          /\ o.stage = "update" => o.saved # 0
      BY <1>2, <1>3 DEF OperationOK
    <3> HIDE DEF k
    <3>5. CASE nm.up.act # o.given
      <4>1. q = Ended(k, "error")
        BY <2>4, <3>5 DEF after, k
      <4>2. /\ DOMAIN q = OperationFields /\ q.id = o.id /\ q.act = o.id /\ q.saved = o.saved
            /\ q.pc = "ended" /\ q.end = "error" /\ q.stage = Blank
        BY <3>3, <4>1, EndedFields
      <4> HIDE DEF q
      <4>3. OperationOK(q, left.next)
        BY <1>3, <4>2, BlankIsNone DEF OperationOK
      <4>4. WorkerMeetsNm(q, nm)
        BY <1>3, <4>2 DEF WorkerMeetsNm
      <4>5. \A c \in calls : WorkerMeetsCall(q, c)
        BY <1>4, <4>2 DEF WorkerMeetsCall
      <4> QED
        BY <1>1, <4>2, <4>3, <4>4, <4>5, ReplacedOK
    <3>6. CASE nm.up.act = o.given /\ nm.up.state = "activated"
      <4>1. q = Connected(k)
        BY <2>4, <3>6 DEF after, k
      <4>2. o.saved = 0 => \A p \in nm.profiles : p.uuid = o.id => Excused(p)
        BY <1>1, <1>3, <3>1, <3>6 DEF NmOK, WorkerMeetsNm
      <4> HIDE DEF q
      <4>3. WorkersOK((ops \ {o}) \cup {Connected(k)}, nm, calls, left.next)
        BY <1>1, <1>4, <3>3, <3>4, <4>2, ConnectedOK
      <4> QED
        BY <4>1, <4>3
    <3>7. CASE nm.up.act = o.given /\ nm.up.state # "activated"
      <4>1. q = [k EXCEPT !.pc = "watch"]
        BY <2>4, <3>7 DEF after, k
      <4> HIDE DEF q
      <4>2. /\ DOMAIN q = OperationFields /\ q.id = o.id /\ q.act = o.id /\ q.saved = o.saved
            /\ q.pc = "watch" /\ q.end = o.end /\ q.stage = o.stage /\ q.news = o.news
        BY <3>3, <4>1 DEF OperationFields
      <4>3. OperationOK(q, left.next)
        BY <1>3, <3>4, <4>2 DEF OperationOK
      <4>4. WorkerMeetsNm(q, nm)
        BY <1>3, <3>4, <4>2 DEF WorkerMeetsNm
      <4>5. \A c \in calls : WorkerMeetsCall(q, c)
        BY <1>4, <4>2 DEF WorkerMeetsCall
      <4> QED
        BY <1>1, <4>2, <4>3, <4>4, <4>5, ReplacedOK
    <3> QED
      BY <3>5, <3>6, <3>7
  <2> QED
    BY <2>3, <2>4
<1> QED
  BY <1>5, <1>6

\* active_state_changed: the activation a worker watches is up or down.
LEMMA StateChangesKeeps ==
  ASSUME WifiInv, StateChanges
  PROVE WifiInv'
<1>1. /\ LeftShape(left) /\ NmOK(nm, left.next) /\ CallsOK(calls, left.next)
      /\ WorkersOK(ops, nm, calls, left.next)
  BY DEF WifiInv
<1>2. PICK o \in ops :
        /\ o.pc = "watch"
        /\ ops' = (ops \ {o}) \cup {IF o.news = "up" THEN Connected(o) ELSE Ended(o, "error")}
        /\ UNCHANGED <<nm, calls, left>>
  BY Zenon DEF StateChanges, Becomes
<1>3. OperationOK(o, left.next) /\ WorkerMeetsNm(o, nm) /\ \A c \in calls : WorkerMeetsCall(o, c)
  BY <1>1 DEF WorkersOK
<1>4. SUFFICES WorkersOK(ops', nm, calls, left.next)
  BY <1>1, <1>2, WifiStep DEF Quietly
<1>5. CASE o.news = "up"
  <2>1. \A c \in calls : c.op # o.id
    BY <1>2, <1>3 DEF WorkerMeetsCall
  <2>2. /\ DOMAIN o = OperationFields /\ o.act = o.id /\ o.end \notin {"cancelled", "timeout"}
    BY <1>2, <1>3 DEF OperationOK
  <2>3. o.saved = 0 => \A p \in nm.profiles : p.uuid = o.id => Excused(p)
    BY <1>2, <1>3, <1>5 DEF WorkerMeetsNm
  <2>4. WorkersOK((ops \ {o}) \cup {Connected(o)}, nm, calls, left.next)
    BY <1>1, <2>1, <2>2, <2>3, ConnectedOK
  <2> QED
    BY <1>2, <1>5, <2>4
<1>6. CASE o.news # "up"
  BY <1>1, <1>2, <1>6, EndedOK
<1> QED
  BY <1>5, <1>6

\* Who does not watch an activation is told nothing.
LEMMA ToldOthers ==
  ASSUME NEW os, NEW act, NEW news, NEW e, e.pc # "watch"
  PROVE /\ e \in os => e \in Told(os, act, news)
        /\ Told(os \cup {e}, act, news) = Told(os, act, news) \cup {e}
<1> DEFINE T(o) == IF o.pc = "watch" /\ o.act = act /\ act # 0 /\ o.news = Blank
                   THEN [o EXCEPT !.news = news] ELSE o
<1>1. \A ps : Told(ps, act, news) = {T(o) : o \in ps}
  BY Zenon DEF Told, Blank
<1>2. T(e) = e
  OBVIOUS
<1> HIDE DEF T
<1> QED
  BY <1>1, <1>2

\* poll_operation: the worker gives up and takes its activation down, or finds it gone.
LEMMA AbandonKeeps ==
  ASSUME WifiInv, NEW o \in ops, InLoop(o), NEW how, Abandon(o, how)
  PROVE WifiInv'
<1>1. /\ LeftShape(left) /\ NmOK(nm, left.next) /\ CallsOK(calls, left.next)
      /\ WorkersOK(ops, nm, calls, left.next) /\ NmShape(nm)
  BY DEF WifiInv, NmOK
<1>2. OperationOK(o, left.next) /\ WorkerMeetsNm(o, nm) /\ \A c \in calls : WorkerMeetsCall(o, c)
  BY <1>1 DEF WorkersOK
<1> DEFINE gone == o.act # 0 /\ nm.up.act # o.act
<1>3. /\ UNCHANGED <<calls, left>>
      /\ IF gone
         THEN nm' = nm /\ ops' = (ops \ {o}) \cup {[o EXCEPT !.polled = FALSE]}
         ELSE /\ nm' = IF o.act # 0 THEN Down(nm) ELSE nm
              /\ ops' = (IF o.act # 0 THEN ToldDown(ops \ {o}) ELSE ops \ {o}) \cup {Ended(o, how)}
  BY Zenon DEF Abandon, TakesDown
<1>4. CASE gone
  <2> DEFINE q == [o EXCEPT !.polled = FALSE]
  <2>1. /\ DOMAIN q = OperationFields
        /\ q.id = o.id /\ q.act = o.act /\ q.saved = o.saved /\ q.pc = o.pc /\ q.end = o.end
        /\ q.news = o.news /\ q.ok = o.ok /\ q.given = o.given /\ q.stage = o.stage
    BY <1>2 DEF OperationOK, OperationFields
  <2> HIDE DEF q
  <2>2. /\ OperationOK(q, left.next) /\ WorkerMeetsNm(q, nm)
        /\ \A c : WorkerMeetsCall(o, c) => WorkerMeetsCall(q, c)
    BY <1>2, <2>1, FlaggedGood
  <2>3. WorkersOK((ops \ {o}) \cup {q}, nm, calls, left.next)
    BY <1>1, <1>2, <2>1, <2>2, ReplacedOK
  <2>4. ops' = (ops \ {o}) \cup {q}
    BY <1>3, <1>4 DEF q
  <2> QED
    BY <1>1, <1>3, <1>4, <2>3, <2>4, WifiStep DEF Quietly
<1>5. CASE ~gone /\ o.act = 0
  <2>1. WorkersOK((ops \ {o}) \cup {Ended(o, how)}, nm, calls, left.next)
    BY <1>1, <1>5, EndedOK
  <2> QED
    BY <1>1, <1>3, <1>5, <2>1, WifiStep DEF Quietly
<1>6. CASE ~gone /\ o.act # 0
  <2> DEFINE m == Down(nm)
             e == Ended(o, how)
  <2>1. Calmer(nm, m) /\ m.up.act = 0
    BY <1>1, DownCalmer, DownFields, NotConnectedFields
  <2>2. NmOK(m, left.next)
    BY <1>1, <2>1, CalmerNm DEF LeftShape
  <2>3. WorkersOK(ops, m, calls, left.next)
    BY <1>1, <2>1, CalmerWorkers
  <2>4. o.id # 0 /\ e.pc # "watch"
    BY <1>2, EndedFields DEF OperationOK
  <2> HIDE DEF m
  <2>5. WorkersOK((ops \ {o}) \cup {e}, m, calls, left.next)
    BY <2>1, <2>3, <2>4, EndedOK
  <2> HIDE DEF e
  <2>6. WorkersOK(Told((ops \ {o}) \cup {e}, nm.up.act, "down"), m, calls, left.next)
    BY <2>5, ToldOK
  <2>7. Told((ops \ {o}) \cup {e}, nm.up.act, "down") = ToldDown(ops \ {o}) \cup {e}
    BY <2>4, ToldOthers DEF ToldDown
  <2>8. ops' = ToldDown(ops \ {o}) \cup {e} /\ nm' = m
    BY <1>3, <1>6 DEF e, m
  <2> QED
    BY <1>1, <1>3, <2>2, <2>6, <2>7, <2>8, WifiStep DEF Quietly
<1> QED
  BY <1>4, <1>5, <1>6

\* The worker polls: cancelled, or too late.
LEMMA PollsKeep ==
  ASSUME WifiInv, PollCancelled \/ PollTimesOut
  PROVE WifiInv'
BY AbandonKeeps DEF PollCancelled, PollTimesOut

\* _persist_active_profile: the new profile goes to disk, or that fails.
LEMMA PersistsKeeps ==
  ASSUME WifiInv, Persists
  PROVE WifiInv'
<1>1. /\ LeftShape(left) /\ NmOK(nm, left.next) /\ CallsOK(calls, left.next)
      /\ WorkersOK(ops, nm, calls, left.next) /\ NmShape(nm)
  BY DEF WifiInv, NmOK
<1> DEFINE K(p, id) == IF p.uuid = id THEN [p EXCEPT !.disk = TRUE] ELSE p
<1>2. PICK o \in ops :
        /\ o.pc = "persist"
        /\ \/ /\ Quietly
              /\ nm' = [nm EXCEPT !.profiles = {K(p, o.id) : p \in nm.profiles}]
              /\ ops' = (ops \ {o}) \cup {Ended(o, "ok")}
           \/ /\ Trouble \/ Quietly
              /\ nm' = nm
              /\ ops' = (ops \ {o}) \cup {Ended(o, "error")}
        /\ UNCHANGED calls
  BY DEF Persists, Becomes
<1>3. OperationOK(o, left.next) /\ WorkerMeetsNm(o, nm)
  BY <1>1 DEF WorkersOK
<1>4. CASE /\ Quietly
           /\ nm' = [nm EXCEPT !.profiles = {K(p, o.id) : p \in nm.profiles}]
           /\ ops' = (ops \ {o}) \cup {Ended(o, "ok")}
  <2> DEFINE ps == {K(p, o.id) : p \in nm.profiles}
             m == [nm EXCEPT !.profiles = ps]
  <2>1. \A p \in nm.profiles : p.uuid = o.id => Excused(p)
    BY <1>2, <1>3 DEF OperationOK, WorkerMeetsNm
  <2>2. ASSUME NEW p \in nm.profiles
        PROVE /\ DOMAIN K(p, o.id) = ProfileFields
              /\ K(p, o.id) \in nm.profiles \/ Excused(K(p, o.id))
    <3>1. DOMAIN p = ProfileFields
      BY <1>1 DEF NmShape
    <3>2. CASE p.uuid = o.id
      <4> DEFINE q == [p EXCEPT !.disk = TRUE]
      <4>1. /\ DOMAIN q = ProfileFields /\ q.made = p.made /\ q.worked = p.worked
            /\ q.rewritten = p.rewritten
        BY <3>1 DEF ProfileFields
      <4> HIDE DEF q
      <4>2. Excused(q)
        BY <2>1, <3>2, <4>1 DEF Excused
      <4> QED
        BY <3>2, <4>1, <4>2 DEF q
    <3>3. CASE p.uuid # o.id
      BY <3>1, <3>3
    <3> QED
      BY <3>2, <3>3
  <2> HIDE DEF K
  <2>3. /\ \A q \in ps : DOMAIN q = ProfileFields
        /\ \A q \in ps : q \in nm.profiles \/ Excused(q)
    BY <2>2
  <2> HIDE DEF ps
  <2>4. Calmer(nm, m)
    BY <1>1, <2>3, ProfilesCalmer
  <2>5. nm' = m
    BY <1>4 DEF ps
  <2> HIDE DEF m
  <2>6. NmOK(m, left.next) /\ WorkersOK(ops, m, calls, left.next)
    BY <1>1, <2>4, CalmerNm, CalmerWorkers DEF LeftShape
  <2>7. WorkersOK((ops \ {o}) \cup {Ended(o, "ok")}, m, calls, left.next)
    BY <2>6, EndedOK
  <2> QED
    BY <1>1, <1>2, <1>4, <2>5, <2>6, <2>7, WifiStep
<1>5. CASE /\ Trouble \/ Quietly
           /\ nm' = nm
           /\ ops' = (ops \ {o}) \cup {Ended(o, "error")}
  <2>1. WorkersOK((ops \ {o}) \cup {Ended(o, "error")}, nm, calls, left.next)
    BY <1>1, EndedOK
  <2> QED
    BY <1>1, <1>2, <1>5, <2>1, WifiStep
<1> QED
  BY <1>2, <1>4, <1>5

\* A worker that ends after NetworkManager has calmed down and the others have been told.
LEMMA CalmEnd ==
  ASSUME WifiInv, NEW o \in ops, o.pc = "start", NEW m, nm' = m, Calmer(nm, m),
         NEW how, how \notin {"cancelled", "timeout"}, UNCHANGED <<calls, left>>,
         \/ ops' = (ops \ {o}) \cup {Ended(o, how)}
         \/ ops' = (ToldDown(ops) \ {o}) \cup {Ended(o, how)}
  PROVE WifiInv'
<1>1. /\ LeftShape(left) /\ NmOK(nm, left.next) /\ CallsOK(calls, left.next)
      /\ WorkersOK(ops, nm, calls, left.next)
  BY DEF WifiInv
<1>2. NmOK(m, left.next) /\ WorkersOK(ops, m, calls, left.next)
  BY <1>1, CalmerNm, CalmerWorkers DEF LeftShape
<1>3. WorkersOK((ops \ {o}) \cup {Ended(o, how)}, m, calls, left.next)
  BY <1>2, EndedOK
<1>4. WorkersOK(ToldDown(ops), m, calls, left.next) /\ o \in ToldDown(ops)
  BY <1>2, ToldOK, ToldOthers DEF ToldDown
<1>5. WorkersOK((ToldDown(ops) \ {o}) \cup {Ended(o, how)}, m, calls, left.next)
  BY <1>4, EndedOK
<1> QED
  BY <1>1, <1>2, <1>3, <1>5, WifiStep DEF Quietly

\* disconnect_wifi
LEMMA DisconnectsKeeps ==
  ASSUME WifiInv, Disconnects
  PROVE WifiInv'
<1>1. NmShape(nm)
  BY DEF WifiInv, NmOK
<1>2. PICK o \in ops :
        /\ o.pc = "start"
        /\ \/ nm' = nm /\ ops' = (ops \ {o}) \cup {Ended(o, "error")}
           \/ /\ nm' = [Down(nm) EXCEPT !.blocked = TRUE]
              /\ ops' = (ToldDown(ops) \ {o}) \cup {Ended(o, "ok")}
        /\ UNCHANGED <<calls, left>>
  BY Zenon DEF Disconnects, Becomes
<1>3. CASE nm' = nm /\ ops' = (ops \ {o}) \cup {Ended(o, "error")}
  BY <1>1, <1>2, <1>3, SameCalmer, CalmEnd
<1>4. CASE /\ nm' = [Down(nm) EXCEPT !.blocked = TRUE]
           /\ ops' = (ToldDown(ops) \ {o}) \cup {Ended(o, "ok")}
  <2> DEFINE d == Down(nm)
             m == [d EXCEPT !.blocked = TRUE]
  <2>1. Calmer(nm, d)
    BY <1>1, DownCalmer
  <2>2. nm' = m
    BY <1>4
  <2> HIDE DEF d
  <2>3. Calmer(d, m)
    <3>1. NmShape(d)
      BY <2>1 DEF Calmer
    <3> QED
      BY <3>1, AirCalmer
  <2> HIDE DEF m
  <2>4. Calmer(nm, m)
    BY <2>1, <2>3, CalmerTwice
  <2> QED
    BY <1>2, <1>4, <2>2, <2>4, CalmEnd
<1> QED
  BY <1>2, <1>3, <1>4

\* set_wifi_radio
LEMMA SwitchesRadioKeeps ==
  ASSUME WifiInv, SwitchesRadio
  PROVE WifiInv'
<1>1. NmShape(nm)
  BY DEF WifiInv, NmOK
<1>2. PICK o \in ops, on \in BOOLEAN :
        /\ o.pc = "start"
        /\ nm' = [(IF on THEN nm ELSE Down(nm)) EXCEPT !.radio = on]
        /\ ops' = ((IF on THEN ops ELSE ToldDown(ops)) \ {o}) \cup {Ended(o, "ok")}
        /\ UNCHANGED <<calls, left>>
  <2>1. PICK o \in ops :
          /\ o.pc = "start"
          /\ LET on == o.what = "radio on"
             IN /\ nm' = [(IF on THEN nm ELSE Down(nm)) EXCEPT !.radio = on]
                /\ ops' = ((IF on THEN ops ELSE ToldDown(ops)) \ {o}) \cup {Ended(o, "ok")}
          /\ UNCHANGED <<calls, left>>
    BY Zenon DEF SwitchesRadio
  <2>2. (o.what = "radio on") \in BOOLEAN
    OBVIOUS
  <2> QED
    BY <2>1, <2>2, Zenon
<1> DEFINE d == IF on THEN nm ELSE Down(nm)
           m == [d EXCEPT !.radio = on]
<1>3. Calmer(nm, d)
  BY <1>1, DownCalmer, SameCalmer
<1>4. nm' = m
  BY <1>2
<1> HIDE DEF d
<1>5. Calmer(d, m)
  <2>1. NmShape(d)
    BY <1>3 DEF Calmer
  <2> QED
    BY <2>1, AirCalmer
<1> HIDE DEF m
<1>6. Calmer(nm, m)
  BY <1>3, <1>5, CalmerTwice
<1> QED
  BY <1>2, <1>4, <1>6, CalmEnd

\* Whatever goes on without the person keeps the invariant.
LEMMA BackgroundKeeps ==
  ASSUME WifiInv, Background
  PROVE WifiInv'
BY NmHandlesKeeps, NmActivatesKeeps, EndsKeep, LeavesKeep, ConnectsByItselfKeeps, ConnectBeginsKeeps,
   AgentRefusedKeeps, CallReturnsKeeps, StateChangesKeeps, PollsKeep, PersistsKeeps, DisconnectsKeeps,
   SwitchesRadioKeeps DEF Background

-----------------------------------------------------------------------------
(* What the pages do to the workers *)

\* The bounds after any step that starts no operation.
LEMMA LeftAfter ==
  ASSUME LeftShape(left),
         \/ Trouble \/ Quietly \/ left' = OneBack
         \/ left.toggles > 0 /\ left' = [left EXCEPT !.toggles = @ - 1]
  PROVE LeftShape(left') /\ left'.next = left.next
<1>1. CASE Trouble \/ Quietly
  BY <1>1, TroubleOrNot
<1>2. CASE left' = OneBack
  <2>1. PICK t : t = left.backs - 1
    OBVIOUS
  <2>2. left' = [left EXCEPT !.backs = t]
    BY <1>2, <2>1 DEF OneBack
  <2> HIDE <2>1
  <2> QED
    BY <2>2 DEF LeftShape
<1>3. CASE left.toggles > 0 /\ left' = [left EXCEPT !.toggles = @ - 1]
  <2>1. PICK t \in Nat : t = left.toggles - 1
    BY <1>3 DEF LeftShape
  <2>2. left' = [left EXCEPT !.toggles = t]
    BY <1>3, <2>1
  <2> HIDE <2>1
  <2> QED
    BY <2>2 DEF LeftShape
<1> QED
  BY <1>1, <1>2, <1>3

\* A step of the pages that leaves the workers and NetworkManager alone.
LEMMA WifiSame ==
  ASSUME WifiInv, UNCHANGED <<nm, calls, ops>>,
         \/ Trouble \/ Quietly \/ left' = OneBack
         \/ left.toggles > 0 /\ left' = [left EXCEPT !.toggles = @ - 1]
  PROVE WifiInv'
<1>1. LeftShape(left') /\ left'.next = left.next
  BY LeftAfter DEF WifiInv
<1> QED
  BY <1>1 DEF WifiInv

\* A scan that a handler starts may fail at once; nothing else is used up.
LEMMA ScansLeft ==
  ASSUME NEW p, NEW s, NEW force, Scans(p, s, force)
  PROVE Trouble \/ Quietly
BY DEF Scans

\* _start_operation
LEMMA StartKeeps ==
  ASSUME WifiInv, NEW what, NEW request, NEW wps, NEW profile,
         StartOperation(what, request, wps, profile), UNCHANGED <<nm, calls>>
  PROVE WifiInv'
<1>1. /\ LeftShape(left) /\ NmOK(nm, left.next) /\ CallsOK(calls, left.next)
      /\ WorkersOK(ops, nm, calls, left.next)
      /\ left.next \in Nat /\ left.next > 0
  BY DEF WifiInv, LeftShape
<1>2. /\ ops' = ops \cup {Operation(left.next, page.instance, what, request, wps, profile)}
      /\ left' = [left EXCEPT !.ops = @ - 1, !.next = @ + 1]
  BY DEF StartOperation
<1>3. LeftShape(left') /\ left'.next = left.next + 1
  <2>1. PICK t : t = left.ops - 1
    OBVIOUS
  <2>2. PICK n \in Nat : n = left.next + 1
    BY <1>1
  <2>3. left' = [left EXCEPT !.ops = t, !.next = n]
    BY <1>2, <2>1, <2>2
  <2> HIDE <2>1
  <2>4. left'.next = n /\ DOMAIN left' = DOMAIN left /\ left'.toggles = left.toggles
    BY <1>1, <2>3 DEF LeftShape
  <2>5. n > 0
    BY <1>1, <2>2
  <2> QED
    BY <1>1, <2>2, <2>4, <2>5 DEF LeftShape
<1>4. /\ WorkersOK(ops', nm, calls, left.next + 1)
      /\ NmOK(nm, left.next + 1) /\ CallsOK(calls, left.next + 1)
  BY <1>1, <1>2, AddedOK
<1> QED
  BY <1>3, <1>4 DEF WifiInv

\* A row, the name of a hidden network, an answered dialog, the switch of the radio.
LEMMA PressesKeep ==
  ASSUME WifiInv, PressRow \/ NameHidden \/ AnswerDialog \/ PressRadio
  PROVE WifiInv'
<1>1. UNCHANGED <<nm, calls>>
  BY DEF PressRow, NameHidden, AnswerDialog, PressRadio
<1>2. ASSUME NEW network, ActivateNetwork(network) PROVE WifiInv'
  <2>1. CASE UNCHANGED <<ops, left, scan>>
    BY <1>1, <2>1, WifiSame DEF Quietly
  <2>2. CASE StartConnection(network, NoForm, FALSE)
    BY <1>1, <2>2, StartKeeps DEF StartConnection
  <2> QED
    BY <1>2, <2>1, <2>2 DEF ActivateNetwork
<1>3. CASE PressRow \/ NameHidden
  BY <1>2, <1>3 DEF PressRow, NameHidden
<1>4. CASE AnswerDialog
  <2>1. CASE UNCHANGED <<ops, left, scan>>
    BY <1>1, <2>1, WifiSame DEF Quietly
  <2>2. ASSUME NEW form, NEW wps, StartConnection(page.dialog, form, wps) PROVE WifiInv'
    BY <1>1, <2>2, StartKeeps DEF StartConnection
  <2>3. CASE StartOperation("disconnect", NoForm, FALSE, 0)
    BY <1>1, <2>3, StartKeeps
  <2> QED
    BY <1>4, <2>1, <2>2, <2>3 DEF AnswerDialog
<1>5. CASE PressRadio
  <2>1. PICK what : StartOperation(what, NoForm, FALSE, 0)
    BY <1>5 DEF PressRadio
  <2> QED
    BY <1>1, <2>1, StartKeeps
<1> QED
  BY <1>3, <1>4, <1>5

\* The fields of a worker that has been asked to stop.
LEMMA CancelFields ==
  ASSUME NEW o, DOMAIN o = OperationFields, NEW q, q = [o EXCEPT !.cancel = TRUE]
  PROVE /\ DOMAIN q = OperationFields
        /\ q.id = o.id /\ q.act = o.act /\ q.saved = o.saved /\ q.pc = o.pc /\ q.end = o.end
        /\ q.news = o.news /\ q.ok = o.ok /\ q.given = o.given /\ q.stage = o.stage
BY DEF OperationFields

\* The Cancel button.
LEMMA PressCancelKeeps ==
  ASSUME WifiInv, PressCancel
  PROVE WifiInv'
<1>1. /\ LeftShape(left) /\ NmOK(nm, left.next) /\ CallsOK(calls, left.next)
      /\ WorkersOK(ops, nm, calls, left.next)
  BY DEF WifiInv
<1>2. PICK o \in ops : /\ ops' = (ops \ {o}) \cup {[o EXCEPT !.cancel = TRUE]}
                       /\ UNCHANGED <<nm, calls, left>>
  BY DEF PressCancel
<1>3. PICK q : q = [o EXCEPT !.cancel = TRUE]
  OBVIOUS
<1>4. OperationOK(o, left.next) /\ WorkerMeetsNm(o, nm) /\ \A c \in calls : WorkerMeetsCall(o, c)
  BY <1>1 DEF WorkersOK
<1>5. /\ DOMAIN q = OperationFields
      /\ q.id = o.id /\ q.act = o.act /\ q.saved = o.saved /\ q.pc = o.pc /\ q.end = o.end
      /\ q.news = o.news /\ q.ok = o.ok /\ q.given = o.given /\ q.stage = o.stage
  BY <1>3, <1>4, CancelFields DEF OperationOK
<1>6. /\ OperationOK(q, left.next) /\ WorkerMeetsNm(q, nm)
      /\ \A c : WorkerMeetsCall(o, c) => WorkerMeetsCall(q, c)
  BY <1>4, <1>5, FlaggedGood
<1>7. WorkersOK((ops \ {o}) \cup {q}, nm, calls, left.next)
  BY <1>1, <1>4, <1>5, <1>6, ReplacedOK
<1> QED
  BY <1>1, <1>2, <1>3, <1>7, WifiStep DEF Quietly

\* A network page that is left for good may cancel its operation.
LEMMA BackFromNetworkKeeps ==
  ASSUME WifiInv, BackFromNetwork
  PROVE WifiInv'
<1>1. /\ LeftShape(left) /\ NmOK(nm, left.next) /\ CallsOK(calls, left.next)
      /\ WorkersOK(ops, nm, calls, left.next)
  BY DEF WifiInv
<1> DEFINE C(o, b) == IF b /\ o.id = page.op THEN [o EXCEPT !.cancel = TRUE] ELSE o
<1>2. PICK b \in BOOLEAN : ops' = {C(o, b) : o \in ops}
  BY DEF BackFromNetwork
<1>3. UNCHANGED <<nm, calls>> /\ left' = OneBack
  BY DEF BackFromNetwork
<1>4. ASSUME NEW o \in ops
      PROVE /\ C(o, b).id = o.id
            /\ OperationOK(C(o, b), left.next) /\ WorkerMeetsNm(C(o, b), nm)
            /\ \A c \in calls : WorkerMeetsCall(C(o, b), c)
  <2>1. OperationOK(o, left.next) /\ WorkerMeetsNm(o, nm) /\ \A c \in calls : WorkerMeetsCall(o, c)
    BY <1>1 DEF WorkersOK
  <2>2. CASE b /\ o.id = page.op
    <3>1. PICK q : q = [o EXCEPT !.cancel = TRUE]
      OBVIOUS
    <3>2. C(o, b) = q
      BY <2>2, <3>1
    <3> HIDE DEF C
    <3>3. /\ DOMAIN q = OperationFields
          /\ q.id = o.id /\ q.act = o.act /\ q.saved = o.saved /\ q.pc = o.pc /\ q.end = o.end
          /\ q.news = o.news /\ q.ok = o.ok /\ q.given = o.given /\ q.stage = o.stage
      BY <2>1, <3>1, CancelFields DEF OperationOK
    <3> HIDE <3>1
    <3>4. /\ OperationOK(q, left.next) /\ WorkerMeetsNm(q, nm)
          /\ \A c : WorkerMeetsCall(o, c) => WorkerMeetsCall(q, c)
      BY <2>1, <3>3, FlaggedGood
    <3> QED
      BY <2>1, <3>2, <3>3, <3>4
  <2>3. CASE ~(b /\ o.id = page.op)
    BY <2>1, <2>3
  <2> QED
    BY <2>2, <2>3
<1> HIDE DEF C
<1>5. WorkersOK(ops', nm, calls, left.next)
  BY <1>1, <1>2, <1>4 DEF WorkersOK
<1>6. LeftShape(left') /\ left'.next = left.next
  BY <1>1, <1>3, LeftAfter
<1> QED
  BY <1>1, <1>3, <1>5, <1>6 DEF WifiInv

\* The worker of an operation that has ended is waited for.
LEMMA FinishOperationKeeps ==
  ASSUME WifiInv, FinishOperation
  PROVE WifiInv'
<1>1. /\ LeftShape(left) /\ NmOK(nm, left.next) /\ CallsOK(calls, left.next)
      /\ WorkersOK(ops, nm, calls, left.next)
  BY DEF WifiInv
<1>2. PICK o \in ops : ops' = ops \ {o} /\ UNCHANGED <<nm, calls>> /\ (Trouble \/ Quietly)
  BY ScansLeft DEF FinishOperation, Quietly
<1>3. WorkersOK(ops \ {o}, nm, calls, left.next)
  BY <1>1, FewerOK
<1> QED
  BY <1>1, <1>2, <1>3, WifiStep

\* All other steps of the person and of the main loop leave the workers alone.
LEMMA OthersKeep ==
  ASSUME WifiInv,
         \/ Refresh \/ TickRisk \/ ToggleOption
         \/ NextFromWelcome \/ NextFromBattery \/ NextFromSecureBoot \/ NextFromNetwork \/ NextFromChoices
         \/ BackFromChoices \/ BackFromEarlier
         \/ PeriodicRefresh \/ ScanReadsNetworks \/ ScanBreaks \/ DeliverScan
         \/ RecheckPower \/ NetworkChanged \/ BatteryChanges \/ CableMoves
  PROVE WifiInv'
<1>1. CASE Refresh \/ PeriodicRefresh
  BY <1>1, ScansLeft, WifiSame DEF Refresh, PeriodicRefresh
<1>2. CASE TickRisk \/ ScanReadsNetworks \/ DeliverScan \/ RecheckPower \/ NextFromChoices \/ NextFromNetwork
  BY <1>2, WifiSame
     DEF TickRisk, ScanReadsNetworks, DeliverScan, RecheckPower, NextFromChoices, NextFromNetwork, wifi, Quietly
<1>3. CASE ToggleOption
  BY <1>3, WifiSame DEF ToggleOption
<1>4. ASSUME NEW next, NEW s, Shows(next, s) PROVE Trouble \/ Quietly
  BY <1>4, ScansLeft DEF Shows, Quietly
<1>5. CASE NextFromWelcome
  BY <1>4, <1>5, WifiSame DEF NextFromWelcome, Quietly
<1>6. CASE NextFromBattery
  BY <1>4, <1>6, WifiSame DEF NextFromBattery
<1>7. CASE NextFromSecureBoot
  BY <1>4, <1>7, WifiSame DEF NextFromSecureBoot
<1>8. CASE BackFromChoices \/ BackFromEarlier
  BY <1>8, WifiSame DEF BackFromChoices, BackFromEarlier
<1>9. CASE ScanBreaks \/ BatteryChanges \/ CableMoves
  BY <1>9, WifiSame DEF ScanBreaks, BatteryChanges, CableMoves
<1>10. CASE NetworkChanged
  BY <1>10, ScansLeft, WifiSame DEF NetworkChanged, Quietly
<1> QED
  BY <1>1, <1>2, <1>3, <1>5, <1>6, <1>7, <1>8, <1>9, <1>10

\* Every step keeps the invariant of the workers.
LEMMA WifiStepKeeps ==
  ASSUME WifiInv, Next
  PROVE WifiInv'
<1>1. CASE Person
  BY <1>1, PressesKeep, PressCancelKeeps, BackFromNetworkKeeps, OthersKeep DEF Person
<1>2. CASE MainLoop
  BY <1>2, FinishOperationKeeps, OthersKeep DEF MainLoop
<1>3. CASE BatteryChanges \/ CableMoves
  BY <1>3, OthersKeep
<1>4. CASE Background
  BY <1>4, BackgroundKeeps
<1> QED
  BY <1>1, <1>2, <1>3, <1>4 DEF Next

-----------------------------------------------------------------------------
(* The pages *)

\* What the properties say of one step.
SessionKept == PowerGate /\ PreferencesSurvive

\* effective_network_choice and _save change what is chosen and preferred, no more.
LEMMA ChoiceFields ==
  ASSUME NEW s, DOMAIN s = SharedFields, NEW online
  PROVE /\ DOMAIN Effective(s, online) = SharedFields
        /\ Effective(s, online).low = s.low /\ Effective(s, online).override = s.override
        /\ Effective(s, online).built = s.built /\ Effective(s, online).preferred = s.preferred
        /\ Effective(s, online).chosen = IF online THEN s.preferred ELSE {}
        /\ DOMAIN Save(s) = SharedFields
        /\ Save(s).low = s.low /\ Save(s).override = s.override
        /\ Save(s).built = s.built /\ Save(s).chosen = s.chosen
        /\ Save(s).preferred = IF monitor THEN s.chosen ELSE s.preferred
<1>1. PICK x : x = IF online THEN s.preferred ELSE {}
  OBVIOUS
<1>2. Effective(s, online) = [s EXCEPT !.chosen = x]
  BY <1>1 DEF Effective
<1>3. /\ DOMAIN Effective(s, online) = SharedFields
      /\ Effective(s, online).low = s.low /\ Effective(s, online).override = s.override
      /\ Effective(s, online).built = s.built /\ Effective(s, online).preferred = s.preferred
      /\ Effective(s, online).chosen = x
  BY <1>2 DEF SharedFields
<1>4. CASE monitor
  <2>1. Save(s) = [s EXCEPT !.preferred = s.chosen]
    BY <1>4 DEF Save
  <2> QED
    BY <1>1, <1>3, <1>4, <2>1 DEF SharedFields
<1>5. CASE ~monitor
  <2>1. Save(s) = s
    BY <1>5 DEF Save
  <2> QED
    BY <1>1, <1>3, <1>5, <2>1
<1> QED
  BY <1>4, <1>5

\* The page of options is built with the rest of the session as it was.
LEMMA BuiltFields ==
  ASSUME NEW s, DOMAIN s = SharedFields, NEW online
  PROVE LET t == Effective([s EXCEPT !.built = TRUE], online)
        IN /\ DOMAIN t = SharedFields
           /\ t.low = s.low /\ t.override = s.override /\ t.built = TRUE
           /\ t.preferred = s.preferred /\ t.chosen = IF online THEN s.preferred ELSE {}
<1>1. PICK u : u = [s EXCEPT !.built = TRUE]
  OBVIOUS
<1>2. /\ DOMAIN u = SharedFields
      /\ u.low = s.low /\ u.override = s.override /\ u.built = TRUE /\ u.preferred = s.preferred
  BY <1>1 DEF SharedFields
<1>3. PICK t : t = Effective(u, online)
  OBVIOUS
<1>4. /\ DOMAIN t = SharedFields
      /\ t.low = s.low /\ t.override = s.override /\ t.built = TRUE
      /\ t.preferred = s.preferred /\ t.chosen = IF online THEN s.preferred ELSE {}
  <2> HIDE <1>1
  <2> QED
    BY <1>2, <1>3, ChoiceFields
<1> QED
  BY <1>1, <1>3, <1>4

\* A page comes to the front: the session is as it was, and the page of options exists
\* if it is the one.
Shown(next, s) ==
  /\ front' = next
  /\ DOMAIN shared' = SharedFields
  /\ shared'.low = s.low /\ shared'.override = s.override /\ shared'.preferred = s.preferred
  /\ next = "choices" => shared'.built = TRUE /\ shared'.chosen = IF monitor THEN s.preferred ELSE {}
  /\ next # "choices" => shared'.built = s.built /\ shared'.chosen = s.chosen

\* That is what Shows of InstallerEntry does.
LEMMA ShowsIs ==
  ASSUME NEW next, NEW s, DOMAIN s = SharedFields, Shows(next, s)
  PROVE Shown(next, s)
<1>1. CASE next = "choices"
  <2>1. front' = next /\ shared' = Effective([s EXCEPT !.built = TRUE], monitor)
    BY <1>1 DEF Shows
  <2>2. /\ DOMAIN shared' = SharedFields
        /\ shared'.low = s.low /\ shared'.override = s.override /\ shared'.built = TRUE
        /\ shared'.preferred = s.preferred /\ shared'.chosen = IF monitor THEN s.preferred ELSE {}
    BY <2>1, BuiltFields
  <2> QED
    BY <1>1, <2>1, <2>2 DEF Shown
<1>2. CASE next # "choices"
  BY <1>2 DEF Shows, Shown
<1> QED
  BY <1>1, <1>2

\* The fields of the low-battery page after a reading.
LEMMA RenderFields ==
  ASSUME NEW low
  PROVE /\ DOMAIN RenderStatus(low) = PowerFields
        /\ RenderStatus(low).shown = TRUE /\ RenderStatus(low).low = low
<1>1. PICK x : RenderStatus(low) = [shown |-> TRUE, low |-> low, tick |-> FALSE, next |-> x]
  BY DEF RenderStatus
<1> QED
  BY <1>1 DEF PowerFields

\* A step that touches neither the session nor the page in front.
LEMMA SessionSame ==
  ASSUME PagesInv, UNCHANGED <<front, shared, power, monitor>>
  PROVE PagesInv' /\ SessionKept
BY DEF PagesInv, PowerInv, OptionsInv, SessionKept, PowerGate, PreferencesSurvive

\* A step of the pages past the power check: nothing of what the properties are about
\* changes but the page in front, and the page of options may be built.
LEMMA SessionMoves ==
  ASSUME PagesInv, UNCHANGED <<power, monitor>>,
         DOMAIN shared' = SharedFields, shared'.low = shared.low, shared'.preferred = shared.preferred,
         shared'.override = shared.override,
         shared'.built => shared'.chosen = IF monitor THEN shared'.preferred ELSE {},
         front' \notin {"welcome", "battery"} => shared.override \/ ~shared.low,
         front' = "battery" => power.shown,
         front' \in {"choices", "later"} => shared'.built
  PROVE PagesInv' /\ SessionKept
BY DEF PagesInv, PowerInv, OptionsInv, SessionKept, PowerGate, PreferencesSurvive

\* The pages that follow the power check, and the ones below the network page.
LEMMA Routes ==
  /\ AfterSecureBoot \in {"network", "choices"}
  /\ AfterPower \in {"network", "choices", "secureboot"}
  /\ BelowSecureBoot \in {"welcome", "battery"} /\ (BelowSecureBoot = "battery" => power.shown)
  /\ BelowNetwork \in {"welcome", "battery", "secureboot"} /\ (BelowNetwork = "battery" => power.shown)
BY DEF AfterSecureBoot, AfterPower, BelowSecureBoot, BelowNetwork

\* The low-battery page: a new reading, the box for the risk.
LEMMA BatteryPageKeeps ==
  ASSUME PagesInv, RecheckPower \/ TickRisk
  PROVE PagesInv' /\ SessionKept
<1>1. CASE RecheckPower
  <2>1. /\ front = "battery" /\ UNCHANGED <<front, monitor>>
        /\ shared' = [shared EXCEPT !.low = machine.low] /\ power' = RenderStatus(machine.low)
    BY <1>1 DEF RecheckPower, Rechecked
  <2>2. /\ DOMAIN shared' = SharedFields /\ shared'.low = machine.low
        /\ shared'.override = shared.override /\ shared'.preferred = shared.preferred
        /\ shared'.built = shared.built /\ shared'.chosen = shared.chosen
    BY <2>1 DEF PagesInv, SharedFields
  <2>3. DOMAIN power' = PowerFields /\ power'.shown = TRUE /\ power'.low = machine.low
    BY <2>1, RenderFields
  <2> QED
    BY <2>1, <2>2, <2>3
       DEF PagesInv, PowerInv, OptionsInv, SessionKept, PowerGate, PreferencesSurvive
<1>2. CASE TickRisk
  <2>1. PICK x, y : power' = [power EXCEPT !.tick = x, !.next = y] /\ UNCHANGED <<front, shared, monitor>>
    BY <1>2 DEF TickRisk
  <2>2. DOMAIN power' = PowerFields /\ power'.shown = power.shown /\ power'.low = power.low
    BY <2>1 DEF PagesInv, PowerFields
  <2> QED
    BY <2>1, <2>2 DEF PagesInv, PowerInv, OptionsInv, SessionKept, PowerGate, PreferencesSurvive
<1> QED
  BY <1>1, <1>2

\* Only the person changes a preference, and only while online.
LEMMA ToggleKeeps ==
  ASSUME PagesInv, LeftShape(left), ToggleOption
  PROVE PagesInv' /\ SessionKept
<1>1. PICK x : shared' = Save([shared EXCEPT !.chosen = x])
  BY DEF ToggleOption
<1>2. /\ front = "choices" /\ monitor /\ left.toggles > 0 /\ UNCHANGED <<front, power, monitor>>
      /\ left' = [left EXCEPT !.toggles = @ - 1]
  BY DEF ToggleOption
<1>3. PICK s : s = [shared EXCEPT !.chosen = x]
  OBVIOUS
<1>4. /\ DOMAIN s = SharedFields /\ s.low = shared.low /\ s.override = shared.override
      /\ s.built = shared.built
  BY <1>3 DEF PagesInv, SharedFields
<1>5. /\ DOMAIN shared' = SharedFields /\ shared'.low = shared.low
      /\ shared'.override = shared.override /\ shared'.built = shared.built
      /\ shared'.chosen = s.chosen /\ shared'.preferred = s.chosen
  BY <1>1, <1>2, <1>3, <1>4, ChoiceFields
<1>6. left'.toggles # left.toggles
  BY <1>2 DEF LeftShape
<1> QED
  BY <1>2, <1>5, <1>6
     DEF PagesInv, PowerInv, OptionsInv, SessionKept, PowerGate, PreferencesSurvive

\* The connection comes or goes.
LEMMA NetworkChangedKeeps ==
  ASSUME PagesInv, NetworkChanged
  PROVE PagesInv' /\ SessionKept
<1>1. /\ monitor' = Online /\ UNCHANGED <<front, power>>
      /\ shared' = IF shared.built THEN Effective(shared, Online) ELSE shared
  BY DEF NetworkChanged
<1>2. DOMAIN shared = SharedFields
  BY DEF PagesInv
<1>3. /\ DOMAIN shared' = SharedFields /\ shared'.low = shared.low
      /\ shared'.override = shared.override /\ shared'.built = shared.built
      /\ shared'.preferred = shared.preferred
      /\ shared.built => shared'.chosen = IF Online THEN shared.preferred ELSE {}
  <2>1. CASE shared.built
    BY <1>1, <1>2, <2>1, ChoiceFields
  <2>2. CASE ~shared.built
    BY <1>1, <1>2, <2>2
  <2> QED
    BY <2>1, <2>2
<1>4. shared'.built => shared'.chosen = IF monitor' THEN shared'.preferred ELSE {}
  <2>1. CASE Online
    BY <1>1, <1>3, <2>1
  <2>2. CASE ~Online
    BY <1>1, <1>3, <2>2
  <2> QED
    BY <2>1, <2>2
<1> QED
  BY <1>1, <1>3, <1>4
     DEF PagesInv, PowerInv, OptionsInv, SessionKept, PowerGate, PreferencesSurvive

\* From the welcome page: to the low-battery page, or past it if there is no need.
LEMMA NextFromWelcomeKeeps ==
  ASSUME PagesInv, NextFromWelcome
  PROVE PagesInv' /\ SessionKept
<1>1. DOMAIN shared = SharedFields /\ UNCHANGED monitor
  BY DEF PagesInv, NextFromWelcome
<1>2. CASE WarningNeeded
  <2>1. front' = "battery" /\ power' = RenderStatus(shared.low) /\ UNCHANGED shared
    BY <1>2 DEF NextFromWelcome
  <2>2. DOMAIN power' = PowerFields /\ power'.shown = TRUE /\ power'.low = shared.low
    BY <2>1, RenderFields
  <2> QED
    BY <1>1, <2>1, <2>2
       DEF PagesInv, PowerInv, OptionsInv, SessionKept, PowerGate, PreferencesSurvive
<1>3. CASE ~WarningNeeded
  <2>1. Shows(AfterPower, shared) /\ UNCHANGED power
    BY <1>3 DEF NextFromWelcome
  <2>2. shared.override \/ ~shared.low
    BY <1>3 DEF WarningNeeded
  <2> QED
    BY <1>1, <2>1, <2>2, ShowsIs, Routes, SessionMoves DEF PagesInv, OptionsInv, Shown
<1> QED
  BY <1>2, <1>3

\* From the low-battery page: the reading is good, or the risk is confirmed on the page.
LEMMA NextFromBatteryKeeps ==
  ASSUME PagesInv, NextFromBattery
  PROVE PagesInv' /\ SessionKept
<1>0. PICK s : s = IF power.low THEN [shared EXCEPT !.override = TRUE] ELSE shared
  OBVIOUS
<1>1. /\ front = "battery" /\ (~power.low \/ power.tick) /\ Shows(AfterPower, s)
      /\ UNCHANGED <<power, monitor>>
  BY <1>0 DEF NextFromBattery
<1>2. /\ DOMAIN s = SharedFields /\ s.low = shared.low /\ s.preferred = shared.preferred
      /\ s.built = shared.built /\ s.chosen = shared.chosen
      /\ IF power.low THEN s.override = TRUE ELSE s.override = shared.override
  BY <1>0 DEF PagesInv, SharedFields
<1> HIDE <1>0
<1>3. power.low = shared.low
  BY <1>1 DEF PagesInv, PowerInv
<1>4. Shown(AfterPower, s)
  BY <1>1, <1>2, ShowsIs
<1>5. PowerGate
  BY <1>1, <1>2, <1>3, <1>4 DEF PowerGate, Shown
<1>6. shared'.built => shared'.chosen = IF monitor' THEN shared'.preferred ELSE {}
  BY <1>1, <1>2, <1>4 DEF PagesInv, OptionsInv, Shown
<1>7. PowerInv'
  BY <1>1, <1>2, <1>3, <1>4, Routes DEF PowerInv, Shown
<1>8. OptionsInv'
  BY <1>4, <1>6, Routes DEF OptionsInv, Shown
<1> QED
  BY <1>1, <1>2, <1>4, <1>5, <1>6, <1>7, <1>8 DEF PagesInv, SessionKept, PreferencesSurvive, Shown

\* The other steps forward.
LEMMA NextPagesKeep ==
  ASSUME PagesInv, NextFromSecureBoot \/ NextFromNetwork \/ NextFromChoices
  PROVE PagesInv' /\ SessionKept
<1>1. DOMAIN shared = SharedFields /\ UNCHANGED <<power, monitor>>
  BY DEF PagesInv, NextFromSecureBoot, NextFromNetwork, NextFromChoices
<1>2. front \in {"secureboot", "network", "choices"}
  BY DEF NextFromSecureBoot, NextFromNetwork, NextFromChoices
<1>3. shared.override \/ ~shared.low
  BY <1>2 DEF PagesInv, PowerInv
<1>4. CASE NextFromSecureBoot
  <2>1. Shows(AfterSecureBoot, shared)
    BY <1>4 DEF NextFromSecureBoot
  <2> QED
    BY <1>1, <1>3, <2>1, ShowsIs, Routes, SessionMoves DEF PagesInv, OptionsInv, Shown
<1>5. CASE NextFromNetwork
  <2>1. front' = "choices" /\ shared' = Effective([shared EXCEPT !.built = TRUE], monitor)
    BY <1>5 DEF NextFromNetwork
  <2> QED
    <3>1. /\ DOMAIN shared' = SharedFields
          /\ shared'.low = shared.low /\ shared'.override = shared.override /\ shared'.built = TRUE
          /\ shared'.preferred = shared.preferred
          /\ shared'.chosen = IF monitor THEN shared.preferred ELSE {}
      BY <1>1, <2>1, BuiltFields
    <3> QED
      BY <1>1, <1>3, <2>1, <3>1, SessionMoves
<1>6. CASE NextFromChoices
  <2>1. front = "choices" /\ front' = "later" /\ shared' = Save(shared)
    BY <1>6 DEF NextFromChoices
  <2>2. /\ shared.built
        /\ shared.chosen = IF monitor THEN shared.preferred ELSE {}
    BY <2>1 DEF PagesInv, OptionsInv
  <2>3. /\ DOMAIN shared' = SharedFields /\ shared'.low = shared.low
        /\ shared'.override = shared.override /\ shared'.built = shared.built
        /\ shared'.chosen = shared.chosen /\ shared'.preferred = shared.preferred
    BY <1>1, <2>1, <2>2, ChoiceFields
  <2> QED
    BY <1>1, <1>3, <2>1, <2>2, <2>3, SessionMoves
<1> QED
  BY <1>4, <1>5, <1>6

\* The steps back.
LEMMA BackKeeps ==
  ASSUME PagesInv, BackFromNetwork \/ BackFromChoices \/ BackFromEarlier
  PROVE PagesInv' /\ SessionKept
<1>1. DOMAIN shared = SharedFields /\ DOMAIN power = PowerFields /\ UNCHANGED monitor
  BY DEF PagesInv, BackFromNetwork, BackFromChoices, BackFromEarlier
<1>2. CASE BackFromNetwork
  <2>1. front = "network" /\ front' = BelowNetwork /\ UNCHANGED <<shared, power>>
    BY <1>2 DEF BackFromNetwork
  <2> QED
    BY <1>1, <2>1, Routes, SessionMoves DEF PagesInv, PowerInv, OptionsInv
<1>3. CASE BackFromChoices
  <2>1. /\ front = "choices" /\ front' \in {"network", BelowNetwork} /\ shared' = Save(shared)
        /\ UNCHANGED power
    BY <1>3 DEF BackFromChoices
  <2>2. /\ shared.built /\ (shared.override \/ ~shared.low)
        /\ shared.chosen = IF monitor THEN shared.preferred ELSE {}
    BY <2>1 DEF PagesInv, OptionsInv, PowerInv
  <2>3. /\ DOMAIN shared' = SharedFields /\ shared'.low = shared.low
        /\ shared'.override = shared.override /\ shared'.built = shared.built
        /\ shared'.chosen = shared.chosen /\ shared'.preferred = shared.preferred
    BY <1>1, <2>1, <2>2, ChoiceFields
  <2> QED
    BY <1>1, <2>1, <2>2, <2>3, Routes, SessionMoves
<1>4. CASE BackFromEarlier
  <2>1. /\ UNCHANGED shared
        /\ \/ front = "secureboot" /\ front' = BelowSecureBoot /\ UNCHANGED power
           \/ front = "battery" /\ front' = "welcome" /\ power' = NoPowerPage
           \/ front = "later" /\ front' = "choices" /\ UNCHANGED power
    BY <1>4 DEF BackFromEarlier
  <2>2. CASE UNCHANGED power
    BY <1>1, <2>1, <2>2, Routes, SessionMoves DEF PagesInv, PowerInv, OptionsInv
  <2>3. CASE front = "battery" /\ front' = "welcome" /\ power' = NoPowerPage
    <3>1. DOMAIN power' = PowerFields /\ power'.shown = FALSE
      BY <2>3 DEF NoPowerPage, PowerFields
    <3> QED
      BY <1>1, <2>1, <2>3, <3>1
         DEF PagesInv, PowerInv, OptionsInv, SessionKept, PowerGate, PreferencesSurvive
  <2> QED
    BY <2>1, <2>2, <2>3
<1> QED
  BY <1>2, <1>3, <1>4

\* Every step keeps the invariant of the pages and does what the properties say.
LEMMA PagesStepKeeps ==
  ASSUME EntryInv, Next
  PROVE PagesInv' /\ SessionKept
<1>1. PagesInv /\ LeftShape(left)
  BY DEF EntryInv, WifiInv
<1>2. CASE \/ Refresh \/ PressRow \/ NameHidden \/ AnswerDialog \/ PressRadio \/ PressCancel
           \/ PeriodicRefresh \/ ScanReadsNetworks \/ ScanBreaks \/ DeliverScan \/ FinishOperation
           \/ BatteryChanges \/ CableMoves \/ (Background /\ UNCHANGED <<pages, scan, monitor>>)
  <2>1. UNCHANGED <<front, shared, power, monitor>>
    BY <1>2 DEF Refresh, PressRow, NameHidden, AnswerDialog, PressRadio, PressCancel, PeriodicRefresh,
                ScanReadsNetworks, ScanBreaks, DeliverScan, FinishOperation, BatteryChanges, CableMoves, pages
  <2> QED
    BY <1>1, <2>1, SessionSame
<1>3. CASE TickRisk \/ RecheckPower
  BY <1>1, <1>3, BatteryPageKeeps
<1>4. CASE ToggleOption
  BY <1>1, <1>4, ToggleKeeps
<1>5. CASE NetworkChanged
  BY <1>1, <1>5, NetworkChangedKeeps
<1>6. CASE NextFromWelcome \/ NextFromBattery \/ NextFromSecureBoot \/ NextFromNetwork \/ NextFromChoices
  BY <1>1, <1>6, NextFromWelcomeKeeps, NextFromBatteryKeeps, NextPagesKeep
<1>7. CASE BackFromNetwork \/ BackFromChoices \/ BackFromEarlier
  BY <1>1, <1>7, BackKeeps
<1> QED
  BY <1>2, <1>3, <1>4, <1>5, <1>6, <1>7, Zenon DEF Next, Person, MainLoop

-----------------------------------------------------------------------------
(* The theorems *)

\* The invariant holds when the window opens.
LEMMA InitEntry == Init => EntryInv
<1> SUFFICES ASSUME Init PROVE EntryInv
  OBVIOUS
<1>1. PICK m \in Machines :
        /\ WifiInit(m)
        /\ shared = [low |-> m.low, override |-> FALSE, planned |-> ~m.wired, secure |-> m.secure,
                     built |-> FALSE, preferred |-> Wanted, chosen |-> Wanted]
  BY DEF Init
<1>2. front = "welcome" /\ power = NoPowerPage
  BY DEF Init
<1>3. PagesInv
  <2>1. PICK a, b, c : shared = [low |-> a, override |-> FALSE, planned |-> b, secure |-> c,
                                 built |-> FALSE, preferred |-> Wanted, chosen |-> Wanted]
    BY <1>1
  <2>2. DOMAIN shared = SharedFields /\ shared.built = FALSE
    BY <2>1 DEF SharedFields
  <2>3. DOMAIN power = PowerFields /\ power.shown = FALSE
    BY <1>2 DEF NoPowerPage, PowerFields
  <2> QED
    BY <1>2, <2>2, <2>3 DEF PagesInv, PowerInv, OptionsInv
<1>4. LeftShape(left) /\ left.next = 1
  <2>1. m.toggles \in Nat
    BY MachineBounds
  <2> QED
    BY <1>1, <2>1 DEF WifiInit, LeftShape
<1>5. NmOK(nm, 1)
  <2>1. /\ DOMAIN nm = {"radio", "air", "profiles", "up", "blocked"}
        /\ nm.up = NotConnected /\ nm.profiles = m.saved
    BY <1>1 DEF WifiInit
  <2>2. \A p \in nm.profiles : DOMAIN p = ProfileFields /\ p.made = FALSE
    BY <2>1, SavedByOthers DEF ProfileFields
  <2> QED
    BY <2>1, <2>2, NotConnectedFields DEF NmOK, NmShape, Excused
<1>6. calls = {} /\ ops = {}
  BY <1>1 DEF WifiInit
<1> QED
  BY <1>3, <1>4, <1>5, <1>6 DEF EntryInv, WifiInv, CallsOK, WorkersOK

\* Every step keeps the invariant and does what the properties say, and so does none.
LEMMA StepEntry == EntryInv /\ [Next]_vars => EntryInv' /\ [SessionKept]_vars
<1> SUFFICES ASSUME EntryInv, [Next]_vars PROVE EntryInv' /\ [SessionKept]_vars
  OBVIOUS
<1>1. CASE Next
  BY <1>1, WifiStepKeeps, PagesStepKeeps DEF EntryInv
<1>2. CASE UNCHANGED vars
  BY <1>2 DEF vars, EntryInv, WifiInv, PagesInv, PowerInv, OptionsInv
<1> QED
  BY <1>1, <1>2

\* The invariant says what an attempt takes back.
LEMMA EntryGives == EntryInv => AttemptsAreTakenBack
<1> SUFFICES ASSUME EntryInv PROVE KeptProfilesWorked /\ AbandonedIsDown
  BY DEF AttemptsAreTakenBack
<1>1. KeptProfilesWorked
  BY DEF EntryInv, WifiInv, NmOK, Excused, KeptProfilesWorked
<1>2. AbandonedIsDown
  BY DEF EntryInv, WifiInv, WorkersOK, WorkerMeetsNm, AbandonedIsDown
<1> QED
  BY <1>1, <1>2

\* What a Wi-Fi attempt that did not succeed takes back (connect_wifi of wifi.py): no
\* profile of the installer's making is on disk unless NetworkManager has activated it
\* or a later request rewrote it, and a worker that gave up after it was told of its
\* activation does not leave that activation up; whatever access points, saved profiles
\* and forms there are, however many operations overlap. It says nothing of rewritten
\* profiles, of profiles of others, nor of a worker that gave up before its call was
\* answered.
THEOREM AttemptsAlwaysTakenBack == Spec => []AttemptsAreTakenBack
<1>1. Spec => []EntryInv
  BY InitEntry, StepEntry, PTL DEF Spec
<1> QED
  BY <1>1, EntryGives, PTL

\* What one page has found out or been told holds on the pages after it (pages.py): who
\* is past the power check has a reading that is not low or has confirmed the risk, and
\* only the person changes which optional downloads are preferred.
THEOREM SessionAlwaysKept == Spec => SessionIsKept
<1>1. Spec => []EntryInv
  BY InitEntry, StepEntry, PTL DEF Spec
<1>2. EntryInv /\ [Next]_vars => [PowerGate /\ PreferencesSurvive]_vars
  BY StepEntry DEF SessionKept
<1> QED
  BY <1>1, <1>2, PTL DEF Spec, SessionIsKept
=============================================================================
