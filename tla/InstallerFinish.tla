--------------------------- MODULE InstallerFinish ---------------------------
(***************************************************************************)
(* The last pages of the installer's window: account, access options,       *)
(* timezone, summary and progress (pages.py), the thread that runs the      *)
(* privileged executor and reads its events (ExecutorClient of              *)
(* frontend.py), and that executor as a process that writes them            *)
(* (executor_cli.py, StepRunner). What its steps do to the machine is the   *)
(* subject of InstallerExecution.                                           *)
(*                                                                          *)
(*   window   the page in front and the state of the installation flow      *)
(*   form     the entries of the account page                               *)
(*   shared   the dictionary all pages share                                *)
(*   summary  the summary page: what it shows, its button, its recheck      *)
(*   runs     one record for each installation: process, pipe and reader    *)
(*   idle     callbacks queued for the main loop                            *)
(*   view     the progress page                                             *)
(*   left     what may still happen                                         *)
(***************************************************************************)
EXTENDS Naturals, Sequences, FiniteSets

CONSTANTS
  Steps,         \* the pipeline of the plan
  PipeRoom,      \* lines the executor's standard output holds before a write waits
  MaxInstalls,   \* bound on the installations that are started
  MaxFaults,     \* bound on failing steps, kills and crashes
  MaxEdits,      \* bound on what the person types or chooses, and the network changes
  MaxBacks       \* bound on the steps back

ASSUME FinishBounds ==
  /\ Steps \in Seq(STRING) /\ Steps # <<>>
  /\ {PipeRoom, MaxInstalls} \subseteq Nat \ {0}
  /\ {MaxFaults, MaxEdits, MaxBacks} \subseteq Nat

VARIABLES window, form, shared, summary, runs, idle, view, left

vars == <<window, form, shared, summary, runs, idle, view, left>>

Installs == 1..MaxInstalls
Fault == left.faults > 0 /\ left' = [left EXCEPT !.faults = @ - 1]
OneEdit == left.edits > 0 /\ left' = [left EXCEPT !.edits = @ - 1]
OneBack == left.backs > 0 /\ left' = [left EXCEPT !.backs = @ - 1]

-----------------------------------------------------------------------------
(* Names. A computer name is <<how it came about, what it stands for>>. *)

\* suggest_username: the first name without capitals; a reserved name gets a suffix.
SuggestUsername(full) == [Ann |-> "ann", Root |-> "rootuser"][full]
\* is_valid_username
ValidUsername(user) == user \in {"ann", "rootuser"}
\* suggest_hostname: device class and suffix are the same for the whole session.
SuggestHostname(user) == <<"suggested", user>>
\* normalize_hostname: letters become small; a name that is no label is refused.
ValidHostname(host) == host[1] # "malformed"
NormalizeHostname(host) == IF host[1] = "capitals" THEN <<"typed", host[2]>> ELSE host

NoRun == [pc |-> "off", step |-> 1, code |-> 1, pipe |-> <<>>, wrapper |-> TRUE,
          reader |-> "none", lights |-> [s \in DOMAIN Steps |-> "pending"], plan |-> <<>>]
NewView(id) == [id |-> id, lights |-> [s \in DOMAIN Steps |-> "pending"], warnings |-> 0, result |-> "none"]
\* late: the network changed since the summary was built (kept for the properties).
NoSummary == [shows |-> <<>>, button |-> FALSE, stage |-> "none", plan |-> <<>>, late |-> FALSE]

\* build_user_page: empty entries, except the computer name.
NewForm(s) == [full |-> "", user |-> "", pass |-> "", again |-> "", host |-> s.host, userEdited |-> FALSE]

\* effective_network_choice, effective_network_input_methods: updates, drivers,
\* codecs and input methods that were asked for are chosen while there is an
\* Internet connection. Updates, which are asked for by default, stand for all.
Extras(online) == IF online THEN {"updates"} ELSE {}

\* The choices of a new window, with its account page in front: the pages
\* before it are those of InstallerEntry and InstallerPlanning.
NewShared == [full |-> "", user |-> "", pass |-> "", again |-> "", host |-> SuggestHostname(""),
              hostEdited |-> FALSE, options |-> {}, zone |-> "home", clear |-> TRUE,
              extras |-> Extras(TRUE)]
NewWindow == [open |-> TRUE, front |-> "user", running |-> FALSE]

Init ==
  /\ window = NewWindow
  /\ shared = NewShared
  /\ form = NewForm(NewShared)
  /\ summary = NoSummary
  /\ runs = [i \in Installs |-> NoRun]
  /\ idle = <<>>
  /\ view = NewView(0)
  /\ left = [faults |-> MaxFaults, edits |-> MaxEdits, backs |-> MaxBacks]

\* A message dialog is modal: it is answered before anything else is pressed.
Asked == summary.stage \in {"swap", "dialog"}
At(page) == window.open /\ window.front = page /\ ~Asked
processes == <<runs, idle, view>>

-----------------------------------------------------------------------------
(* The account page *)

\* _on_username_changed: the computer name follows, unless it was edited.
Followed(f, user) == IF shared.hostEdited THEN f ELSE [f EXCEPT !.host = SuggestHostname(user)]

\* _on_full_changed: the user name follows, unless it was edited.
TypeFullName ==
  /\ At("user") /\ OneEdit
  /\ \E full \in {"Ann", "Root"} :
       /\ full # form.full
       /\ shared' = [shared EXCEPT !.full = full]
       /\ form' = IF form.userEdited THEN [form EXCEPT !.full = full]
                  ELSE Followed([form EXCEPT !.full = full, !.user = SuggestUsername(full)], SuggestUsername(full))
  /\ UNCHANGED <<window, summary, processes>>

TypeUsername ==
  /\ At("user") /\ OneEdit
  /\ \E user \in {"ann", "root"} \ {form.user} :
       form' = Followed([form EXCEPT !.user = user, !.userEdited = TRUE], user)
  /\ UNCHANGED <<window, shared, summary, processes>>

\* _on_hostname_changed; what is typed is in the entry, not yet saved.
TypeHostname ==
  /\ At("user") /\ OneEdit
  /\ \E host \in {<<"capitals", "box">>, <<"malformed", "box">>} :
       form' = [form EXCEPT !.host = host]
  /\ shared' = [shared EXCEPT !.hostEdited = TRUE]
  /\ UNCHANGED <<window, summary, processes>>

TypePasswords ==
  /\ At("user") /\ OneEdit
  /\ \E again \in {"long", "other"} : form' = [form EXCEPT !.pass = "long", !.again = again]
  /\ UNCHANGED <<window, shared, summary, processes>>

\* _validate
FormValid == /\ ValidUsername(form.user)
             /\ form.pass = "long" /\ form.again = form.pass
             /\ ValidHostname(form.host)

\* _save_account_state: a name that is made canonical counts as edited.
NextFromUser ==
  /\ At("user") /\ FormValid
  /\ LET host == NormalizeHostname(form.host)
     IN /\ form' = [form EXCEPT !.host = host]
        /\ shared' = [shared EXCEPT !.user = form.user, !.pass = form.pass, !.again = form.again,
                                    !.host = host, !.hostEdited = @ \/ host # form.host]
  /\ window' = [window EXCEPT !.front = "options"]
  /\ UNCHANGED <<summary, processes, left>>

\* The page is left for good; the next one is built anew and registers its
\* own _clear_password_ui.
BackFromUser ==
  /\ At("user") /\ OneBack
  /\ shared' = [shared EXCEPT !.clear = TRUE]
  /\ form' = NewForm(shared)
  /\ UNCHANGED <<window, summary, processes>>

-----------------------------------------------------------------------------
(* Access options, timezone, summary *)

\* _on_choice_toggled
ToggleOption ==
  /\ At("options") /\ OneEdit
  /\ shared' = [shared EXCEPT !.options = IF @ = {} THEN {"ssh"} ELSE {}]
  /\ UNCHANGED <<window, form, summary, processes>>

\* _on_tz_selected; a search that hides the selected row changes nothing.
ChooseZone ==
  /\ At("timezone") /\ OneEdit
  /\ shared' = [shared EXCEPT !.zone = IF @ = "home" THEN "away" ELSE "home"]
  /\ UNCHANGED <<window, form, summary, processes>>

\* What summary and plan have in common.
SummaryRows(s) == <<s.full, s.user, s.host, s.options, s.zone, s.extras>>

\* network-changed: the handlers that the keyboard and the software page
\* connected stay for as long as the window does, whatever page is in front.
NetworkChanges ==
  /\ window.open /\ OneEdit
  /\ shared' = [shared EXCEPT !.extras = Extras(@ = {})]
  /\ summary' = [summary EXCEPT !.late = TRUE]
  /\ UNCHANGED <<window, form, processes>>

NextFromOptions ==
  /\ At("options")
  /\ window' = [window EXCEPT !.front = "timezone"]
  /\ UNCHANGED <<form, shared, summary, processes, left>>

\* build_summary_page; without a platform probe there is nothing to press.
NextFromTimezone ==
  /\ At("timezone")
  /\ window' = [window EXCEPT !.front = "summary"]
  /\ \E probed \in BOOLEAN :
       /\ IF probed THEN UNCHANGED left ELSE Fault
       /\ summary' = [shows |-> SummaryRows(shared), button |-> probed, stage |-> "none", plan |-> <<>>,
                      late |-> FALSE]
  /\ UNCHANGED <<form, shared, processes>>

\* Mutant: the flag of a running installation is not looked at.
AlwaysMayInstall == TRUE

\* on_install: not while an installation runs.
MayInstall == ~window.running

\* A custom size of the swap is asked about first.
PressInstall ==
  /\ At("summary") /\ summary.button /\ MayInstall
  /\ \E stage \in {"swap", "recheck"} : summary' = [summary EXCEPT !.button = FALSE, !.stage = stage]
  /\ UNCHANGED <<window, form, shared, processes, left>>

\* _warning_response
AnswerSwap ==
  /\ window.open /\ summary.stage = "swap"
  /\ \E goOn \in BOOLEAN :
       summary' = [summary EXCEPT !.stage = IF goOn THEN "recheck" ELSE "none", !.button = ~goOn]
  /\ UNCHANGED <<window, form, shared, processes, left>>

\* create_install_plan: with a password and its confirmation, hashed.
Plannable(s) == s.pass # "" /\ s.pass = s.again /\ ValidHostname(s.host)

\* _apply_recheck, when the disks have been probed again: the plan is made of
\* the choices as they are now. Failing, the button comes back.
DeliverRecheck ==
  /\ window.open /\ summary.stage = "recheck"
  /\ \E works \in BOOLEAN :
       /\ IF works THEN UNCHANGED left ELSE Fault
       /\ summary' = IF works /\ Plannable(shared)
                     THEN [summary EXCEPT !.stage = "dialog", !.plan = SummaryRows(shared)]
                     ELSE [summary EXCEPT !.stage = "none", !.button = TRUE]
  /\ UNCHANGED <<window, form, shared, processes>>

CancelDialog ==
  /\ window.open /\ summary.stage = "dialog"
  /\ summary' = [summary EXCEPT !.stage = "none", !.button = TRUE, !.plan = <<>>]
  /\ UNCHANGED <<window, form, shared, processes, left>>

\* clear_plaintext_passwords: the entries are emptied by what the account page
\* registered, once.
Cleared(s) == [s EXCEPT !.pass = "", !.again = "", !.clear = FALSE]
ClearedForm(f) == IF shared.clear THEN [f EXCEPT !.pass = "", !.again = ""] ELSE f

\* _confirmed: the flag, the progress page, the thread. The button stays off.
Confirm ==
  \E i \in Installs :
    /\ window.open /\ summary.stage = "dialog"
    /\ runs[i] = NoRun /\ \A j \in 1..(i - 1) : runs[j] # NoRun
    /\ shared' = Cleared(shared) /\ form' = ClearedForm(form)
    /\ window' = [window EXCEPT !.running = TRUE, !.front = "progress"]
    /\ summary' = [summary EXCEPT !.stage = "none", !.plan = <<>>]
    /\ runs' = [runs EXCEPT ![i].reader = "launch", ![i].plan = summary.plan]
    /\ view' = NewView(i)
    /\ UNCHANGED <<idle, left>>

\* Mutant: the recheck goes on after the page is left.
UnmappedKeeps(s) == s

\* _page_unmapped of the summary: the result of its recheck is dropped.
Unmapped(s) == IF s.stage = "recheck" THEN NoSummary ELSE s

\* Back, and the gestures of the navigation view, which leave the progress
\* page too: its callbacks go on, the page below keeps its disabled button.
GoBack ==
  \E page \in {"options", "timezone", "summary", "progress"} :
    /\ At(page) /\ OneBack
    /\ window' = [window EXCEPT !.front = [options |-> "user", timezone |-> "options",
                                           summary |-> "timezone", progress |-> "summary"][page]]
    /\ summary' = IF page = "summary" THEN Unmapped(summary) ELSE summary
    /\ UNCHANGED <<form, shared, processes>>

-----------------------------------------------------------------------------
(* The executor process: it writes a line before and after whatever it does *)

Alive(i) == runs[i].pc \notin {"off", "ended"}
Reads(i) == window.open /\ runs[i].reader \in {"launch", "read"}
Became(i, r) == runs' = [runs EXCEPT ![i] = r]
Others == UNCHANGED <<window, form, shared, summary, idle, view>>

Line(kind, step, status) == [kind |-> kind, step |-> step, status |-> status]
Lit(lights, l) == IF l.kind = "status" THEN [lights EXCEPT ![l.step] = l.status] ELSE lights
Died(r) == [r EXCEPT !.pc = "ended", !.code = 1]

\* Mutant: a line that cannot be written is lost.
EmitQuietly(i, r, line) == Became(i, r)

\* emit: into the pipe, as soon as it has room; if nobody can read it any more,
\* the BrokenPipeError passes every handler, because each of them logs first,
\* and ends the process.
Emit(i, r, line) ==
  /\ Reads(i) => Len(runs[i].pipe) < PipeRoom
  /\ Became(i, IF Reads(i)
               THEN IF line.kind = "log" THEN r
                    ELSE [r EXCEPT !.pipe = Append(@, line), !.lights = Lit(@, line)]
               ELSE Died(runs[i]))

\* sudo, systemd-inhibit, executor_cli.main: a private mount namespace and a
\* valid plan, or an error before anything runs.
Begins(i) ==
  /\ runs[i].pc = "start"
  /\ \/ Became(i, [runs[i] EXCEPT !.pc = "preflight"]) /\ UNCHANGED left
     \/ Fault /\ \/ Became(i, Died(runs[i]))
                 \/ Became(i, [runs[i] EXCEPT !.pc = "final"])
  /\ Others

\* StepRunner.run, the first loop
Preflights(i) ==
  /\ runs[i].pc = "preflight"
  /\ \/ Emit(i, [runs[i] EXCEPT !.pc = "begin"], Line("log", 0, "")) /\ UNCHANGED left
     \/ /\ Fault
        /\ \E s \in DOMAIN Steps : Emit(i, [runs[i] EXCEPT !.pc = "final"], Line("status", s, "failed"))
  /\ Others

BeginsStep(i) ==
  /\ runs[i].pc = "begin"
  /\ Emit(i, [runs[i] EXCEPT !.pc = "work"], Line("status", runs[i].step, "running"))
  /\ UNCHANGED left /\ Others

\* CommandRunner.run logs a command before it starts it.
StartsCommand(i) ==
  /\ runs[i].pc = "work"
  /\ Emit(i, [runs[i] EXCEPT !.pc = "command"], Line("log", 0, ""))
  /\ UNCHANGED left /\ Others

\* Its output is logged; if that fails, it is killed and the error goes on.
CommandWrites(i) ==
  /\ runs[i].pc = "command" /\ ~Reads(i)
  /\ Emit(i, runs[i], Line("log", 0, ""))
  /\ UNCHANGED left /\ Others

CommandEnds(i) ==
  /\ runs[i].pc = "command"
  /\ Became(i, [runs[i] EXCEPT !.pc = "ending"])
  /\ UNCHANGED left /\ Others

Advance(r) == IF r.step = Len(Steps) THEN [r EXCEPT !.pc = "final", !.code = 0]
              ELSE [r EXCEPT !.pc = "begin", !.step = @ + 1]

EndsStep(i) ==
  /\ runs[i].pc \in {"work", "ending"}
  /\ \/ \E how \in {"succeeded", "skipped"} :
          Emit(i, Advance(runs[i]), Line("status", runs[i].step, how)) /\ UNCHANGED left
     \/ Fault /\ Emit(i, [runs[i] EXCEPT !.pc = "cleanup"], Line("log", 0, ""))
  /\ Others

\* The step itself is cleaned up before its failure is reported; the policy of
\* the step decides what the failure means.
FailsStep(i) ==
  /\ runs[i].pc = "cleanup"
  /\ \/ \E how \in {"warning", "skipped"} : Emit(i, Advance(runs[i]), Line("status", runs[i].step, how))
     \/ Emit(i, [runs[i] EXCEPT !.pc = "cleanupAll"], Line("status", runs[i].step, "failed"))
  /\ UNCHANGED left /\ Others

\* _cleanup of what had been executed before, with commands of its own.
CleansUp(i) ==
  /\ runs[i].pc = "cleanupAll"
  /\ Emit(i, [runs[i] EXCEPT !.pc = "final"], Line("log", 0, ""))
  /\ UNCHANGED left /\ Others

\* The last line and the exit status.
Completes(i) ==
  /\ runs[i].pc = "final"
  /\ Emit(i, [runs[i] EXCEPT !.pc = "exiting"], Line("complete", 0, ""))
  /\ UNCHANGED left /\ Others

Exits(i) ==
  /\ runs[i].pc = "exiting"
  /\ Became(i, [runs[i] EXCEPT !.pc = "ended"])
  /\ UNCHANGED left /\ Others

\* The executor is killed, perhaps in the middle of a line, or of a character
\* that takes several bytes (emit escapes none of them); or sudo or
\* systemd-inhibit is, and the executor goes on.
Killed(i) ==
  /\ Alive(i) /\ Fault
  /\ \/ Became(i, Died(runs[i]))
     \/ \E cut \in {"cut", "split"} : Became(i, [Died(runs[i]) EXCEPT !.pipe = Append(@, Line(cut, 0, ""))])
     \/ runs[i].wrapper /\ Became(i, [runs[i] EXCEPT !.wrapper = FALSE])
  /\ Others

-----------------------------------------------------------------------------
(* The thread of the progress page: ExecutorClient.run *)

Posted(callback) == idle' = Append(idle, callback)
Callback(i, kind, step, status) == [id |-> i, kind |-> kind, step |-> step, status |-> status]

\* subprocess.Popen, and the plan on its standard input; or an OSError.
Launches(i) ==
  /\ window.open /\ runs[i].reader = "launch"
  /\ \/ /\ Became(i, [runs[i] EXCEPT !.pc = "start", !.reader = "read"])
        /\ UNCHANGED <<idle, left>>
     \/ /\ Fault
        /\ Became(i, [runs[i] EXCEPT !.reader = "done"])
        /\ Posted(Callback(i, "done", 0, "failed"))
  /\ UNCHANGED <<window, form, shared, summary, view>>

\* A line: status and progress are posted, a cut line is only logged. What ends
\* inside a character cannot be decoded: the UnicodeDecodeError is no OSError,
\* passes execute and ends the thread without a result.
ReadsLine(i) ==
  /\ window.open /\ runs[i].reader = "read" /\ runs[i].pipe # <<>>
  /\ LET l == Head(runs[i].pipe)
     IN /\ Became(i, [runs[i] EXCEPT !.pipe = Tail(@), !.reader = IF l.kind = "split" THEN "dead" ELSE @])
        /\ IF l.kind = "status" THEN Posted(Callback(i, "status", l.step, l.status)) ELSE UNCHANGED idle
  /\ UNCHANGED <<window, form, shared, summary, view, left>>

\* Mutant: the last line ends the loop.
EndsAtComplete(r) == r.pc \in {"exiting", "ended"} /\ r.pipe = <<>>

\* Mutant: the end is the exit status of a process that was not killed.
NeverCut(r) == r.pc = "ended" /\ r.pipe = <<>> /\ r.wrapper /\ (r.code = 1 => "failed" \in {r.lights[s] : s \in DOMAIN Steps})

\* The pipe is at its end when the last process that holds it has ended.
EndOfFile(r) == r.pc = "ended" /\ r.pipe = <<>>

\* The exit status, which is that of sudo. The rest of stderr is read before it:
\* commands have pipes of their own, so only a message or a traceback is in it.
ReadsResult(i) ==
  /\ window.open /\ runs[i].reader = "read" /\ EndOfFile(runs[i])
  /\ Became(i, [runs[i] EXCEPT !.reader = "done"])
  /\ Posted(Callback(i, "done", 0, IF runs[i].code = 0 /\ runs[i].wrapper THEN "complete" ELSE "failed"))
  /\ UNCHANGED <<window, form, shared, summary, view, left>>

\* update_step_status, on_done: idle callbacks of the page, in the order posted.
Updated(v, c) ==
  CASE c.id # v.id -> v
    [] c.id = v.id /\ c.kind = "done" -> [v EXCEPT !.result = c.status]
    [] OTHER -> [v EXCEPT !.lights[c.step] = c.status,
                          !.warnings = IF c.status = "warning" THEN @ + 1 ELSE @]

RunsCallback ==
  /\ window.open /\ idle # <<>>
  /\ idle' = Tail(idle)
  /\ view' = Updated(view, Head(idle))
  /\ window' = IF Head(idle).kind = "done" THEN [window EXCEPT !.running = FALSE] ELSE window
  /\ UNCHANGED <<form, shared, summary, runs, left>>

-----------------------------------------------------------------------------
(* The end of the window *)

\* Its threads are daemons: they end with it.
Gone ==
  /\ window' = [NewWindow EXCEPT !.open = FALSE]
  /\ runs' = [i \in Installs |-> IF runs[i].reader \in {"none", "done"} THEN runs[i]
                                 ELSE [runs[i] EXCEPT !.reader = "lost", !.pipe = <<>>]]
  /\ idle' = <<>> /\ view' = NewView(0)
  /\ form' = NewForm(NewShared) /\ shared' = NewShared /\ summary' = NoSummary

\* _protect_install
MayClose == ~window.running

Closes == window.open /\ MayClose /\ ~Asked /\ Gone /\ UNCHANGED left
Crashes == window.open /\ Fault /\ Gone

\* The person starts the installer again while there is something to see of it.
Restarts ==
  /\ ~window.open /\ \E i \in Installs : runs[i] = NoRun
  /\ window' = NewWindow
  /\ UNCHANGED <<form, shared, summary, processes, left>>

Person ==
  \/ TypeFullName \/ TypeUsername \/ TypeHostname \/ TypePasswords \/ ToggleOption \/ ChooseZone
  \/ NextFromUser \/ NextFromOptions \/ NextFromTimezone \/ PressInstall \/ AnswerSwap \/ CancelDialog \/ Confirm
  \/ BackFromUser \/ GoBack \/ Closes \/ Restarts

Executor(i) ==
  \/ Begins(i) \/ Preflights(i) \/ BeginsStep(i) \/ StartsCommand(i) \/ CommandWrites(i) \/ CommandEnds(i)
  \/ EndsStep(i) \/ FailsStep(i) \/ CleansUp(i) \/ Completes(i) \/ Exits(i)

Reader(i) == Launches(i) \/ ReadsLine(i) \/ ReadsResult(i)

Next ==
  \/ Person \/ NetworkChanges \/ DeliverRecheck \/ RunsCallback \/ Crashes
  \/ \E i \in Installs : Executor(i) \/ Reader(i) \/ Killed(i)

\* The thread and the main loop run. How long a command takes is open.
Fairness == WF_vars(RunsCallback) /\ \A i \in Installs : WF_vars(Reader(i))

Spec == Init /\ [][Next]_vars /\ Fairness

-----------------------------------------------------------------------------
(* Properties *)

\* The same rows, but for the online choices if the network changed.
Agree(plan, shown, late) == (late \/ plan = shown) /\ \A row \in 1..5 : plan[row] = shown[row]

\* The plan to be confirmed is what the summary in front shows, for an account
\* that can be made: nothing that was edited after the summary was built, on
\* pages that were gone back to while the disks were probed, gets into it.  A computer
\* name that nobody edited belongs to the user name it is installed with. The
\* one row that may differ is that of the online choices, and only when the
\* network changed after the summary was built: the page is not built again, while
\* _apply_recheck plans with what the handlers wrote.
PlanIsReviewed ==
  summary.stage = "dialog" =>
    /\ window.front = "summary" /\ Agree(summary.plan, summary.shows, summary.late)
    /\ ValidUsername(summary.plan[2]) /\ summary.plan[3][1] # "capitals"
    /\ ~shared.hostEdited => summary.plan[3] = SuggestHostname(summary.plan[2])

\* One window runs one executor at a time, knows that it does until the process
\* has ended and its last line has been shown, and is not closed before that.
OneInstallation ==
  /\ \A i, j \in Installs : i # j /\ Alive(i) /\ Reads(i) => ~(Alive(j) /\ Reads(j))
  /\ \A i \in Installs : Reads(i) => window.running
  /\ \A i \in Installs : runs[i].reader = "lost" => left.faults < MaxFaults

\* The result on the progress page is the truth: its process has ended, success
\* means that every step ran and the process said so, the lights are the last
\* status the executor reported for each step, and every warning is counted once,
\* whatever was killed or cut short.
ResultIsReported ==
  view.result # "none" =>
    LET r == runs[view.id]
        Warned == {s \in DOMAIN Steps : r.lights[s] = "warning"}
    IN /\ ~Alive(view.id)
       /\ view.result = "complete" => r.code = 0 /\ r.step = Len(Steps)
       /\ view.lights = r.lights /\ view.warnings = Cardinality(Warned)

\* An executor whose window is gone starts nothing more on the machine: it ends
\* with the command that was running.
NothingUnwatched ==
  [][\A i \in Installs :
       /\ Alive(i) /\ ~Reads(i)
       /\ runs'[i].pc \in {"begin", "work", "command", "cleanup", "cleanupAll"}
       => runs'[i].pc = runs[i].pc]_vars

Settled(i) == ~window.open \/ view.id # i \/ (view.result # "none" /\ ~window.running)
CutInCharacter(i) == \E n \in DOMAIN runs[i].pipe : runs[i].pipe[n].kind = "split"

\* Once the process has ended, however it did, the page shows a result and the
\* window can be closed, unless the window itself is gone, or the last thing the
\* process wrote ends inside a character: then the reader dies of the decoder's
\* exception and the page waits for good.
ResultArrives ==
  \A i \in Installs : (runs[i].pc = "ended" /\ Reads(i) /\ ~CutInCharacter(i)) ~> Settled(i)
=============================================================================
