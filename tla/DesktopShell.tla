---------------------------- MODULE DesktopShell ----------------------------
(***************************************************************************)
(* The desktop application (electron/main.js): the main process starts the *)
(* API server as a child process, probes its port until it answers, shows  *)
(* the console in a window that hides to the tray, and ends the server     *)
(* when the user quits.  The child, the probes, the dialogs, the timers    *)
(* and the user are concurrent; every callback of the main process runs to *)
(* its end and is one action.                                              *)
(***************************************************************************)
EXTENDS Integers, FiniteSets

CONSTANTS
  Modes,        \* subset of {"production", "development"} (NODE_ENV)
  MaxRetries,   \* checkServerAvailability's parameter, 30 in the code
  MaxWindows,   \* bound: windows that exist at the same time
  MaxQuits      \* bound: requests to quit that are under way at the same time

ASSUME ShellAssumption ==
  /\ Modes \subseteq {"production", "development"}
  /\ MaxRetries \in Nat \ {0} /\ MaxWindows \in Nat \ {0} /\ MaxQuits \in Nat \ {0}

VARIABLES
  mode,
  foreign,      \* another process answers on the port: a second instance, or the dev server
  phase,        \* the handler of whenReady: before startServer, awaiting it, after it
  started,      \* the promise of startServer; it is settled once
  proc,         \* the child as the operating system sees it
  code,         \* how it ended: "zero", "nonzero", or "signal" (code null)
  listening,
  handle,       \* the variable serverProcess is set
  attempt,      \* currentAttempt
  inflight, waiting,      \* requests of tryConnect that run, and timers for the next one
  windows, visible, mainWindow,   \* 0: mainWindow is null or undefined
  tray,
  isQuitting,
  dialogs,      \* the dialogs that are open
  quits,        \* before-quit handlers that wait: a 5 s timer and a listener for close each
  exited        \* the application has ended

child == <<proc, code, listening, handle>>
probe == <<attempt, inflight, waiting>>
ui == <<windows, visible, mainWindow, tray>>
vars == <<mode, foreign, phase, started, child, probe, ui, isQuitting, dialogs, quits, exited>>

Dialogs == {"crash", "crashLog", "failure", "failureLog"}
Alive == {"running", "terminating"}

Init ==
  /\ mode \in Modes
  /\ foreign \in BOOLEAN
  /\ phase = "loading" /\ started = "pending"
  /\ proc = "none" /\ code = "none" /\ listening = FALSE /\ handle = FALSE
  /\ attempt = 0 /\ inflight = 0 /\ waiting = 0
  /\ windows = {} /\ visible = {} /\ mainWindow = 0 /\ tray = FALSE
  /\ isQuitting = FALSE /\ dialogs = {} /\ quits = 0 /\ exited = FALSE

-----------------------------------------------------------------------------
(* The child process, as the code uses it. *)

\* The server is up.
Listen ==
  /\ proc = "running" /\ ~foreign /\ ~listening
  /\ listening' = TRUE
  /\ UNCHANGED <<mode, foreign, phase, started, proc, code, handle, probe, ui, isQuitting, dialogs,
                 quits, exited>>

\* The server ends by itself, is killed from outside, or obeys SIGTERM; with the port taken it cannot start.
ServerEnds(c) ==
  /\ proc \in Alive
  /\ foreign /\ proc = "running" => c = "nonzero"
  /\ proc' = "ended" /\ code' = c /\ listening' = FALSE
  /\ UNCHANGED <<mode, foreign, phase, started, handle, probe, ui, isQuitting, dialogs, quits, exited>>

-----------------------------------------------------------------------------
(* Windows and quitting. *)

\* createWindow: the new window is the main window, whatever was there before.
CreateWindow(w) ==
  /\ w \in (1 .. MaxWindows) \ windows
  /\ windows' = windows \cup {w} /\ visible' = visible \cup {w} /\ mainWindow' = w

\* Mutant: mainWindow is not reset when its window is gone.
CloseWindowKeepsMain(w) ==
  IF isQuitting
    THEN windows' = windows \ {w} /\ visible' = visible \ {w} /\ UNCHANGED mainWindow
    ELSE visible' = visible \ {mainWindow} /\ UNCHANGED <<windows, mainWindow>>

\* A window is asked to close: it hides the main window, and is destroyed only while quitting.
CloseWindow(w) ==
  IF isQuitting
    THEN /\ windows' = windows \ {w} /\ visible' = visible \ {w} /\ mainWindow' = 0
    ELSE visible' = visible \ {mainWindow} /\ UNCHANGED <<windows, mainWindow>>

\* Mutant: a server that does not react to SIGTERM is left alone.
ForceExitGently ==
  /\ exited' = TRUE
  /\ UNCHANGED <<proc, code, listening>>

\* The end of the 5 s timer: SIGKILL if serverProcess is set, then app.exit().
ForceExit ==
  /\ exited' = TRUE
  /\ IF handle /\ proc \in Alive
       THEN proc' = "killed" /\ code' = "signal" /\ listening' = FALSE
       ELSE UNCHANGED <<proc, code, listening>>

\* Mutant: quitting only sends SIGTERM and waits for the server to end.
BeforeQuitWithoutTimer ==
  /\ quits' = quits
  /\ proc' = IF proc = "running" THEN "terminating" ELSE proc
  /\ UNCHANGED <<exited, visible>>

\* before-quit with serverProcess set: quitting waits for the server or for 5 s.
BeforeQuit ==
  /\ quits < MaxQuits /\ quits' = quits + 1
  /\ proc' = IF proc = "running" THEN "terminating" ELSE proc
  /\ UNCHANGED <<exited, visible>>

\* app.quit(): before-quit, then every window is asked to close, which they refuse unless `quitting`.
AppQuit(quitting) ==
  /\ IF handle THEN BeforeQuit
     ELSE IF quitting \/ windows = {} THEN exited' = TRUE /\ UNCHANGED <<quits, proc, visible>>
     ELSE visible' = visible \ {mainWindow} /\ UNCHANGED <<quits, proc, exited>>
  /\ UNCHANGED <<code, listening, handle, windows, mainWindow>>

-----------------------------------------------------------------------------
(* Starting up. *)

\* startServer: in production the child is spawned; both modes begin to probe the port.
StartServer ==
  /\ phase = "loading" /\ phase' = "starting"
  /\ IF mode = "production" THEN proc' = "running" /\ handle' = TRUE ELSE UNCHANGED <<proc, handle>>
  /\ attempt' = 1 /\ inflight' = 1
  /\ UNCHANGED <<mode, foreign, started, code, listening, waiting, ui, isQuitting, dialogs, quits, exited>>

Settle(result) == started' = IF started = "pending" THEN result ELSE started

\* The binary cannot be executed: spawn reports an error, and close with a negative code follows.
SpawnFails ==
  /\ proc = "running" /\ attempt = 1 /\ inflight = 1 /\ ~listening /\ started = "pending"
  /\ Settle("rejected")
  /\ proc' = "ended" /\ code' = "nonzero"
  /\ UNCHANGED <<mode, foreign, phase, listening, handle, probe, ui, isQuitting, dialogs, quits, exited>>

\* A response ends the probing; who answered is not looked at.
ProbeAnswered ==
  /\ inflight > 0 /\ (listening \/ foreign)
  /\ inflight' = inflight - 1
  /\ Settle("resolved")
  /\ UNCHANGED <<mode, foreign, phase, child, attempt, waiting, ui, isQuitting, dialogs, quits, exited>>

\* Mutant: the attempt that runs is not counted until its answer is there.
RetryOrRejectLate(n) ==
  IF attempt > MaxRetries
    THEN Settle("rejected") /\ UNCHANGED waiting
    ELSE waiting' = waiting + n /\ UNCHANGED started

\* The n handlers that see the failure of one request each set a timer, or reject at the last attempt.
RetryOrReject(n) ==
  IF attempt >= MaxRetries
    THEN Settle("rejected") /\ UNCHANGED waiting
    ELSE waiting' = waiting + n /\ UNCHANGED started

\* The connection is refused or breaks: the handler of error runs.
ProbeRefused ==
  /\ inflight > 0 /\ inflight' = inflight - 1
  /\ RetryOrReject(1)
  /\ UNCHANGED <<mode, foreign, phase, child, attempt, ui, isQuitting, dialogs, quits, exited>>

\* No answer for 10 s: the handler of timeout destroys the request, and so that of error runs as well.
ProbeTimesOut ==
  /\ inflight > 0 /\ inflight' = inflight - 1
  /\ RetryOrReject(2)
  /\ UNCHANGED <<mode, foreign, phase, child, attempt, ui, isQuitting, dialogs, quits, exited>>

\* tryConnect, 1 s later: it runs even if startServer is settled by now.
TryConnect ==
  /\ waiting > 0 /\ waiting' = waiting - 1
  /\ inflight' = inflight + 1 /\ attempt' = attempt + 1
  /\ UNCHANGED <<mode, foreign, phase, started, child, ui, isQuitting, dialogs, quits, exited>>

\* startServer resolved: tray and window.
ShowConsole ==
  /\ phase = "starting" /\ started = "resolved"
  /\ phase' = "ready" /\ tray' = TRUE
  /\ \E w \in 1 .. MaxWindows : CreateWindow(w)
  /\ UNCHANGED <<mode, foreign, started, child, probe, isQuitting, dialogs, quits, exited>>

\* Mutant: the failure is only logged.
ReportFailureSilently ==
  /\ phase = "starting" /\ started = "rejected"
  /\ phase' = "failed"
  /\ UNCHANGED <<mode, foreign, started, child, probe, ui, isQuitting, dialogs, quits, exited>>

\* startServer rejected: a dialog explains what is known of the error.
ReportFailure ==
  /\ phase = "starting" /\ started = "rejected"
  /\ phase' = "failed" /\ dialogs' = dialogs \cup {"failure"}
  /\ UNCHANGED <<mode, foreign, started, child, probe, ui, isQuitting, quits, exited>>

-----------------------------------------------------------------------------
(* Events of the child and of the dialogs. *)

\* Mutant: a crash is reported only while startServer is awaited.
OnCloseWhileStarting ==
  IF code = "nonzero" /\ phase = "starting"
    THEN dialogs' = dialogs \cup {"crash"} /\ UNCHANGED <<windows, visible, mainWindow>>
    ELSE UNCHANGED <<dialogs, windows, visible, mainWindow>>

\* The listener of startServer: a crash is reported, after a normal end the window is closed.
OnClose ==
  IF code = "nonzero"
    THEN dialogs' = dialogs \cup {"crash"} /\ UNCHANGED <<windows, visible, mainWindow>>
    ELSE /\ UNCHANGED dialogs
         /\ IF mainWindow # 0 THEN CloseWindow(mainWindow) ELSE UNCHANGED <<windows, visible, mainWindow>>

\* The event close of the child; the listeners of before-quit come after that of startServer.
ServerClosed ==
  /\ proc = "ended" /\ proc' = "closed"
  /\ OnClose
  /\ IF quits > 0 THEN handle' = FALSE /\ exited' = TRUE ELSE UNCHANGED <<handle, exited>>
  /\ UNCHANGED <<mode, foreign, phase, started, code, listening, probe, tray, isQuitting, quits>>

\* The 5 s after before-quit are over.
QuitTimer ==
  /\ quits > 0 /\ quits' = quits - 1
  /\ ForceExit
  /\ UNCHANGED <<mode, foreign, phase, started, handle, probe, ui, isQuitting, dialogs>>

\* The user wants to see the log: it is saved and opened, and a second dialog offers to leave.
ViewLog(d) ==
  /\ d \in dialogs \cap {"crash", "failure"}
  /\ dialogs' = (dialogs \ {d}) \cup {IF d = "crash" THEN "crashLog" ELSE "failureLog"}
  /\ UNCHANGED <<mode, foreign, phase, started, child, probe, ui, isQuitting, quits, exited>>

\* The user leaves: after a crash isQuitting is set first, after a failed start it is not.
LeaveDialog(d) ==
  /\ d \in dialogs /\ dialogs' = dialogs \ {d}
  /\ isQuitting' = (isQuitting \/ d \in {"crash", "crashLog"})
  /\ AppQuit(isQuitting')
  /\ UNCHANGED <<mode, foreign, phase, started, probe, tray>>

-----------------------------------------------------------------------------
(* The user. *)

\* Quit in the tray menu.
TrayQuit ==
  /\ tray /\ isQuitting' = TRUE
  /\ AppQuit(TRUE)
  /\ UNCHANGED <<mode, foreign, phase, started, probe, tray, dialogs>>

\* Quit of the application menu or of the system: isQuitting is not set.
SystemQuit ==
  /\ AppQuit(isQuitting)
  /\ UNCHANGED <<mode, foreign, phase, started, probe, tray, isQuitting, dialogs>>

\* Show in the tray menu.
TrayShow ==
  /\ tray
  /\ IF mainWindow = 0
       THEN \E w \in 1 .. MaxWindows : CreateWindow(w)
       ELSE visible' = visible \cup {mainWindow} /\ UNCHANGED <<windows, mainWindow>>
  /\ UNCHANGED <<mode, foreign, phase, started, child, probe, tray, isQuitting, dialogs, quits, exited>>

\* A click on the tray icon hides or shows the main window.
TrayClick ==
  /\ tray
  /\ IF mainWindow = 0
       THEN \E w \in 1 .. MaxWindows : CreateWindow(w)
       ELSE /\ visible' = IF mainWindow \in visible THEN visible \ {mainWindow} ELSE visible \cup {mainWindow}
            /\ UNCHANGED <<windows, mainWindow>>
  /\ UNCHANGED <<mode, foreign, phase, started, child, probe, tray, isQuitting, dialogs, quits, exited>>

\* The user closes a window he sees.
UserCloses(w) ==
  /\ w \in visible
  /\ CloseWindow(w)
  /\ UNCHANGED <<mode, foreign, phase, started, child, probe, tray, isQuitting, dialogs, quits, exited>>

\* macOS activates the application while it has no window.
Activate ==
  /\ windows = {} /\ phase # "loading"
  /\ \E w \in 1 .. MaxWindows : CreateWindow(w)
  /\ UNCHANGED <<mode, foreign, phase, started, child, probe, tray, isQuitting, dialogs, quits, exited>>

-----------------------------------------------------------------------------
Startup ==
  \/ StartServer \/ SpawnFails \/ ProbeAnswered \/ ProbeRefused \/ ProbeTimesOut \/ TryConnect
  \/ ShowConsole \/ ReportFailure

Server == Listen \/ (\E c \in {"zero", "nonzero", "signal"} : ServerEnds(c)) \/ ServerClosed

User ==
  \/ \E d \in Dialogs : ViewLog(d) \/ LeaveDialog(d)
  \/ TrayQuit \/ SystemQuit \/ TrayShow \/ TrayClick \/ Activate
  \/ \E w \in 1 .. MaxWindows : UserCloses(w)

\* Once the application has ended, nothing of the above happens any more.
Next ==
  \/ ~exited /\ (Startup \/ Server \/ User \/ QuitTimer)
  \/ exited /\ UNCHANGED vars

Spec == Init /\ [][Next]_vars

(* Timers, and requests with a timeout, end; callbacks that are ready run; a server whose port is taken    *)
(* ends.  Nothing is assumed of the user, nor of a server that was sent SIGTERM.                          *)
Fairness ==
  /\ WF_vars(~exited /\ StartServer)
  /\ WF_vars(~exited /\ (ProbeAnswered \/ ProbeRefused \/ ProbeTimesOut))
  /\ WF_vars(~exited /\ TryConnect)
  /\ WF_vars(~exited /\ ShowConsole)
  /\ WF_vars(~exited /\ ReportFailure)
  /\ WF_vars(~exited /\ foreign /\ ServerEnds("nonzero"))
  /\ WF_vars(~exited /\ ServerClosed)
  /\ WF_vars(~exited /\ QuitTimer)

FairSpec == Spec /\ Fairness

-----------------------------------------------------------------------------
(* Properties. *)

ChildOK ==
  /\ proc \in {"none", "running", "terminating", "ended", "closed", "killed"}
  /\ code \in {"none", "zero", "nonzero", "signal"} /\ listening \in BOOLEAN /\ handle \in BOOLEAN

ProbeOK == attempt \in Nat /\ inflight \in Nat /\ waiting \in Nat

\* The main window is one of the windows or none.
UiOK == windows \subseteq 1 .. MaxWindows /\ visible \subseteq windows /\ mainWindow \in windows \cup {0} /\ tray \in BOOLEAN

MainOK ==
  /\ mode \in Modes /\ foreign \in BOOLEAN
  /\ phase \in {"loading", "starting", "ready", "failed"} /\ started \in {"pending", "resolved", "rejected"}
  /\ isQuitting \in BOOLEAN /\ dialogs \subseteq Dialogs /\ quits \in 0 .. MaxQuits /\ exited \in BOOLEAN

\* The variables of the main process keep their types.
TypeOK == ChildOK /\ ProbeOK /\ UiOK /\ MainOK

(* The application never leaves its server behind: whichever way it ended - quit from the tray, from the  *)
(* menu, from one of the dialogs, during the start or after a crash - the server has ended or was killed. *)
NoOrphan == exited => proc \notin Alive

(* Both handlers of a request that timed out set a timer, so probes multiply; the shared counter still    *)
(* bounds them: at most 2 * MaxRetries - 1 requests are ever made, and none runs for ever.                *)
ProbesBounded == attempt + waiting <= 2 * MaxRetries - 1

(* A request to quit ends the application, whether the server obeys, hangs or is already dead.            *)
QuitEnds == (isQuitting \/ quits > 0) ~> exited

(* The start comes to a verdict: the console is shown or the failure is reported, or the user has quit.   *)
StartEnds == (phase = "starting") ~> (phase = "ready" \/ "failure" \in dialogs \/ exited)

(* When another process holds the port, the console may already show that process; the user is told that  *)
(* the server could not start.                                                                           *)
ForeignReported == (foreign /\ handle) ~> ("crash" \in dialogs \/ "crashLog" \in dialogs \/ exited)
=============================================================================
