------------------------- MODULE DesktopShellProofs -------------------------
(***************************************************************************)
(* Proofs about DesktopShell: types, the server that is never left behind, *)
(* and the number of probes, for every number of retries.                  *)
(***************************************************************************)
EXTENDS DesktopShell, TLAPS

USE DEF child, probe, ui

\* The variable serverProcess names a server that still runs: only the event close resets it.
Held == proc \in Alive => handle

\* A request that has not ended stands for the two timers it may still set, on top of those that
\* wait; the first request is all that counts before any has ended.
Budget ==
  /\ phase = "loading" => attempt = 0 /\ inflight = 0 /\ waiting = 0
  /\ waiting + 2 * inflight <= attempt + 1

ShellInv == TypeOK /\ Held /\ NoOrphan /\ Budget /\ ProbesBounded

\* A window that is created, hidden, shown or destroyed leaves the windows in order.
LEMMA WindowType ==
  ASSUME UiOK, UNCHANGED tray,
         \/ \E w \in 1 .. MaxWindows : CreateWindow(w) \/ CloseWindow(w)
         \/ UNCHANGED <<windows, mainWindow>> /\ visible' \subseteq visible
         \/ UNCHANGED <<windows, mainWindow>> /\ visible' = visible \cup {mainWindow} /\ mainWindow # 0
  PROVE  UiOK'
BY DEF UiOK, CreateWindow, CloseWindow

\* Quitting without a server ends the application, quitting with one asks it to end.
LEMMA QuitType ==
  ASSUME ChildOK, UiOK, quits \in 0 .. MaxQuits, exited \in BOOLEAN, NEW quitting \in BOOLEAN, AppQuit(quitting), UNCHANGED tray
  PROVE  ChildOK' /\ UiOK' /\ quits' \in 0 .. MaxQuits /\ exited' \in BOOLEAN
<1>1. ChildOK' /\ exited' \in BOOLEAN
  BY DEF AppQuit, BeforeQuit, ChildOK
<1>2. UiOK'
  BY WindowType DEF AppQuit, BeforeQuit
<1>3. quits' \in 0 .. MaxQuits
  BY ShellAssumption DEF AppQuit, BeforeQuit
<1> QED BY <1>1, <1>2, <1>3

\* Every step keeps the types.
LEMMA TypeStep ==
  ASSUME TypeOK, Next
  PROVE  TypeOK'
<1>0. ChildOK /\ ProbeOK /\ UiOK /\ MainOK
  BY DEF TypeOK
<1> USE <1>0, ShellAssumption DEF TypeOK, MainOK
<1>k. /\ UNCHANGED child => ChildOK'
      /\ UNCHANGED probe => ProbeOK'
      /\ UNCHANGED ui => UiOK'
  BY DEF ChildOK, ProbeOK, UiOK
<1>1. CASE StartServer
  <2>1. ChildOK' /\ ProbeOK'
    BY <1>1 DEF StartServer, ChildOK, ProbeOK
  <2> QED BY <1>1, <1>k, <2>1 DEF StartServer
<1>2. CASE SpawnFails
  <2>1. ChildOK'
    BY <1>2 DEF SpawnFails, ChildOK
  <2> QED BY <1>2, <1>k, <2>1 DEF SpawnFails, Settle
<1>3. CASE ProbeAnswered \/ ProbeRefused \/ ProbeTimesOut \/ TryConnect
  <2>1. ProbeOK'
    BY <1>3 DEF ProbeAnswered, ProbeRefused, ProbeTimesOut, TryConnect, RetryOrReject, ProbeOK
  <2>2. started' \in {"pending", "resolved", "rejected"}
    BY <1>3 DEF ProbeAnswered, ProbeRefused, ProbeTimesOut, TryConnect, RetryOrReject, Settle
  <2> QED BY <1>3, <1>k, <2>1, <2>2 DEF ProbeAnswered, ProbeRefused, ProbeTimesOut, TryConnect
<1>4. CASE ShowConsole
  <2>1. UiOK'
    BY <1>4 DEF ShowConsole, CreateWindow, UiOK
  <2> QED BY <1>4, <1>k, <2>1 DEF ShowConsole
<1>5. CASE ReportFailure
  BY <1>5, <1>k DEF ReportFailure, Dialogs
<1>6. CASE Listen \/ \E c \in {"zero", "nonzero", "signal"} : ServerEnds(c)
  <2>1. ChildOK'
    BY <1>6 DEF Listen, ServerEnds, ChildOK
  <2> QED BY <1>6, <1>k, <2>1 DEF Listen, ServerEnds
<1>7. CASE ServerClosed
  <2>1. ChildOK'
    BY <1>7 DEF ServerClosed, ChildOK
  <2>2. UiOK' /\ dialogs' \subseteq Dialogs
    <3>1. mainWindow # 0 => mainWindow \in 1 .. MaxWindows
      BY DEF UiOK
    <3> QED BY <1>7, <3>1, WindowType DEF ServerClosed, OnClose, Dialogs
  <2>3. exited' \in BOOLEAN
    BY <1>7 DEF ServerClosed
  <2> QED BY <1>7, <1>k, <2>1, <2>2, <2>3 DEF ServerClosed
<1>8. CASE QuitTimer
  <2>1. ChildOK'
    BY <1>8 DEF QuitTimer, ForceExit, ChildOK
  <2>2. quits' \in 0 .. MaxQuits /\ exited' \in BOOLEAN
    BY <1>8 DEF QuitTimer, ForceExit
  <2> QED BY <1>8, <1>k, <2>1, <2>2 DEF QuitTimer
<1>9. ASSUME NEW d \in Dialogs, ViewLog(d) PROVE TypeOK'
  BY <1>9, <1>k DEF ViewLog, Dialogs
<1>10. ASSUME NEW d \in Dialogs, LeaveDialog(d) PROVE TypeOK'
  <2>1. isQuitting' \in BOOLEAN
    BY <1>10 DEF LeaveDialog
  <2>2. ChildOK' /\ UiOK' /\ quits' \in 0 .. MaxQuits /\ exited' \in BOOLEAN
    BY <1>10, <2>1, QuitType DEF LeaveDialog
  <2> QED BY <1>10, <1>k, <2>1, <2>2 DEF LeaveDialog
<1>11. CASE TrayQuit \/ SystemQuit
  <2>1. ChildOK' /\ UiOK' /\ quits' \in 0 .. MaxQuits /\ exited' \in BOOLEAN
    BY <1>11, QuitType DEF TrayQuit, SystemQuit
  <2> QED BY <1>11, <1>k, <2>1 DEF TrayQuit, SystemQuit
<1>12. CASE TrayShow \/ TrayClick \/ Activate \/ \E w \in 1 .. MaxWindows : UserCloses(w)
  <2>1. UiOK'
    BY <1>12, WindowType DEF TrayShow, TrayClick, Activate, UserCloses
  <2> QED BY <1>12, <1>k, <2>1 DEF TrayShow, TrayClick, Activate, UserCloses
<1>13. CASE UNCHANGED vars
  BY <1>13, <1>k DEF vars
<1> QED BY <1>1, <1>2, <1>3, <1>4, <1>5, <1>6, <1>7, <1>8, <1>9, <1>10, <1>11, <1>12, <1>13 DEF Next, Startup, Server, User

\* A server runs only while serverProcess is set, and the application ends only after it or with it.
LEMMA HeldStep ==
  ASSUME Held, NoOrphan, Next
  PROVE  Held' /\ NoOrphan'
<1> USE DEF Held, NoOrphan, Alive
<1>1. ASSUME ~exited, UNCHANGED <<proc, handle, exited>> PROVE Held' /\ NoOrphan'
  BY <1>1
<1>2. ASSUME NEW quitting, AppQuit(quitting), ~exited PROVE Held' /\ NoOrphan'
  BY <1>2 DEF AppQuit, BeforeQuit
<1>3. CASE ~exited /\ (StartServer \/ SpawnFails \/ ServerClosed \/ QuitTimer \/ \E c \in {"zero", "nonzero", "signal"} : ServerEnds(c))
  BY <1>3 DEF StartServer, SpawnFails, ServerClosed, QuitTimer, ForceExit, ServerEnds
<1>4. CASE ~exited /\ (TrayQuit \/ SystemQuit \/ \E d \in Dialogs : LeaveDialog(d))
  BY <1>2, <1>4 DEF TrayQuit, SystemQuit, LeaveDialog
<1>5. CASE ~exited /\ (\/ ProbeAnswered \/ ProbeRefused \/ ProbeTimesOut \/ TryConnect \/ ShowConsole \/ ReportFailure \/ Listen
                       \/ TrayShow \/ TrayClick \/ Activate \/ (\E w \in 1 .. MaxWindows : UserCloses(w)) \/ \E d \in Dialogs : ViewLog(d))
  BY <1>1, <1>5 DEF ProbeAnswered, ProbeRefused, ProbeTimesOut, TryConnect, ShowConsole, ReportFailure, Listen, TrayShow, TrayClick,
                    Activate, UserCloses, ViewLog
<1>6. CASE UNCHANGED vars
  BY <1>6 DEF vars
<1> QED BY <1>3, <1>4, <1>5, <1>6 DEF Next, Startup, Server, User

\* The timers a request may set are paid for by the attempt that made it.
LEMMA BudgetStep ==
  ASSUME TypeOK, Budget, ProbesBounded, Next
  PROVE  Budget' /\ ProbesBounded'
<1>0. ProbeOK /\ MaxRetries \in Nat /\ MaxRetries > 0 /\ phase \in {"loading", "starting", "ready", "failed"}
  BY ShellAssumption DEF TypeOK, ProbeOK, MainOK
<1>1. ASSUME UNCHANGED probe, phase' = phase \/ phase' # "loading" PROVE Budget' /\ ProbesBounded'
  BY <1>1 DEF Budget, ProbesBounded
<1>2. CASE StartServer
  BY <1>0, <1>2 DEF StartServer, Budget, ProbesBounded, ProbeOK
<1>3. CASE ProbeAnswered
  BY <1>0, <1>3 DEF ProbeAnswered, Budget, ProbesBounded, ProbeOK
<1>4. CASE ProbeRefused \/ ProbeTimesOut
  BY <1>0, <1>4 DEF ProbeRefused, ProbeTimesOut, RetryOrReject, Budget, ProbesBounded, ProbeOK
<1>5. CASE TryConnect
  BY <1>0, <1>5 DEF TryConnect, Budget, ProbesBounded, ProbeOK
<1>6. CASE \/ SpawnFails \/ ShowConsole \/ ReportFailure \/ Server \/ User \/ QuitTimer \/ UNCHANGED vars
  BY <1>1, <1>6 DEF SpawnFails, ShowConsole, ReportFailure, Server, Listen, ServerEnds, ServerClosed, User, ViewLog, LeaveDialog,
                    TrayQuit, SystemQuit, TrayShow, TrayClick, Activate, UserCloses, QuitTimer, vars
<1> QED BY <1>2, <1>3, <1>4, <1>5, <1>6 DEF Next, Startup

\* The invariant that the theorems below read off.
LEMMA ShellInvariant == Spec => []ShellInv
<1>1. Init => ShellInv
  <2> SUFFICES ASSUME Init PROVE ShellInv
    OBVIOUS
  <2>1. ChildOK /\ UiOK
    BY DEF Init, ChildOK, UiOK
  <2>2. ProbeOK /\ MainOK
    <3>1. attempt \in Nat /\ inflight \in Nat /\ waiting \in Nat /\ quits \in 0 .. MaxQuits
      BY ShellAssumption DEF Init
    <3>2. MainOK
      BY <3>1 DEF Init, MainOK
    <3> QED BY <3>1, <3>2 DEF ProbeOK
  <2>3. Held /\ NoOrphan
    BY DEF Init, Held, NoOrphan, Alive
  <2>4. Budget /\ ProbesBounded
    BY ShellAssumption DEF Init, Budget, ProbesBounded
  <2> QED BY <2>1, <2>2, <2>3, <2>4 DEF ShellInv, TypeOK
<1>2. ShellInv /\ [Next]_vars => ShellInv'
  <2>1. ShellInv /\ Next => ShellInv'
    BY TypeStep, HeldStep, BudgetStep DEF ShellInv
  <2>2. ShellInv /\ UNCHANGED vars => ShellInv'
    BY DEF ShellInv, vars, TypeOK, ChildOK, ProbeOK, UiOK, MainOK, Held, NoOrphan, Budget, ProbesBounded
  <2> QED BY <2>1, <2>2
<1> QED BY <1>1, <1>2, PTL DEF Spec

\* The main window is one of the windows or none, only windows are visible, and the other
\* variables of the main process keep their types.
THEOREM TypeCorrect == Spec => []TypeOK
BY ShellInvariant, PTL DEF ShellInv

\* In both modes, whatever the server, the port and the user do and in whichever order: when the
\* application has ended, its server has ended or was killed.
THEOREM ServerNotLeftBehind == Spec => []NoOrphan
BY ShellInvariant, PTL DEF ShellInv

\* For every number of retries: though both handlers of a request that timed out set a timer, at
\* most 2 * MaxRetries - 1 requests are made.
THEOREM ProbesAreBounded == Spec => []ProbesBounded
BY ShellInvariant, PTL DEF ShellInv
=============================================================================
