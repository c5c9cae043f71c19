----------------------------- MODULE GuiLaunch -----------------------------
(***************************************************************************)
(* The data window of the GUI and the server process it starts and stops.  *)
(*                                                                         *)
(* The constructor of DataWindow starts the server, creates the named pipe *)
(* and opens the database.  The server greets through the pipe, then       *)
(* prints.  Two threads of the GUI besides the one of the window: one      *)
(* reads the server's output, one the pipe; both hand text to the window   *)
(* with Dispatcher.Invoke, which waits for the window's thread.  Closing   *)
(* the window kills the server and waits for its exit and for the end of   *)
(* its output.                                                             *)
(***************************************************************************)
EXTENDS Integers

CONSTANTS MaxLines,  \* lines the output of the server holds unread
          Faults     \* what may fail

ASSUME GuiLaunchAssumption ==
    /\ MaxLines \in Nat \ {0}
    /\ Faults \subseteq {"database", "exit"}

VARIABLES ui,       \* the thread of the window
          server,   \* the process TCPServer
          lines,    \* lines of its output nobody has read
          output,   \* the thread that reads them
          pipe,     \* ServerPipe
          message,  \* the greeting is in the pipe
          reader    \* the thread of PipeASyncFunction

vars == <<ui, server, lines, output, pipe, message, reader>>

Alive == {"begun", "open", "running"}
Ended == {"closed", "crashed", "aborted"}

\* The threads of the GUI run.
GuiRuns == ui \notin Ended

\* Dispatcher.Invoke gets its turn when the window's thread has nothing to do.
Dispatches == ui = "idle"

Init == /\ ui = "start"
        /\ server = "none"
        /\ lines = 0
        /\ output = "off"
        /\ pipe = "none"
        /\ message = FALSE
        /\ reader = "off"
-----------------------------------------------------------------------------
(* The window                                                              *)

StartServer ==
    /\ ui = "start"
    /\ ui' = "pipe"
    /\ server' = "begun"
    /\ output' = "read"
    /\ UNCHANGED <<lines, pipe, message, reader>>

\* variant: the constructor leaves the pipe to its callback
CreatePipeLater ==
    /\ ui = "pipe"
    /\ ui' = "connect"
    /\ reader' = "renew"
    /\ UNCHANGED <<server, lines, output, pipe, message>>

CreatePipe ==
    /\ ui = "pipe"
    /\ ui' = "connect"
    /\ pipe' = "listening"
    /\ reader' = "wait"
    /\ UNCHANGED <<server, lines, output, message>>

OpenDatabase ==
    /\ ui = "connect"
    /\ ui' = "idle"
    /\ UNCHANGED <<server, lines, output, pipe, message, reader>>

\* Open() throws, and the handler disposes of a command that is null: the
\* GUI ends, after OnProcessExit or without it, and the pipe with it.
OpenDatabaseFails ==
    /\ "database" \in Faults
    /\ ui = "connect"
    /\ ui' = "aborted"
    /\ server' \in {server, "dead"}
    /\ pipe' = "none" /\ message' = FALSE
    /\ UNCHANGED <<lines, output, reader>>

\* OnWindowClosing; ProcessName throws when the process has exited
CloseWindow ==
    /\ ui = "idle"
    /\ ui' = IF server \in Alive THEN "kill" ELSE "crashed"
    /\ UNCHANGED <<server, lines, output, pipe, message, reader>>

\* variant: the window waits for the server to exit by itself
KillNobody ==
    /\ ui = "kill"
    /\ ui' = "wait"
    /\ UNCHANGED <<server, lines, output, pipe, message, reader>>

\* variant: the window just goes
LeaveServer ==
    /\ ui = "kill"
    /\ ui' = "closed"
    /\ UNCHANGED <<server, lines, output, pipe, message, reader>>

\* Kill() throws when the process has exited meanwhile.
Kill ==
    /\ ui = "kill"
    /\ server' = "dead"
    /\ ui' = IF server \in Alive THEN "wait" ELSE "crashed"
    /\ UNCHANGED <<lines, output, pipe, message, reader>>

\* WaitForExit() also waits for the end of the redirected output.
WaitForExit ==
    /\ ui = "wait"
    /\ server = "dead"
    /\ output = "eof"
    /\ ui' = "close"
    /\ UNCHANGED <<server, lines, output, pipe, message, reader>>

\* ServerPipe.IsConnected: the pipe may be null just then
ClosePipe ==
    /\ ui = "close"
    /\ \/ /\ pipe = "null"
          /\ ui' = "crashed"
          /\ UNCHANGED pipe
       \/ /\ pipe # "null"
          /\ ui' = "closed"
          /\ pipe' = IF pipe = "connected" THEN "null" ELSE pipe
    /\ UNCHANGED <<server, lines, output, message, reader>>
-----------------------------------------------------------------------------
(* The server: TCPS_pipe_send, then whatever it prints                     *)

OpenPipe ==
    /\ server = "begun"
    /\ pipe = "listening"
    /\ pipe' = "connected"
    /\ server' = "open"
    /\ UNCHANGED <<ui, lines, output, message, reader>>

\* CreateFile fails, the constructor of TCPServer throws, main exits.
PipeMissing ==
    /\ server = "begun"
    /\ pipe # "listening"
    /\ server' = "dead"
    /\ UNCHANGED <<ui, lines, output, pipe, message, reader>>

\* WriteFile fails, as the GUI has ended.
PipeBroken ==
    /\ server = "open"
    /\ pipe # "connected"
    /\ server' = "dead"
    /\ UNCHANGED <<ui, lines, output, pipe, message, reader>>

WritePipe ==
    /\ server = "open"
    /\ pipe = "connected"
    /\ message' = TRUE
    /\ server' = "running"
    /\ UNCHANGED <<ui, lines, output, pipe, reader>>

PrintLine ==
    /\ server \in Alive
    /\ lines < MaxLines
    /\ lines' = lines + 1
    /\ UNCHANGED <<ui, server, output, pipe, message, reader>>

\* the database or the sockets end the server
ExitServer ==
    /\ "exit" \in Faults
    /\ server = "running"
    /\ server' = "dead"
    /\ UNCHANGED <<ui, lines, output, pipe, message, reader>>
-----------------------------------------------------------------------------
(* TCPServerOutputHandler                                                  *)

TakeLine ==
    /\ GuiRuns
    /\ output = "read"
    /\ lines > 0
    /\ lines' = lines - 1
    /\ output' \in {"read", "invoke"}  \* an empty line is not shown
    /\ UNCHANGED <<ui, server, pipe, message, reader>>

ShowLine ==
    /\ Dispatches
    /\ output = "invoke"
    /\ output' = "read"
    /\ UNCHANGED <<ui, server, lines, pipe, message, reader>>

EndOfOutput ==
    /\ GuiRuns
    /\ output = "read"
    /\ server = "dead" /\ lines = 0
    /\ output' = "eof"
    /\ UNCHANGED <<ui, server, lines, pipe, message, reader>>
-----------------------------------------------------------------------------
(* PipeASyncFunction                                                       *)

EndWaitForConnection ==
    /\ GuiRuns
    /\ reader = "wait"
    /\ pipe = "connected"
    /\ reader' = "read"
    /\ UNCHANGED <<ui, server, lines, output, pipe, message>>

\* variant: the callback reads to the end of the stream before it shows
ReadToEnd ==
    /\ GuiRuns
    /\ reader = "read"
    /\ message /\ server = "dead"
    /\ message' = FALSE
    /\ reader' = "invoke"
    /\ UNCHANGED <<ui, server, lines, output, pipe>>

ReadMessage ==
    /\ GuiRuns
    /\ reader = "read"
    /\ message
    /\ message' = FALSE
    /\ reader' = "invoke"
    /\ UNCHANGED <<ui, server, lines, output, pipe>>

\* The greeting is in the text box, or the server ended before it wrote:
\* Close(), and ServerPipe is null.
DropPipe ==
    /\ GuiRuns
    /\ \/ reader = "invoke" /\ Dispatches
       \/ reader = "read" /\ ~message /\ server = "dead"
    /\ pipe' = "null"
    /\ reader' = "renew"
    /\ UNCHANGED <<ui, server, lines, output, message>>

\* a new pipe waits for the next connection
RenewPipe ==
    /\ GuiRuns
    /\ reader = "renew"
    /\ pipe' = "listening"
    /\ reader' = "wait"
    /\ UNCHANGED <<ui, server, lines, output, message>>
-----------------------------------------------------------------------------
Window == \/ StartServer \/ CreatePipe \/ OpenDatabase \/ OpenDatabaseFails
          \/ Kill \/ WaitForExit \/ ClosePipe

Greet == OpenPipe \/ PipeMissing \/ PipeBroken \/ WritePipe

OutputThread == TakeLine \/ ShowLine \/ EndOfOutput

PipeThread == EndWaitForConnection \/ ReadMessage \/ DropPipe \/ RenewPipe

Next == \/ Window \/ CloseWindow
        \/ Greet \/ PrintLine \/ ExitServer
        \/ OutputThread \/ PipeThread

Spec == Init /\ [][Next]_vars

(***************************************************************************)
(* Every thread runs.  Nobody need close the window, and the server need   *)
(* not print or exit.                                                      *)
(***************************************************************************)
FairSpec == /\ Spec
            /\ WF_vars(Window) /\ WF_vars(Greet)
            /\ WF_vars(OutputThread) /\ WF_vars(PipeThread)
-----------------------------------------------------------------------------
TypeOK ==
    /\ ui \in {"start", "pipe", "connect", "idle", "kill", "wait", "close"} \cup Ended
    /\ server \in {"none", "dead"} \cup Alive
    /\ lines \in 0 .. MaxLines
    /\ output \in {"off", "read", "invoke", "eof"}
    /\ pipe \in {"none", "listening", "connected", "null"}
    /\ message \in BOOLEAN
    /\ reader \in {"off", "wait", "read", "invoke", "renew"}

(***************************************************************************)
(* A window that was closed, even by an exception on the way, leaves no    *)
(* server behind that holds the ports and writes to the database.          *)
(***************************************************************************)
NoOrphan == ui \in {"closed", "crashed"} => server = "dead"

(***************************************************************************)
(* From the creation of the pipe on, a server that has not greeted yet     *)
(* finds it waiting, however the callback drops and renews it.             *)
(***************************************************************************)
PipeAwaits ==
    server = "begun" /\ ui \notin {"start", "pipe"} /\ GuiRuns => pipe = "listening"

(***************************************************************************)
(* The window's thread waits for the end of the output, and the output's   *)
(* thread for the window's.                                                *)
(***************************************************************************)
Stuck == ui = "wait" /\ output = "invoke"

(***************************************************************************)
(* A window that is closed goes away with its server, unless a line of the *)
(* server's output was being handed to it just then.                       *)
(***************************************************************************)
CloseEnds == ui = "kill" ~> ui \in Ended \/ Stuck

(***************************************************************************)
(* A greeting that was sent is shown and the pipe renewed, unless the      *)
(* window is closed first.                                                 *)
(***************************************************************************)
GreetingShown ==
    server = "open" ~> reader = "renew" \/ ui \in {"kill", "wait", "close"} \cup Ended
=============================================================================
