----------------------------- MODULE MCNtService -----------------------------
(***************************************************************************)
(* The three state machines of src/VTNtService.cpp for one run of TLC: a   *)
(* process is the service, a tool that controls one, or its command line   *)
(* is being read.  They share no state, so each behaviour takes steps of   *)
(* one of them only, and the states of all three add up.                   *)
(***************************************************************************)
EXTENDS Naturals, FiniteSets, Sequences

CONSTANTS Watchdogs, Tools,
          Controls, MaxStops, MaxAsks, MaxExpiries,  \* of the busy service
          MaxArgs                                    \* of the command line

VARIABLES part,    \* which of them takes steps
          console, current, accepted, stopped, report, arg, main, handler,
          watchdog, asked, scm, ended, alive, sent,
          installed, state, params, command, pc, status, retval, witnessed,
          argv, i, action, showUsage, options, args, phase, registry, runArgs

\* A prompt service gets any one stop or shutdown, and its watchdog never times
\* out; a busy one gets several and is asked for its state, its watchdogs time out,
\* and run() may return by itself.
Prompt == INSTANCE VTNtService WITH
    Controls <- {"stop", "shutdown", "pause", "continue", "unknown", "device"},
    MaxStops <- 1, MaxAsks <- 0, MaxExpiries <- 0, SelfEnding <- FALSE

Busy == INSTANCE VTNtService WITH SelfEnding <- TRUE

Control == INSTANCE VTNtServiceControl WITH
    Commands <- {"install", "uninstall", "start", "stop"}

Line == INSTANCE VTNtServiceArgs WITH
    CharSize <- 2,
    Length <- [s \in {"path", "--other", "-x"} |->
        CASE s = "path" -> 2 [] s = "--other" -> 1 [] OTHER -> 0]

ASSUME NtServiceInstances ==
    /\ Prompt!NtServiceAssumption /\ Busy!NtServiceAssumption
    /\ Control!ControlAssumption /\ Line!ArgsAssumption

serviceVars == << console, current, accepted, stopped, report, arg, main, handler,
                  watchdog, asked, scm, ended, alive, sent >>
controlVars == << installed, state, params, command, pc, status, retval, witnessed >>
lineVars == << argv, i, action, showUsage, options, args, phase, registry, runArgs >>
vars == << part, serviceVars, controlVars, lineVars >>

Init ==
    /\ part \in {"prompt", "busy", "control", "line"}
    /\ Line!Init /\ (part # "line" => argv = << >>)
    /\ Control!Init
    /\ part # "control" => installed = "no" /\ command = [t \in Tools |-> "start"]
    /\ Prompt!Init /\ (part \notin {"prompt", "busy"} => console)

Next ==
    \/ part = "prompt" /\ Prompt!Next /\ UNCHANGED << part, controlVars, lineVars >>
    \/ part = "busy" /\ Busy!Next /\ UNCHANGED << part, controlVars, lineVars >>
    \/ part = "control" /\ Control!Next /\ UNCHANGED << part, serviceVars, lineVars >>
    \/ part = "line" /\ Line!Next /\ UNCHANGED << part, serviceVars, controlVars >>

\* The fairness of the service.
Fairness ==
    /\ part = "prompt" => Prompt!Fairness
    /\ part = "busy" => Busy!Fairness

Spec == Init /\ [][Next]_vars /\ Fairness

-----------------------------------------------------------------------------
\* Every variable has its type.
TypeOK == Control!TypeOK /\ IF part = "busy" THEN Busy!TypeOK ELSE Prompt!TypeOK

\* Once stop() has started its watchdog, the manager never hears again that the
\* service starts or runs, whatever is asked and however often watchdogs time out:
\* no report that began before the stop and is late takes it back.
\* (ServiceCtrlHandlerEx, stop, reportStatus, watchdogProc.)
StopIsNotTakenBack == part = "busy" => Busy!StopIsNotTakenBack

\* A watchdog is let go only by the end of run(), whatever comes and however often
\* others time out.  (watchdogProc, reportStatus.)
WatchdogGuards == part = "busy" => Busy!WatchdogGuards

\* A request to stop ends the process or, if watchdogs time out, at least
\* ServiceMain.  (stop, ServiceMain, startDispatcher.)
StopEnds ==
    /\ part = "prompt" => Prompt!StopEnds
    /\ part = "busy" => Busy!ServiceMainEnds

\* A start or a stop that returns 0 has brought the service up or down, or has
\* found it so.  (startService, stopService.)
ZeroMeansReached == part = "control" => Control!ZeroMeansReached

\* What main() makes of a command line is what the help promises.  (main.)
ParsesAsDocumented == part = "line" => Line!ParsesAsDocumented

\* Two that the code does not keep: an uninstall that returns 0 has removed the
\* service, and run() gets the options that --install was given.
\* (uninstallService, installService, ServiceMain.)
UninstallRemoves == Control!UninstallRemoves
RunGetsInstalledArgs == part = "line" => Line!RunGetsInstalledArgs
=============================================================================
