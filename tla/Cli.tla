-------------------------------- MODULE Cli --------------------------------
(***************************************************************************)
(* The command line program (src/src/redp2p.c) that runs one service - an  *)
(* index, a publisher or a consumer, the three branches of main are alike  *)
(* here - through the runner, with the signals that end it, its PID path,  *)
(* and the --down command another process runs on that path.               *)
(*                                                                         *)
(* "main" is the host thread of the runner.  A signal is handled between   *)
(* the two pairs of signal() calls and kills the process outside them.     *)
(* The PID path is absent, a directory, a file with this process's number  *)
(* ("mine") or one with the number of a process that is gone ("stale").    *)
(* The number of a dead process is not given to another one.               *)
(*                                                                         *)
(* The other program that uses the runner is an embedding host, which      *)
(* calls its commands in any order, on handles it has closed as well; the  *)
(* behaviours start as one or the other.                                   *)
(***************************************************************************)
EXTENDS Runner

CONSTANT main

ASSUME CliAssumption == Hosts = {main}

VARIABLES
    program,  \* "cli", or "embedded" for a host that calls what it likes
    pc,       \* where main is
    sig,      \* g_stop_requested
    path,     \* what is at the PID path
    wait,     \* value returned by cli_runner_wait: 0, 1 or 2
    result,   \* exit_result, "unset" while it is uninitialised
    code,     \* exit status: "success", "failure", or "killed"
    lost      \* history: main never read its handle, or made no last close

cliVars == <<program, pc, sig, path, wait, result, code, lost>>
vars == <<runnerVars, cliVars>>

Init ==
    /\ RunnerInit
    /\ program \in {"cli", "embedded"}
    /\ pc = "open"
    /\ sig = FALSE
    /\ path \in {"absent", "stale"}
    /\ program = "embedded" => path = "absent"
    /\ wait = 0
    /\ result = "unset"
    /\ code = "none"
    /\ lost = FALSE

Alive == program = "cli" /\ pc # "exit"
Ready == host[main].pc = "idle"

At(from, to) == Alive /\ pc = from /\ pc' = to

Exit(c) == pc' = "exit" /\ code' = c

-----------------------------------------------------------------------------
(* cli_runner_open; a failure ends the program, also when the service was   *)
(* started and only the answer is missing or cannot be read.                *)
Open ==
    /\ At("open", "opening")
    /\ OpenRefused(main) \/ OpenAlloc(main)
    /\ UNCHANGED <<program, sig, path, wait, result, code, lost>>

Opened ==
    /\ pc = "opening" /\ Ready
    /\ \/ /\ host[main].op = "open"
          /\ pc' = "pid"
          /\ UNCHANGED <<code, lost>>
       \/ /\ Exit("failure")
          /\ lost' = (host[main].op # "failed")
    /\ UNCHANGED <<program, runnerVars, sig, path, wait, result>>

(* cli_pid_write after cli_mkdir_p, whose last mkdir is on the whole path:  *)
(* where nothing was it leaves a directory, which fopen cannot write.       *)
Written == IF path \in {"absent", "dir"} THEN "dir" ELSE "mine"

PidWrite ==
    /\ At("pid", "install")
    /\ path' = Written
    /\ UNCHANGED <<program, runnerVars, sig, wait, result, code, lost>>

InstallHandlers ==
    /\ At("install", "loop")
    /\ UNCHANGED <<program, runnerVars, sig, path, wait, result, code, lost>>

Handled == pc \in {"loop", "asked", "stopping", "closing"}

(* cli_runner_stop and cli_runner_close, which pass over a request that     *)
(* cannot be built.                                                         *)
Request(op) == EndBegin(main, op) \/ UNCHANGED runnerVars

(* One turn of cli_runner_wait: a signal stops and closes the handle, else  *)
(* the status is asked for.                                                 *)
SeeSignal ==
    /\ At("loop", "stopping") /\ Ready
    /\ sig
    /\ Request("stop")
    /\ UNCHANGED <<program, sig, path, wait, result, code, lost>>

CloseStopped ==
    /\ At("stopping", "closing") /\ Ready
    /\ Request("close")
    /\ UNCHANGED <<program, sig, path, wait, result, code, lost>>

Interrupted ==
    /\ At("closing", "reset") /\ Ready
    /\ wait' = 2
    /\ UNCHANGED <<program, runnerVars, sig, path, result, code, lost>>

AskStatus ==
    /\ At("loop", "asked") /\ Ready
    /\ ~sig
    /\ Status(main)
    /\ UNCHANGED <<program, sig, path, wait, result, code, lost>>

(* The answer: sleep and turn again while it says running; a request that   *)
(* could not be made ends the wait with 1.                                  *)
Answered ==
    /\ pc = "asked"
    /\ \/ /\ host[main].said = "running"
          /\ pc' = "loop"
          /\ UNCHANGED <<wait, result>>
       \/ /\ host[main].said # "running"
          /\ pc' = "reset"
          /\ wait' = 0
          /\ result' = host[main].said
       \/ /\ pc' = "reset"
          /\ wait' = 1
          /\ UNCHANGED result
    /\ UNCHANGED <<program, runnerVars, sig, path, code, lost>>

(* Default handlers again, and the PID path is removed.                     *)
PidRemove ==
    /\ At("reset", "close")
    /\ path' = "absent"
    /\ UNCHANGED <<program, runnerVars, sig, wait, result, code, lost>>

(* Mutant: the handle is not closed after a wait that failed. *)
LastCloseIfWaited ==
    /\ At("close", "last") /\ Ready
    /\ \/ wait # 1 /\ EndBegin(main, "close") /\ lost' = lost
       \/ wait = 1 /\ UNCHANGED <<runnerVars, lost>>
    /\ UNCHANGED <<program, sig, path, wait, result, code>>

(* The handle is closed, a second time when a signal ended the wait.        *)
LastClose ==
    /\ At("close", "last") /\ Ready
    /\ \/ EndBegin(main, "close") /\ lost' = lost
       \/ UNCHANGED runnerVars /\ lost' = TRUE
    /\ UNCHANGED <<program, sig, path, wait, result, code>>

(* The exit status.  After a signal exit_result was never assigned.         *)
ExitCodes ==
    IF wait = 1 THEN {"failure"}
    ELSE IF result = "unset" THEN {"success", "failure"}
    ELSE IF result = "ok" THEN {"success"} ELSE {"failure"}

Finish ==
    /\ pc = "last" /\ Ready
    /\ \E c \in ExitCodes : Exit(c)
    /\ UNCHANGED <<program, runnerVars, sig, path, wait, result, lost>>

MainStep ==
    \/ Open \/ Opened \/ PidWrite \/ InstallHandlers
    \/ SeeSignal \/ CloseStopped \/ Interrupted \/ AskStatus \/ Answered
    \/ PidRemove \/ LastClose \/ Finish

(* The steps inside a runner command main has called.                       *)
CommandStep ==
    /\ Alive
    /\ OpenClear(main) \/ OpenContext(main) \/ OpenSetup(main) \/ OpenStart(main)
       \/ StopEnd(main) \/ CloseEnd(main)
    /\ UNCHANGED cliVars

ServiceStep(n) == Alive /\ Thread(n) /\ UNCHANGED cliVars

-----------------------------------------------------------------------------
(* SIGINT or SIGTERM: sigint_handler where it is installed, else death.     *)
Signalled ==
    IF Handled
      THEN sig' = TRUE /\ UNCHANGED <<pc, code>>
      ELSE Exit("killed") /\ UNCHANGED sig

Signal ==
    /\ Alive
    /\ Signalled
    /\ UNCHANGED <<program, runnerVars, path, wait, result, lost>>

(* cli_pid_stop in another process.  Nothing there: an error.  A directory  *)
(* holds no number: it is removed, an error.  A number of no process: the   *)
(* file is removed, an error.  Else the process is signalled and the file   *)
(* removed.                                                                 *)
Down ==
    /\ program = "cli"
    /\ path # "absent"
    /\ path' = "absent"
    /\ IF path = "mine" /\ Alive
         THEN Signalled
         ELSE UNCHANGED <<pc, sig, code>>
    /\ UNCHANGED <<program, runnerVars, wait, result, lost>>

EmbeddedStep ==
    /\ program = "embedded"
    /\ RunnerNext
    /\ UNCHANGED cliVars

Next ==
    \/ EmbeddedStep
    \/ MainStep \/ CommandStep \/ Signal \/ Down
    \/ \E n \in Services : ServiceStep(n)

(* main and the service thread are scheduled; a service whose stop was      *)
(* requested returns, since every loop of it tests the flag at each turn.   *)
(* A service that was not asked to stop may run for ever.                   *)
Fairness ==
    /\ WF_vars(MainStep) /\ WF_vars(CommandStep)
    /\ \A n \in Services :
         /\ WF_vars(svc[n].stop /\ ServiceStep(n))
         /\ WF_vars(/\ Alive
                    /\ Begin(n) \/ StoreResult(n) \/ StoreState(n)
                    /\ UNCHANGED cliVars)

Spec == Init /\ [][Next]_vars /\ Fairness

-----------------------------------------------------------------------------
(* The types of the variables.                                              *)
TypeOK ==
    /\ RunnerTypeOK
    /\ program \in {"cli", "embedded"}
    /\ pc \in {"open", "opening", "pid", "install", "loop", "asked",
               "stopping", "closing", "reset", "close", "last", "exit"}
    /\ sig \in BOOLEAN
    /\ path \in {"absent", "dir", "mine", "stale"}
    /\ wait \in 0 .. 2
    /\ result \in {"unset", "ok", "error"}
    /\ code \in {"none", "success", "failure", "killed"}
    /\ lost \in BOOLEAN

ByItself == code \in {"success", "failure"}

(* The exit status is the service's own: a program that was told its        *)
(* service had finished exits with success exactly when the operation       *)
(* returned REDP2P_OK, although main reads the slot while the thread writes *)
(* it.                                                                      *)
ExitTells ==
    (ByItself /\ wait = 0 /\ result # "unset") =>
        \E n \in Services :
            svc[n].st = "done" /\ (code = "success" <=> svc[n].ret = "ok")

(* A program that ends by itself has taken its PID path away, leaves no     *)
(* thread behind and has released every context it created - whichever of   *)
(* its stop and close requests failed before, as long as it read the answer *)
(* to its open and could make its last close.  Without these two it may     *)
(* leave both to the end of the process.                                    *)
CleanExit ==
    ByItself =>
        /\ path \in {"absent", "stale"}
        /\ ~lost => \A n \in Services : /\ svc[n].st \in {"none", "done"}
                                        /\ svc[n].ctx \in {"none", "freed"}

(* The program ends when it is told to or when its service ends, at         *)
(* whatever point of open, status or close the signal arrives.              *)
Ends ==
    /\ sig ~> pc = "exit"
    /\ \A n \in Services : (program = "cli" /\ svc[n].st = "done") ~> (pc = "exit")

(* What the help text and the README promise of --down: it stops the        *)
(* program that is running in the background.                               *)
DownStops == [][(Down /\ Handled) => sig']_vars
=============================================================================
