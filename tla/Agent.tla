-------------------------------- MODULE Agent ------------------------------
(***************************************************************************)
(* The process around the daemon (cmd/agent/main.go).  Without -serve main *)
(* makes one Refresh, prints the window and ends.  With -serve it starts   *)
(* the daemon, the goroutine that shuts the server down, and serves until  *)
(* ListenAndServe returns; the process ends with main, wherever its        *)
(* goroutines are.  Signals are caught from the start of a behaviour on    *)
(* (NotifyContext); the daemon's context is the one they cancel.  A        *)
(* program that uses the package instead calls Daemon.Run itself.          *)
(***************************************************************************)
EXTENDS Daemon

VARIABLES
    mode,      \* "oneshot", "serve", or "library": no main at all
    main,      \* where main is; in which call it was when it exited
    exit,      \* the exit code, or Running
    shutdown   \* srv.Shutdown: "off", "waiting" for the signal, "called"

process == <<mode, main, exit, shutdown>>
agentVars == <<vars, process>>

Running == -1
Alive == exit = Running

AgentInit ==
    /\ Init
    /\ mode \in {"oneshot", "serve", "library"}
    /\ main = CASE mode = "oneshot" -> "refresh" [] mode = "serve" -> "wire"
                [] OTHER -> "none"
    /\ exit = Running /\ shutdown = "off"

At(loc) == Alive /\ main = loc
Goto(loc) == main' = loc /\ UNCHANGED <<mode, exit, shutdown>>
Exit(code) == exit' = code /\ UNCHANGED <<mode, main, shutdown>>

-----------------------------------------------------------------------------
(* One-shot.  The context is never cancelled.                              *)

(* Mutant: the error of the refresh is not looked at.                      *)
AfterFailure_Ignored == Goto("print")

(* An error is reported by the exit code, without a window.                *)
AfterFailure == Exit(1)

OneShot_Refresh ==
    /\ At("refresh")
    /\ \/ /\ \/ Run_Start
             \/ Refresh_Check
             \/ \E a \in {"metrics", "events"} : Refresh_Answer(a)
             \/ \E e \in {"error", "capped"} : Refresh_CollectErr(e)
          /\ UNCHANGED process
       \/ Refresh_AllFailed /\ AfterFailure
       \/ (\E err \in {"normalize", "cost"} : Refresh_HardErr(err)) /\ AfterFailure
       \/ (\E v \in Verdict : Refresh_Publish(v)) /\ Goto("print")

(* Writing to stdout may fail.                                             *)
OneShot_Print ==
    /\ At("print")
    /\ Exit(0) \/ Exit(1)
    /\ UNCHANGED vars

-----------------------------------------------------------------------------
(* Serve.                                                                  *)

(* Mutant: the server is never told to shut down once it listens.          *)
Main_Wire_Unwatched ==
    /\ At("wire")
    /\ Goto("listen")
    /\ UNCHANGED vars

(* go d.Run is the start of the behaviour; then the goroutine that waits   *)
(* for the signal.                                                         *)
Main_Wire ==
    /\ At("wire")
    /\ main' = "listen" /\ shutdown' = "waiting"
    /\ UNCHANGED <<vars, mode, exit>>

(* A server that was shut down before it listens returns ErrServerClosed   *)
(* at once; the address may be in use.                                     *)
Main_Listen ==
    /\ At("listen")
    /\ IF shutdown = "called" THEN Exit(0) ELSE Goto("serving") \/ Exit(1)
    /\ UNCHANGED vars

(* Mutant: ErrServerClosed is a failure like another.                      *)
Main_Served_AnyError ==
    /\ At("serving")
    /\ Exit(1)
    /\ UNCHANGED vars

(* ListenAndServe returns when Shutdown begins, not when it has waited for *)
(* the handlers in flight: the process ends under them and under Run.      *)
Main_Served ==
    /\ At("serving")
    /\ IF shutdown = "called" THEN Exit(0) ELSE Exit(1)
    /\ UNCHANGED vars

(* The goroutine of Shutdown.                                              *)
Shutdown ==
    /\ Alive /\ shutdown = "waiting" /\ cancelled
    /\ shutdown' = "called"
    /\ UNCHANGED <<vars, mode, main, exit>>

-----------------------------------------------------------------------------
(* The daemon's goroutine and its environment, while the process lives.    *)
Alongside(A) == A /\ Alive /\ UNCHANGED process

Headless == mode # "oneshot"

AgentNext ==
    \/ OneShot_Refresh
    \/ OneShot_Print
    \/ Main_Wire \/ Main_Listen \/ Main_Served
    \/ Shutdown
    \/ Alongside(Headless /\ Run)
    \/ Alongside(ClockTick \/ TickerFires)
    \/ Alongside(Headless /\ Cancel)

AgentSpec == AgentInit /\ [][AgentNext]_agentVars

(* While the process lives its goroutines are scheduled, collectors return *)
(* (each has a timeout, a deadline or a byte cap), the ticker keeps firing *)
(* and Go's select picks uniformly among ready channels, so a ready        *)
(* ctx.Done() is not passed over for ever.  The server need not fail, but  *)
(* returns once it is shut down.                                           *)
AgentFairness ==
    /\ WF_agentVars(OneShot_Refresh \/ OneShot_Print)
    /\ WF_agentVars(Main_Wire \/ Main_Listen)
    /\ WF_agentVars(shutdown = "called" /\ Main_Served)
    /\ WF_agentVars(Shutdown)
    /\ WF_agentVars(Alongside(Headless /\ (Run_Start \/ Refresh)))
    /\ WF_agentVars(Alongside(Headless /\ Run_Tick))
    /\ SF_agentVars(Alongside(Headless /\ Run_Done))
    /\ WF_agentVars(Alongside(TickerFires))

FairAgentSpec == AgentSpec /\ AgentFairness

-----------------------------------------------------------------------------
(* Properties.                                                             *)

(* A signal ends the process, also one that comes before the server        *)
(* listens or in the middle of a cycle; without main it ends Run           *)
(* (main.go:201-246, daemon.go:482-498).                                   *)
CancelEnds ==
    cancelled ~> IF mode = "library" THEN pc = "stopped" ELSE ~Alive

(* No failing source ends the loop or the process: until it is cancelled   *)
(* or the server fails, the daemon keeps booking cycles, up to the bound   *)
(* of the model; a one-shot agent always comes to an end (daemon.go:466).  *)
KeepsCollecting ==
    <>(IF mode = "oneshot" THEN ~Alive
       ELSE cancelled \/ ~Alive \/ cycles >= MaxCycles)

(* The exit code tells the truth: 0 is a window that was collected, with   *)
(* all that entails, or a server that was asked to stop; a server that     *)
(* ends when its shutdown has begun is no failure, whether it listened or  *)
(* not; a one-shot agent that fails before it prints has published nothing *)
(* and counted an error (main.go:180-199, 243-246).                        *)
ExitTellsTruth ==
    /\ exit = 0 => IF mode = "serve" THEN cancelled ELSE state # NoState /\ cycles = 1
    /\ mode = "serve" /\ exit = 1 => shutdown # "called"
    /\ mode = "oneshot" /\ exit = 1 =>
         /\ errs > 0 \/ main = "print"
         /\ main = "refresh" => state = NoState
=============================================================================
