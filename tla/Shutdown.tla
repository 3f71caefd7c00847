------------------------------ MODULE Shutdown ------------------------------
(***************************************************************************)
(* Starting and stopping a Tunnel: the REPL thread that owns it            *)
(* (repl.cpp, commands.cpp), the threads that start() spawns, and stop(),  *)
(* which the REPL thread runs for /leave, /delete, /quit, end of input and *)
(* the destructor, and a detached thread runs when the creator of the      *)
(* network destroys it.                                                    *)
(*                                                                         *)
(* The send thread and the two threads of Discovery come and go with the   *)
(* call that starts or joins them (Transport looks inside).  A worker is   *)
(* "busy" while it is in the body of its loop, and may then use the        *)
(* socket and the adapter.  A Tunnel has no lock for its threads: where    *)
(* start() and stop(), or two runs of stop(), use the same one at the same *)
(* time, and where the object is destroyed under a stop(), the behaviour   *)
(* is undefined.  The outcomes are that it goes well in some order, and    *)
(* that the process is lost.                                               *)
(***************************************************************************)
EXTENDS Naturals, Sequences

(* The threads of start(), in the order in which it spawns them.  gossip   *)
(* and connect wait on hs_cv_, the others sleep or poll.                   *)
Worker == {"rx", "tx", "gossip", "maintenance", "connect"}
Spawned == <<"tx", "gossip", "maintenance", "connect">>
CvWaiter == {"gossip", "connect"}

(* Bug variant of Steps: the socket is closed before the threads are       *)
(* joined.                                                                 *)
StepsCloseFirst == <<"flag", "notify", "stop_rx", "close", "rx", "tx", "gossip",
                     "maintenance", "connect", "drop", "adapter", "clear">>

(* stop(), step by step.                                                   *)
Steps == <<"flag", "notify", "stop_rx", "rx", "tx", "gossip", "maintenance",
           "connect", "drop", "close", "adapter", "clear">>

(* Who runs stop().                                                        *)
Stopper == {"repl", "teardown"}

VARIABLES
  cli,         \* the REPL thread: [pc, then, passes]
  is_creator,  \* this node created the network
  running,     \* Tunnel::running_
  receiving,   \* Transport::running_
  open,        \* what is open: a subset of {"socket", "adapter"}
  transfers,   \* incoming_transfers_ has an entry
  thread,      \* the threads
  at,          \* where each stopper is in Steps; 0: not in stop()
  wrecked      \* the process is lost to undefined behaviour

shutVars == <<cli, is_creator, running, receiving, open, transfers, thread, at, wrecked>>

Prompt == [pc |-> "prompt", then |-> "prompt", passes |-> 0]

NoThreads == [w \in Worker |-> "none"]

ShutInit ==
  /\ cli = Prompt /\ is_creator = FALSE /\ wrecked = FALSE
  /\ running = FALSE /\ receiving = FALSE /\ open = {} /\ transfers = FALSE
  /\ thread = NoThreads
  /\ at = [s \in Stopper |-> 0]

-----------------------------------------------------------------------------
(* Commands.                                                               *)

(* Entering stop(): passes is how often the REPL thread runs it, the last  *)
(* time in ~Tunnel.                                                        *)
StopThen(passes, then) ==
  /\ cli' = [pc |-> "stop", then |-> then, passes |-> passes]
  /\ at' = [at EXCEPT !["repl"] = 1]
  /\ UNCHANGED <<is_creator, running, receiving, open, transfers, thread, wrecked>>

AtPrompt == cli.pc = "prompt"

HasTunnel == AtPrompt /\ cli.then = "running"

(* /leave and leave_network: a tunnel that stopped running is not stopped, *)
(* only destroyed.                                                         *)
Leave == HasTunnel /\ StopThen(IF running THEN 2 ELSE 1, "prompt")

(* /delete and delete_network, refused to all but the creator.             *)
Delete == HasTunnel /\ is_creator /\ StopThen(IF running THEN 2 ELSE 1, "prompt")

(* /quit, and the end of run_repl at end of input.                         *)
Quit == HasTunnel /\ StopThen(2, "quit")

QuitIdle ==
  /\ AtPrompt /\ cli.then # "running"
  /\ cli' = [cli EXCEPT !.pc = "quit"]
  /\ UNCHANGED <<is_creator, running, receiving, open, transfers, thread, at, wrecked>>

(* /config: start_tunnel_helper puts a new Tunnel in ctx.tunnel, and the   *)
(* one that was there is destroyed before the new one starts.              *)
ConfigAgain == HasTunnel /\ StopThen(1, "start")

Config ==
  /\ AtPrompt /\ cli.then # "running"
  /\ cli' = [pc |-> "start", then |-> "start", passes |-> 0]
  /\ UNCHANGED <<is_creator, running, receiving, open, transfers, thread, at, wrecked>>

-----------------------------------------------------------------------------
(* Tunnel::start.                                                          *)

(* An invalid address or MTU, no adapter, no port: nothing stays open and  *)
(* start_tunnel_helper resets ctx.tunnel.                                  *)
StartFails ==
  /\ cli.pc = "start"
  /\ cli' = Prompt
  /\ UNCHANGED <<is_creator, running, receiving, open, transfers, thread, at, wrecked>>

StartOpens ==
  /\ cli.pc = "start"
  /\ open' = {"socket", "adapter"}
  /\ is_creator' \in BOOLEAN
  /\ cli' = [cli EXCEPT !.pc = "receive"]
  /\ UNCHANGED <<running, receiving, transfers, thread, at, wrecked>>

(* start_receive comes before running_ is set.                             *)
StartReceive ==
  /\ cli.pc = "receive"
  /\ receiving' = TRUE
  /\ thread' = [thread EXCEPT !["rx"] = "top"]
  /\ cli' = [cli EXCEPT !.pc = "run"]
  /\ UNCHANGED <<is_creator, running, open, transfers, at, wrecked>>

StartRunning ==
  /\ cli.pc = "run"
  /\ running' = TRUE
  /\ cli' = [cli EXCEPT !.pc = "spawn"]
  /\ UNCHANGED <<is_creator, receiving, open, transfers, thread, at, wrecked>>

(* The first thread of Spawned that was not started; passes counts them.   *)
Spawn ==
  /\ cli.pc = "spawn" /\ cli.passes < Len(Spawned)
  /\ thread' = [thread EXCEPT ![Spawned[cli.passes + 1]] = "top"]
  /\ cli' = [cli EXCEPT !.passes = @ + 1]
  /\ UNCHANGED <<is_creator, running, receiving, open, transfers, at, wrecked>>

Started ==
  /\ cli.pc = "spawn" /\ cli.passes = Len(Spawned)
  /\ cli' = [pc |-> "prompt", then |-> "running", passes |-> 0]
  /\ UNCHANGED <<is_creator, running, receiving, open, transfers, thread, at, wrecked>>

-----------------------------------------------------------------------------
(* The threads.                                                            *)

(* The condition of the loop.                                              *)
Going(w) == IF w = "rx" THEN receiving ELSE running

Moves(w, from, to) ==
  /\ thread[w] = from
  /\ thread' = [thread EXCEPT ![w] = to]
  /\ UNCHANGED <<cli, is_creator, running, receiving, open, transfers, at, wrecked>>

Enter(w) == Going(w) /\ Moves(w, "top", "busy")

(* Joinable and about to return, or not joinable.                          *)
Joined(w) == thread[w] = "none" \/ (thread[w] = "top" /\ ~Going(w))

(* A packet, a datagram, a round of maintenance, a handshake or a sleep of *)
(* connect_loop is over.                                                   *)
Again(w) == Moves(w, "busy", "top")

(* wait_for: the predicate was false under hs_mtx_, and the thread has not *)
(* started to wait yet.                                                    *)
Evaluate(w) == w \in CvWaiter /\ running /\ Moves(w, "top", "evaluated")

Block(w) == Moves(w, "evaluated", "blocked")

(* Bug variant of TimesOut: wait() instead of wait_for().                  *)
TimesOutNever(w) == FALSE /\ Moves(w, "blocked", "top")

(* The gossip interval, or half a second of connect_loop.                  *)
TimesOut(w) == Moves(w, "blocked", "top")

(* handle_file_header_frame inserts a transfer; it looked at running_ when *)
(* it was called.                                                          *)
Incoming ==
  /\ thread["rx"] = "busy"
  /\ transfers' = TRUE
  /\ UNCHANGED <<cli, is_creator, running, receiving, open, thread, at, wrecked>>

(* handle_network_teardown_frame: the creator's frame, which it sends once.*)
Teardown ==
  /\ thread["rx"] = "busy" /\ running /\ ~is_creator /\ at["teardown"] = 0
  /\ at' = [at EXCEPT !["teardown"] = 1]
  /\ UNCHANGED <<cli, is_creator, running, receiving, open, transfers, thread,
                 wrecked>>

-----------------------------------------------------------------------------
(* stop().                                                                 *)
Step(s) == IF at[s] = 0 THEN "none" ELSE Steps[at[s]]

Advance(s) == at' = [at EXCEPT ![s] = @ + 1]

SetFlag(s) ==
  /\ Step(s) = "flag"
  /\ running' = FALSE
  /\ Advance(s)
  /\ UNCHANGED <<cli, is_creator, receiving, open, transfers, thread, wrecked>>

(* notify_all, without hs_mtx_.                                            *)
NotifyAll(s) ==
  /\ Step(s) = "notify"
  /\ thread' = [w \in Worker |-> IF thread[w] = "blocked" THEN "top" ELSE thread[w]]
  /\ Advance(s)
  /\ UNCHANGED <<cli, is_creator, running, receiving, open, transfers, wrecked>>

StopReceive(s) ==
  /\ Step(s) = "stop_rx"
  /\ receiving' = FALSE
  /\ Advance(s)
  /\ UNCHANGED <<cli, is_creator, running, open, transfers, thread, wrecked>>

(* if (t.joinable()) t.join(): a thread that was never started, or that    *)
(* was joined before, is passed over.  The return of the thread is part of *)
(* the step.  "connect" stands for all of connect_threads_.                *)
Join(s) ==
  LET w == Step(s)
  IN  /\ w \in Worker
      /\ Joined(w)
      /\ thread' = [thread EXCEPT ![w] = "none"]
      /\ Advance(s)
      /\ UNCHANGED <<cli, is_creator, running, receiving, open, transfers, wrecked>>

(* connect_threads_.clear(): a thread that start() has added after the     *)
(* loop that joins them is destroyed joinable, which ends the process.     *)
DropThreads(s) ==
  /\ Step(s) = "drop"
  /\ IF thread["connect"] = "none" THEN Advance(s) /\ UNCHANGED wrecked
     ELSE wrecked' = TRUE /\ UNCHANGED at
  /\ UNCHANGED <<cli, is_creator, running, receiving, open, transfers, thread>>

(* transport_.close(), then adapter_.close().                              *)
Close(s) ==
  /\ Step(s) \in {"close", "adapter"}
  /\ open' = open \ {IF Step(s) = "close" THEN "socket" ELSE "adapter"}
  /\ Advance(s)
  /\ UNCHANGED <<cli, is_creator, running, receiving, transfers, thread, wrecked>>

(* The tables are cleared.  The REPL thread runs stop() again if it was    *)
(* not in the destructor; after the destructor the object is gone, and the *)
(* process lost if the detached thread is still in stop().                 *)
Clear(s) ==
  /\ Step(s) = "clear"
  /\ transfers' = FALSE
  /\ \/ /\ s = "repl" /\ cli.passes > 1
        /\ at' = [at EXCEPT ![s] = 1]
        /\ cli' = [cli EXCEPT !.passes = @ - 1]
        /\ UNCHANGED wrecked
     \/ /\ s = "repl" /\ cli.passes = 1 /\ at["teardown"] = 0
        /\ at' = [at EXCEPT ![s] = 0]
        /\ cli' = [Prompt EXCEPT !.pc = cli.then]
        /\ UNCHANGED wrecked
     \/ /\ s = "repl" /\ cli.passes = 1 /\ at["teardown"] # 0
        /\ wrecked' = TRUE
        /\ UNCHANGED <<cli, at>>
     \/ /\ s = "teardown"
        /\ at' = [at EXCEPT ![s] = 0]
        /\ UNCHANGED <<cli, wrecked>>
  /\ UNCHANGED <<is_creator, running, receiving, open, thread>>

(* The two runs of stop() are both about to join a thread, or to close     *)
(* what is open, or one of them empties connect_threads_ while the other   *)
(* is at it; or the detached one is where start() assigns a thread.        *)
Racing ==
  LET repl == Step("repl")
      other == Step("teardown")
      new == IF cli.pc = "spawn" /\ cli.passes < Len(Spawned)
             THEN Spawned[cli.passes + 1] ELSE "none"
  IN  \/ other \in Worker /\ other = repl /\ thread[other] # "none"
      \/ other = "close" /\ repl = "close" /\ "socket" \in open
      \/ other = "adapter" /\ repl = "adapter" /\ "adapter" \in open
      \/ {other, repl} \in {{"drop"}, {"connect", "drop"}}
      \/ other \in Worker /\ other = new
      \/ other = "drop" /\ new = "connect"

Wreck ==
  /\ Racing
  /\ wrecked' = TRUE
  /\ UNCHANGED <<cli, is_creator, running, receiving, open, transfers, thread, at>>

Stop(s) ==
  \/ SetFlag(s) \/ NotifyAll(s) \/ StopReceive(s) \/ Join(s) \/ DropThreads(s) \/ Close(s)
  \/ Clear(s)

Command == Leave \/ Delete \/ Quit \/ QuitIdle \/ Config \/ ConfigAgain

Starting ==
  \/ StartFails \/ StartOpens \/ StartReceive \/ StartRunning \/ Spawn \/ Started

Work(w) == Enter(w) \/ Again(w) \/ Evaluate(w) \/ Block(w) \/ TimesOut(w)

ShutNext ==
  /\ ~wrecked
  /\ \/ Command \/ Starting \/ Teardown \/ Incoming \/ Wreck
     \/ \E w \in Worker : Work(w)
     \/ \E s \in Stopper : Stop(s)

(* The threads are scheduled, their waits end and what they call returns.  *)
(* The user types what they like.                                          *)
ShutFairness ==
  /\ WF_shutVars(~wrecked /\ Starting)
  /\ \A w \in Worker : WF_shutVars(~wrecked /\ Work(w))
  /\ \A s \in Stopper : WF_shutVars(~wrecked /\ Stop(s))

-----------------------------------------------------------------------------
(* Types of the variables.                                                 *)
ShutTypeOK ==
  /\ cli \in [pc : {"prompt", "start", "receive", "run", "spawn", "stop", "quit"},
             then : {"prompt", "running", "start", "quit"}, passes : 0 .. Len(Spawned)]
  /\ {is_creator, running, receiving, transfers, wrecked} \subseteq BOOLEAN
  /\ open \subseteq {"socket", "adapter"}
  /\ thread \in [Worker -> {"none", "top", "busy", "evaluated", "blocked"}]
  /\ at \in [Stopper -> 0 .. Len(Steps)]

(* A thread in the body of its loop finds the socket and the adapter open: *)
(* stop() closes them after it has joined every thread, also when it runs  *)
(* twice at once or while start() is still spawning.                       *)
OpenWhenUsed == \A w \in Worker : thread[w] = "busy" => open = {"socket", "adapter"}

(* Where there is no Tunnel, nothing of the last one is left: every thread *)
(* was joined (the destructor of a joinable std::thread ends the process), *)
(* everything is closed, no transfer is listed.                            *)
NothingLeft ==
  (AtPrompt /\ cli.then # "running") \/ cli.pc \in {"quit", "start"} =>
    thread = NoThreads /\ open = {} /\ ~running /\ ~receiving /\ ~transfers

(* Without the detached thread of a teardown in stop(), no two threads     *)
(* meet in start() and stop() and the behaviour is defined.                *)
WreckedByTeardown == wrecked => at["teardown"] # 0

(* stop() takes nothing away from a thread that runs and leaves nothing    *)
(* behind once it is over, as long as the process is not lost, and it is   *)
(* only lost while a teardown is in stop().                                *)
CleanStop == ShutTypeOK /\ OpenWhenUsed /\ NothingLeft /\ WreckedByTeardown

(* Every stop() returns, unless the process is lost.  hs_cv_ is notified   *)
(* without its mutex, so a waiter may miss it; its wait_for ends by        *)
(* itself.  The receive thread, which stop() joins, does not run it.       *)
StopReturns == \A s \in Stopper : []<>(at[s] = 0 \/ wrecked)
=============================================================================
