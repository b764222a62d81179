------------------------------- MODULE PLCGo -------------------------------
(***************************************************************************)
(* The facade plcgo.go as cmd/plcgo/main.go and the example run it: connect*)
(* the sources, start the PLC, start the GraphQL server in a goroutine, and*)
(* after a signal stop the server, the PLC and the sources.                *)
(*                                                                         *)
(* It composes three parts.  The server and what it shows is GraphQLUpdates*)
(* whose steps it allows while there is a server; nothing in the program   *)
(* calls Subscribe.  Each source is a Link, which SourceClient and         *)
(* MqttClient implement.  The scan loops of TaskScheduler are one that     *)
(* runs, or goes on for a while after it was stopped.                      *)
(***************************************************************************)
EXTENDS GraphQLUpdates

CONSTANTS
    Sources, \* the Modbus, OPC UA, MQTT and Redis sources
    Rank,    \* Rank[s]: the place of its protocol in Start and Stop
    Enabled, \* the sources whose configuration says Enabled
    Sparkplug \* the MQTT sources with GroupID and EdgeNodeID

ASSUME SystemAssumption ==
    /\ Rank \in [Sources -> Nat]
    /\ Enabled \subseteq Sources /\ Sparkplug \subseteq Sources

VARIABLES
    main,     \* where the main goroutine is
    visits,   \* the sources that Start or Stop has still to visit
    links,    \* links[s]: the state of Link for source s
    loop,     \* the scan loops: "none", "running", "stopping" or "ended"
    server,   \* the goroutine of StartGraphQL
    shutdown, \* Shutdown was called
    expired,  \* Shutdown gave up with requests under way
    missed,   \* Stop found no server
    excused,  \* excused[s]: when Stop came to s, something was under way that
              \* no longer looks at its state, or Disconnect failed
    births,   \* sources whose OnConnect handler has its NBIRTH still to publish
    crashed   \* the program has panicked

lifeVars == <<main, visits, loop, server, shutdown, expired, missed>>
sourceVars == <<links, excused, births, crashed>>
systemVars == <<vars, lifeVars, sourceVars>>

LinkStates ==
    [status : {"down", "trying", "up"}, hope : BOOLEAN, late : BOOLEAN, abandoned : BOOLEAN,
     connects : 0 .. 1, disconnects : 0 .. 1]

L(s) == INSTANCE Link WITH
    status <- links[s].status,
    hope <- links[s].hope,
    late <- links[s].late,
    abandoned <- links[s].abandoned,
    connects <- links[s].connects,
    disconnects <- links[s].disconnects

NewLink ==
    [status |-> "down", hope |-> FALSE, late |-> FALSE, abandoned |-> FALSE,
     connects |-> 0, disconnects |-> 0]

SystemInit ==
    /\ Init
    /\ main = "connecting" /\ visits = Enabled
    /\ links = [s \in Sources |-> NewLink]
    /\ loop = "none" /\ server = "none"
    /\ shutdown = FALSE /\ expired = FALSE /\ missed = FALSE
    /\ excused = [s \in Sources |-> FALSE]
    /\ births = {} /\ crashed = FALSE

MainGoes(from, to) == main = from /\ main' = to

\* Some step of Link for source s, and nothing else happens to the sources.
Relinked(s) == \E new \in LinkStates : links' = [links EXCEPT ![s] = new]

\* The sources of one protocol come in the order of a map.
ComesNext(s) == s \in visits /\ \A t \in visits : Rank[s] <= Rank[t]

-----------------------------------------------------------------------------
(* Start.                                                                  *)

\* A source that cannot be reached is left to its retries.
ConnectSource(s) ==
    /\ main = "connecting"
    /\ ComesNext(s)
    /\ Relinked(s) /\ L(s)!Connect
    /\ visits' = visits \ {s}
    /\ UNCHANGED <<vars, main, loop, server, shutdown, expired, missed, excused, births, crashed>>

AllVisited == visits = {}

\* PLC.Start, and the go statement for StartGraphQL.
StartPLC ==
    /\ AllVisited
    /\ MainGoes("connecting", "running")
    /\ loop' = "running"
    /\ server' = "spawned"
    /\ UNCHANGED <<vars, sourceVars, visits, shutdown, expired, missed>>

-----------------------------------------------------------------------------
(* StartGraphQL: server.Start makes the http.Server, starts publishUpdates *)
(* and listens until Shutdown is called, or fails because the port is taken*)

MakeServer ==
    /\ server = "spawned"
    /\ server' = "made"
    /\ UNCHANGED <<vars, sourceVars, main, visits, loop, shutdown, expired, missed>>

Listen ==
    /\ server = "made" /\ ~shutdown
    /\ server' = "listening"
    /\ UNCHANGED <<vars, sourceVars, main, visits, loop, shutdown, expired, missed>>

ListenFails ==
    /\ server = "made"
    /\ server' = "closed"
    /\ UNCHANGED <<vars, sourceVars, main, visits, loop, shutdown, expired, missed>>

ServerMade == server \in {"made", "listening", "draining", "closed"}
Accepting == server \in {"listening", "draining"}
UnderWay(r) == pc[r] \in {"asking", "answering"}

\* A request may still come on a connection that was accepted before Shutdown.
ServerStep ==
    /\ \/ Accepting /\ \E r \in Requests : Arrive(r)
       \/ \E r \in Requests : UnderWay(r) /\ RequestStep(r)
       \/ ServerMade /\ \E p \in Publishers : PublisherStep(p)
    /\ UNCHANGED <<lifeVars, sourceVars>>

-----------------------------------------------------------------------------
(* The scan loops and the sources, while main does what it does.           *)

Scan ==
    /\ loop \in {"running", "stopping"}
    /\ \E v \in Vars : Write(v)
    /\ UNCHANGED <<lifeVars, sourceVars>>

LoopEnds ==
    /\ loop = "stopping"
    /\ loop' = "ended"
    /\ UNCHANGED <<vars, sourceVars, main, visits, server, shutdown, expired, missed>>

SourceStep(s) ==
    /\ Relinked(s) /\ (L(s)!Finish \/ L(s)!Look \/ L(s)!Expire)
    /\ UNCHANGED <<vars, lifeVars, excused, births, crashed>>

\* The OnConnect handler, up to its unlock ...
OnConnect(s) ==
    /\ s \in Sparkplug
    /\ Relinked(s) /\ L(s)!Finish /\ links'[s].status = "up"
    /\ births' = births \cup {s}
    /\ UNCHANGED <<vars, lifeVars, excused, crashed>>

\* c.client is nil after Disconnect, unless a retry has set it again.
Disconnected(s) == main \in {"disconnecting", "stopped"} /\ s \notin visits

\* ... and then publishNBirth, which panics if c.client is nil by now.
PublishNBirth(s) ==
    /\ s \in births
    /\ births' = births \ {s}
    /\ crashed' \in {FALSE, Disconnected(s)}
    /\ UNCHANGED <<vars, lifeVars, links, excused>>

-----------------------------------------------------------------------------
(* Stop, after a signal.                                                   *)

\* Mutated form: the PLC is stopped first.
PLCFirst == "stoppingPLC"
ServerFirst == "stoppingServer"

Signal ==
    /\ MainGoes("running", ServerFirst)
    /\ UNCHANGED <<vars, sourceVars, visits, loop, server, shutdown, expired, missed>>

\* Server.Stop reads s.server without synchronisation: it may find nil, even
\* when the other goroutine has set it.
StopMisses ==
    /\ MainGoes("stoppingServer", "stoppingPLC")
    /\ missed' = TRUE
    /\ UNCHANGED <<vars, sourceVars, visits, loop, server, shutdown, expired>>

\* Shutdown closes the listener ...
Shutdown ==
    /\ ServerMade
    /\ MainGoes("stoppingServer", "waiting")
    /\ shutdown' = TRUE
    /\ server' = IF server = "listening" THEN "draining" ELSE server
    /\ UNCHANGED <<vars, sourceVars, visits, loop, expired, missed>>

NoRequest == \A r \in Requests : ~UnderWay(r)

\* Mutated form: Stop waits for the requests without a limit.
WithoutLimit == NoRequest
WithLimit == TRUE

\* ... and waits for the requests, until its context expires (30 s).
ShutdownEnds ==
    /\ WithLimit
    /\ MainGoes("waiting", "stoppingPLC")
    /\ expired' = ~NoRequest
    /\ server' = IF server = "draining" /\ NoRequest THEN "closed" ELSE server
    /\ UNCHANGED <<vars, sourceVars, visits, loop, shutdown, missed>>

\* Mutated form: only the sources that are up are disconnected.
ThoseUp == {s \in Sources : links[s].status = "up"}
EverySource == Sources

\* PLC.Stop does not wait for the loops.
StopPLC ==
    /\ MainGoes("stoppingPLC", "disconnecting")
    /\ loop' = "stopping"
    /\ visits' = EverySource
    /\ UNCHANGED <<vars, sourceVars, server, shutdown, expired, missed>>

DisconnectSource(s) ==
    /\ main = "disconnecting"
    /\ ComesNext(s)
    /\ Relinked(s) /\ L(s)!Disconnect
    /\ excused' = [excused EXCEPT ![s] = links[s].late \/ links'[s].status # "down"]
    /\ visits' = visits \ {s}
    /\ UNCHANGED <<vars, main, loop, server, shutdown, expired, missed, births, crashed>>

Stopped ==
    /\ AllVisited
    /\ MainGoes("disconnecting", "stopped")
    /\ UNCHANGED <<vars, sourceVars, visits, loop, server, shutdown, expired, missed>>

-----------------------------------------------------------------------------
StopStep ==
    /\ ~crashed
    /\ \/ StopMisses \/ Shutdown \/ ShutdownEnds \/ StopPLC \/ Stopped
       \/ \E s \in Sources : DisconnectSource(s)

SystemNext ==
    \/ StopStep
    \/ /\ ~crashed
       /\ \/ \E s \in Sources :
                ConnectSource(s) \/ SourceStep(s) \/ OnConnect(s) \/ PublishNBirth(s)
          \/ StartPLC \/ Signal
          \/ MakeServer \/ Listen \/ ListenFails \/ ServerStep
          \/ Scan \/ LoopEnds

SystemSpec == SystemInit /\ [][SystemNext]_systemVars

\* Stop goes on: Shutdown ends with its context, and each Disconnect returns,
\* since no task program of the repository uses a source, so that nobody holds
\* c.mu for ever (ClientLock).
FairSystemSpec == SystemSpec /\ WF_systemVars(StopStep)

-----------------------------------------------------------------------------
(***************************************************************************)
(* From the moment the PLC is stopped no request is answered from it, nor  *)
(* sets a variable: the server has ended first.  The exceptions are a      *)
(* shutdown that gave up and a server that was not there yet.              *)
(***************************************************************************)
RequestsEndFirst ==
    loop \in {"stopping", "ended"} => NoRequest \/ expired \/ missed

(***************************************************************************)
(* After Stop every source is down and stays down, also one that was being *)
(* tried - unless a retry had passed its look at the state by then, or     *)
(* Disconnect failed.  A paho client that is alive counts as such a retry: *)
(* it takes the link up by itself, and its handlers do not look at the     *)
(* state.                                                                  *)
(***************************************************************************)
StoppedIsDown ==
    main = "stopped" => \A s \in Sources : excused[s] \/ links[s].status = "down"

(***************************************************************************)
(* Stop returns, whatever the server and its requests, the loops and the   *)
(* retries are doing - unless a Sparkplug source that it has disconnected  *)
(* already publishes its NBIRTH just then: the program panics, inside Stop,*)
(* but only after the server and the PLC were stopped.                     *)
(***************************************************************************)
PanicsInDisconnects ==
    crashed /\ main = "disconnecting" /\ \E s \in Sparkplug : Disconnected(s)

StopReturns == main = "stoppingServer" ~> (main = "stopped" \/ PanicsInDisconnects)
=============================================================================
